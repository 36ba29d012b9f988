----------------------------- MODULE HostProofs -----------------------------
(***************************************************************************)
(* Proofs about the two hosts that VBMOUSE talks to: VbComm, for every     *)
(* value of its constants, and VmwareMouse, for every size of the queue    *)
(* and any number of packets under way.  The two share no variable.        *)
(***************************************************************************)
EXTENDS VbComm, VmwareMouse, SequenceTheorems, TLAPS

-----------------------------------------------------------------------------
(* VirtualBox                                                              *)
(*                                                                         *)
(* Each step of VBMOUSE.EXE relies on what its earlier steps did, and on   *)
(* what the resident part cannot have undone meanwhile: Steps says that    *)
(* for vbavail, the descriptor and the buffer.  The invariants of the runs *)
(* need Paired, Quieted and Told, which say the same of the locks, of the  *)
(* BIOS and of the host.                                                   *)

\* Where vbavail is known, and what a step finds in the descriptor and buffer.
Steps ==
  /\ at \in {"device", "descriptor", "lock", "report", "sendReport", "enable"}
       \cup ExitSteps => ~vbavail
  /\ at \in OffSteps \ {"off"} => vbavail
  /\ stage = "gone" => ~vbavail /\ at = "idle"
  /\ at \in {"report", "sendReport", "enable"} => Reachable
  /\ at = "sendReport" => buf = Req("Report", FALSE)
  /\ dds.known => dds.vds = HasVDS

\* Where VDS has the buffer locked, if commands were paired so far.
Paired ==
  seen \cap {"again", "fault"} = {} =>
    locks = IF /\ HasVDS
               /\ \/ vbavail /\ at \notin {"clear", "disable"}
                  \/ at \in {"report", "sendReport", "enable"}
              THEN 1 ELSE 0

\* When the BIOS has forgotten the callback.
Quieted ==
  ~Popups => (at \in {"vector", "free"} \/ stage = "gone" => ~ps2.callback)

\* When the host has been told to forget absolute positions.
Told ==
  ~Popups /\ seen \cap {"again", "mixed"} = {} =>
    (~vbavail \/ at \in {"unlock", "clear", "disable"} => ~absolute)

IInv ==
  TypeOK /\ AddressIsGood /\ Steps /\ Paired /\ Quieted /\ Told

-----------------------------------------------------------------------------
\* The parts of TypeOK: what flags and records may be ...
Flags ==
  /\ vbavail \in BOOLEAN
  /\ absolute \in BOOLEAN
  /\ dds \in [known : BOOLEAN, vds : BOOLEAN]
  /\ ps2 \in [on : BOOLEAN, callback : BOOLEAN]
  /\ buf \in Requests

\* ... where VBMOUSE.EXE may be ...
Places ==
  /\ stage \in {"gone", "loaded", "resident"}
  /\ task \in {"none", "install", "integ", "uninstall"}
  /\ at \in {"idle", "hook"} \cup OnSteps \cup OffSteps \cup ExitSteps
  /\ task = "none" <=> at = "idle"
  /\ task = "install" => at \in OnSteps \cup {"hook"}
  /\ task = "integ" => at \in OnSteps \cup OffSteps
  /\ task = "uninstall" => at \in OffSteps \cup ExitSteps

\* ... and the counts.
Counts ==
  /\ locks \in 0 .. MaxLocks
  /\ seen \subseteq {"again", "fault", "nowhere", "mixed"}

LEMMA TypeParts == TypeOK <=> Flags /\ Places /\ Counts
BY DEF TypeOK, Flags, Places, Counts

-----------------------------------------------------------------------------
(* Requests *)

LEMMA AreRequests ==
  ASSUME NEW b \in BOOLEAN
  PROVE  \A type \in Types : /\ Req(type, b) \in Requests
                            /\ Req(type, b).type = type
                            /\ Req(type, b).flag = b
BY DEF Req, Requests

\* Mouse events and most functions of int 33h do not tell the host anew whether
\* the guest takes absolute positions.
LEMMA PointerRequests ==
  ASSUME MouseEvent \/ Pointer
  PROVE  \E req \in Requests : req.type # "SetMouse" /\ Ask(req)
<1>1. CASE Ask(Req("GetMouse", FALSE))
  BY <1>1, AreRequests DEF Types
<1>2. CASE \E b \in BOOLEAN : Ask(Req("SetPointer", b))
  BY <1>2, AreRequests DEF Types
<1> QED
  BY <1>1, <1>2 DEF MouseEvent, Pointer

\* Sending the request that was meant, to where it can be sent, leaves no trace
\* in seen; sending any leaves only nowhere or mixed, and a flag.
LEMMA SendFlags ==
  ASSUME NEW req, NEW r \in Requests, Flags, Send(req, r)
  PROVE  absolute' \in BOOLEAN
BY DEF Send, Flags, Requests

LEMMA SendTraces ==
  ASSUME NEW req, NEW r, Send(req, r)
  PROVE  /\ seen \subseteq seen'
         /\ seen' \subseteq seen \cup {"nowhere", "mixed"}
         /\ Reachable /\ "nowhere" \in seen' => "nowhere" \in seen
         /\ r = req /\ "mixed" \in seen' => "mixed" \in seen
         /\ r # req => "mixed" \in seen'
         /\ r.type # "SetMouse" => absolute' = absolute
         /\ Reachable /\ r.type = "SetMouse" => absolute' = r.flag
BY DEF Send, Wrongs

LEMMA AskTraces ==
  ASSUME NEW req, Ask(req)
  PROVE  /\ seen \subseteq seen'
         /\ seen' \subseteq seen \cup {"nowhere"}
         /\ vbavail /\ Reachable => seen' = seen
         /\ ~vbavail => seen' = seen /\ buf' = buf /\ absolute' = absolute
         /\ vbavail => buf' = req
         /\ req.type # "SetMouse" => absolute' = absolute
<1>1. CASE vbavail
  BY <1>1 DEF Ask, Send, Wrongs
<1>2. CASE ~vbavail
  BY <1>2 DEF Ask
<1> QED
  BY <1>1, <1>2

LEMMA AskFlags ==
  ASSUME NEW req \in Requests, Flags, Ask(req)
  PROVE  buf' \in Requests /\ absolute' \in BOOLEAN
<1>1. CASE vbavail
  BY <1>1, SendFlags DEF Ask
<1>2. CASE ~vbavail
  BY <1>2 DEF Ask, Flags
<1> QED
  BY <1>1, <1>2

-----------------------------------------------------------------------------
(* Types *)

LEMMA FlagsStep ==
  ASSUME Flags, Next
  PROVE  Flags'
<1> USE VbCommAssumption DEF Flags
<1>1. CASE MouseEvent
  <2>1. PICK req \in Requests : Ask(req)
    BY <1>1, PointerRequests
  <2>2. buf' \in Requests /\ absolute' \in BOOLEAN
    BY <2>1, AskFlags
  <2> QED
    BY <1>1, <2>2 DEF MouseEvent
<1>2. CASE Reset
  <2>1. Ask(Req("SetMouse", TRUE)) /\ Req("SetMouse", TRUE) \in Requests
    BY <1>2, AreRequests DEF Types, Reset
  <2>2. buf' \in Requests /\ absolute' \in BOOLEAN
    BY <2>1, AskFlags
  <2> QED
    BY <1>2, <2>2 DEF Reset
<1>3. CASE Pointer
  <2>1. PICK req \in Requests : Ask(req)
    BY <1>3, PointerRequests
  <2>2. buf' \in Requests /\ absolute' \in BOOLEAN
    BY <2>1, AskFlags
  <2> QED
    BY <1>3, <2>2 DEF Pointer
<1>4. CASE Install
  BY <1>4 DEF Install, Empty
<1>5. CASE Integ("on")
  BY <1>5 DEF Integ
<1>6. CASE Integ("off")
  BY <1>6 DEF Integ
<1>7. CASE Uninstall
  BY <1>7 DEF Uninstall
<1>8. CASE Enables
  <2>On. CASE On
    BY <2>On DEF On
  <2>Device. CASE Device
    BY <2>Device DEF Device
  <2>Descriptor. CASE Descriptor
    BY <2>Descriptor DEF Descriptor, Empty
  <2>Lock. CASE Lock
    BY <2>Lock DEF Lock
  <2>LockFails. CASE LockFails
    BY <2>LockFails DEF LockFails
  <2>Report. CASE Report
    BY <2>Report, AreRequests DEF Types, Report
  <2>SendReport. CASE SendReport
    BY <2>SendReport, SendFlags DEF SendReport
  <2>ReportFails. CASE ReportFails
    BY <2>ReportFails DEF ReportFails
  <2>Enable. CASE Enable
    BY <2>Enable DEF Enable
  <2>Hook. CASE Hook
    BY <2>Hook DEF Hook
  <2> HIDE DEF Flags
  <2> QED
    BY <1>8, <2>On, <2>Device, <2>Descriptor, <2>Lock, <2>LockFails,
       <2>Report, <2>SendReport, <2>ReportFails, <2>Enable, <2>Hook
    DEF Enables
<1>9. CASE Disables
  <2>Off. CASE Off
    BY <2>Off DEF Off
  <2>SetMouse. CASE SetMouse
    BY <2>SetMouse, AreRequests DEF Types, SetMouse
  <2>SendMouse. CASE SendMouse
    BY <2>SendMouse, SendFlags DEF SendMouse
  <2>Unlock. CASE Unlock
    BY <2>Unlock DEF Unlock
  <2>Clear. CASE Clear
    BY <2>Clear DEF Clear, Empty
  <2>Disable. CASE Disable
    BY <2>Disable DEF Disable
  <2> HIDE DEF Flags
  <2> QED
    BY <1>9, <2>Off, <2>SetMouse, <2>SendMouse, <2>Unlock, <2>Clear,
       <2>Disable DEF Disables
<1>10. CASE Leaves
  <2>Quiet. CASE Quiet
    BY <2>Quiet DEF Quiet
  <2>Callback. CASE Callback
    BY <2>Callback DEF Callback
  <2>Vector. CASE Vector
    BY <2>Vector DEF Vector
  <2>FreeMemory. CASE FreeMemory
    BY <2>FreeMemory DEF FreeMemory
  <2> HIDE DEF Flags
  <2> QED
    BY <1>10, <2>Quiet, <2>Callback, <2>Vector, <2>FreeMemory DEF Leaves
<1> HIDE DEF Flags
<1> QED
  BY <1>1, <1>2, <1>3, <1>4, <1>5, <1>6, <1>7, <1>8, <1>9, <1>10 DEF Next

LEMMA PlacesStep ==
  ASSUME Places, Next
  PROVE  Places'
<1> USE DEF Places, OnSteps, OffSteps, ExitSteps, Starts,
                             Goes, Stops, Returns
<1>1. CASE MouseEvent
  BY <1>1 DEF MouseEvent
<1>2. CASE Reset
  BY <1>2 DEF Reset
<1>3. CASE Pointer
  BY <1>3 DEF Pointer
<1>4. CASE Install
  BY <1>4 DEF Install
<1>5. CASE Integ("on")
  BY <1>5 DEF Integ
<1>6. CASE Integ("off")
  BY <1>6 DEF Integ
<1>7. CASE Uninstall
  BY <1>7 DEF Uninstall
<1>8. CASE Enables
  <2>On. CASE On
    BY <2>On DEF On
  <2>Device. CASE Device
    BY <2>Device DEF Device
  <2>Descriptor. CASE Descriptor
    BY <2>Descriptor DEF Descriptor
  <2>Lock. CASE Lock
    BY <2>Lock DEF Lock
  <2>LockFails. CASE LockFails
    BY <2>LockFails DEF LockFails
  <2>Report. CASE Report
    BY <2>Report DEF Report
  <2>SendReport. CASE SendReport
    BY <2>SendReport DEF SendReport
  <2>ReportFails. CASE ReportFails
    BY <2>ReportFails DEF ReportFails
  <2>Enable. CASE Enable
    BY <2>Enable DEF Enable
  <2>Hook. CASE Hook
    BY <2>Hook DEF Hook
  <2> HIDE DEF Places
  <2> QED
    BY <1>8, <2>On, <2>Device, <2>Descriptor, <2>Lock, <2>LockFails,
       <2>Report, <2>SendReport, <2>ReportFails, <2>Enable, <2>Hook
    DEF Enables
<1>9. CASE Disables
  <2>Off. CASE Off
    BY <2>Off DEF Off
  <2>SetMouse. CASE SetMouse
    BY <2>SetMouse DEF SetMouse
  <2>SendMouse. CASE SendMouse
    BY <2>SendMouse DEF SendMouse
  <2>Unlock. CASE Unlock
    BY <2>Unlock DEF Unlock
  <2>Clear. CASE Clear
    BY <2>Clear DEF Clear
  <2>Disable. CASE Disable
    BY <2>Disable DEF Disable
  <2> HIDE DEF Places
  <2> QED
    BY <1>9, <2>Off, <2>SetMouse, <2>SendMouse, <2>Unlock, <2>Clear,
       <2>Disable DEF Disables
<1>10. CASE Leaves
  <2>Quiet. CASE Quiet
    BY <2>Quiet DEF Quiet
  <2>Callback. CASE Callback
    BY <2>Callback DEF Callback
  <2>Vector. CASE Vector
    BY <2>Vector DEF Vector
  <2>FreeMemory. CASE FreeMemory
    BY <2>FreeMemory DEF FreeMemory
  <2> HIDE DEF Places
  <2> QED
    BY <1>10, <2>Quiet, <2>Callback, <2>Vector, <2>FreeMemory DEF Leaves
<1> HIDE DEF Places
<1> QED
  BY <1>1, <1>2, <1>3, <1>4, <1>5, <1>6, <1>7, <1>8, <1>9, <1>10 DEF Next

-----------------------------------------------------------------------------
(* Invariants *)

\* What the steps of VBMOUSE.EXE rely on.
LEMMA StepsStep ==
  ASSUME TypeOK, AddressIsGood, Steps, Next
  PROVE  (AddressIsGood /\ Steps)'
<1> USE VbCommAssumption DEF AddressIsGood, Steps, Reachable,
                             OffSteps, ExitSteps, Starts,
                             Goes, Stops, Returns
<1>1. CASE MouseEvent
  <2>1. PICK req \in Requests : Ask(req)
    BY <1>1, PointerRequests
  <2>2. ~vbavail => buf' = buf
    BY <2>1, AskTraces
  <2> QED
    BY <1>1, <2>2 DEF MouseEvent
<1>2. CASE Reset
  <2>1. Ask(Req("SetMouse", TRUE))
    BY <1>2 DEF Reset
  <2>2. ~vbavail => buf' = buf
    BY <2>1, AskTraces
  <2> QED
    BY <1>2, <2>2 DEF Reset
<1>3. CASE Pointer
  <2>1. PICK req \in Requests : Ask(req)
    BY <1>3, PointerRequests
  <2>2. ~vbavail => buf' = buf
    BY <2>1, AskTraces
  <2> QED
    BY <1>3, <2>2 DEF Pointer
<1>4. CASE Install
  BY <1>4 DEF Install, Empty
<1>5. CASE Integ("on")
  BY <1>5 DEF Integ
<1>6. CASE Integ("off")
  BY <1>6 DEF Integ
<1>7. CASE Uninstall
  BY <1>7 DEF Uninstall
<1>8. CASE Enables
  <2>On. CASE On
    BY <2>On DEF On
  <2>Device. CASE Device
    BY <2>Device DEF Device
  <2>Descriptor. CASE Descriptor
    BY <2>Descriptor DEF Descriptor, Empty
  <2>Lock. CASE Lock
    <3>1. locks \in Nat
      BY VbCommAssumption DEF TypeOK
    <3>2. dds'.known /\ dds'.vds = HasVDS
      BY <2>Lock DEF Lock
    <3>3. HasVDS => locks' > 0
      BY <2>Lock, <3>1 DEF Lock
    <3> QED
      BY <2>Lock, <3>2, <3>3 DEF Lock
  <2>LockFails. CASE LockFails
    BY <2>LockFails DEF LockFails
  <2>Report. CASE Report
    BY <2>Report DEF Report
  <2>SendReport. CASE SendReport
    BY <2>SendReport DEF SendReport
  <2>ReportFails. CASE ReportFails
    BY <2>ReportFails DEF ReportFails
  <2>Enable. CASE Enable
    <3>1. task # "uninstall"
      BY <2>Enable DEF Enable, TypeOK, ExitSteps
    <3> QED
      BY <2>Enable, <3>1 DEF Enable
  <2>Hook. CASE Hook
    BY <2>Hook DEF Hook
  <2> HIDE DEF AddressIsGood, Steps
  <2> QED
    BY <1>8, <2>On, <2>Device, <2>Descriptor, <2>Lock, <2>LockFails,
       <2>Report, <2>SendReport, <2>ReportFails, <2>Enable, <2>Hook
    DEF Enables
<1>9. CASE Disables
  <2>Off. CASE Off
    BY <2>Off DEF Off
  <2>SetMouse. CASE SetMouse
    BY <2>SetMouse DEF SetMouse
  <2>SendMouse. CASE SendMouse
    BY <2>SendMouse DEF SendMouse
  <2>Unlock. CASE Unlock
    BY <2>Unlock DEF Unlock
  <2>Clear. CASE Clear
    BY <2>Clear DEF Clear, Empty
  <2>Disable. CASE Disable
    BY <2>Disable DEF Disable
  <2> HIDE DEF AddressIsGood, Steps
  <2> QED
    BY <1>9, <2>Off, <2>SetMouse, <2>SendMouse, <2>Unlock, <2>Clear,
       <2>Disable DEF Disables
<1>10. CASE Leaves
  <2>Quiet. CASE Quiet
    BY <2>Quiet DEF Quiet
  <2>Callback. CASE Callback
    BY <2>Callback DEF Callback
  <2>Vector. CASE Vector
    BY <2>Vector DEF Vector
  <2>FreeMemory. CASE FreeMemory
    BY <2>FreeMemory DEF FreeMemory
  <2> HIDE DEF AddressIsGood, Steps
  <2> QED
    BY <1>10, <2>Quiet, <2>Callback, <2>Vector, <2>FreeMemory DEF Leaves
<1> HIDE DEF AddressIsGood, Steps
<1> QED
  BY <1>1, <1>2, <1>3, <1>4, <1>5, <1>6, <1>7, <1>8, <1>9, <1>10 DEF Next

LEMMA CountsAre == TypeOK => Counts
BY DEF TypeOK, Counts

\* A lock is only ever undone that was made, and histories stay histories.
LEMMA CountsStep ==
  ASSUME TypeOK, AddressIsGood, Steps, Next
  PROVE  Counts'
<1> USE VbCommAssumption, CountsAre DEF Counts
<1>1. CASE MouseEvent
  <2>1. PICK req \in Requests : Ask(req)
    BY <1>1, PointerRequests
  <2>2. seen \subseteq seen' /\ seen' \subseteq seen \cup {"nowhere"}
    BY <2>1, AskTraces
  <2> QED
    BY <1>1, <2>2 DEF MouseEvent
<1>2. CASE Reset
  <2>1. Ask(Req("SetMouse", TRUE))
    BY <1>2 DEF Reset
  <2>2. seen \subseteq seen' /\ seen' \subseteq seen \cup {"nowhere"}
    BY <2>1, AskTraces
  <2> QED
    BY <1>2, <2>2 DEF Reset
<1>3. CASE Pointer
  <2>1. PICK req \in Requests : Ask(req)
    BY <1>3, PointerRequests
  <2>2. seen \subseteq seen' /\ seen' \subseteq seen \cup {"nowhere"}
    BY <2>1, AskTraces
  <2> QED
    BY <1>3, <2>2 DEF Pointer
<1>4. CASE Install
  BY <1>4 DEF Install
<1>5. CASE Integ("on")
  BY <1>5 DEF Integ
<1>6. CASE Integ("off")
  BY <1>6 DEF Integ
<1>7. CASE Uninstall
  BY <1>7 DEF Uninstall
<1>8. CASE Enables
  <2>On. CASE On
    BY <2>On DEF On
  <2>Device. CASE Device
    BY <2>Device DEF Device
  <2>Descriptor. CASE Descriptor
    BY <2>Descriptor DEF Descriptor
  <2>Lock. CASE Lock
    BY <2>Lock DEF Lock
  <2>LockFails. CASE LockFails
    BY <2>LockFails DEF LockFails
  <2>Report. CASE Report
    BY <2>Report DEF Report
  <2>SendReport. CASE SendReport
    <3>1. seen \subseteq seen' /\ seen' \subseteq seen \cup {"nowhere", "mixed"}
      BY <2>SendReport, SendTraces DEF SendReport
    <3> QED
      BY <2>SendReport, <3>1 DEF SendReport
  <2>ReportFails. CASE ReportFails
    <3>1. /\ seen' \subseteq seen \cup {"nowhere", "mixed", "fault"}
          /\ "fault" \in seen'
      BY <2>ReportFails DEF ReportFails, Wrongs
    <3> QED
      BY <2>ReportFails, <3>1 DEF ReportFails
  <2>Enable. CASE Enable
    BY <2>Enable DEF Enable
  <2>Hook. CASE Hook
    BY <2>Hook DEF Hook
  <2> HIDE DEF Counts
  <2> QED
    BY <1>8, <2>On, <2>Device, <2>Descriptor, <2>Lock, <2>LockFails,
       <2>Report, <2>SendReport, <2>ReportFails, <2>Enable, <2>Hook
    DEF Enables
<1>9. CASE Disables
  <2>Off. CASE Off
    BY <2>Off DEF Off
  <2>SetMouse. CASE SetMouse
    BY <2>SetMouse DEF SetMouse
  <2>SendMouse. CASE SendMouse
    <3>1. seen \subseteq seen' /\ seen' \subseteq seen \cup {"nowhere", "mixed"}
      BY <2>SendMouse, SendTraces DEF SendMouse
    <3> QED
      BY <2>SendMouse, <3>1 DEF SendMouse
  <2>Unlock. CASE Unlock
    <3>1. dds.vds => locks > 0
      BY <2>Unlock DEF Unlock, Goes, AddressIsGood, Steps, Reachable, OffSteps
    <3> QED
      BY <2>Unlock, <3>1 DEF Unlock
  <2>Clear. CASE Clear
    BY <2>Clear DEF Clear
  <2>Disable. CASE Disable
    BY <2>Disable DEF Disable
  <2> HIDE DEF Counts
  <2> QED
    BY <1>9, <2>Off, <2>SetMouse, <2>SendMouse, <2>Unlock, <2>Clear,
       <2>Disable DEF Disables
<1>10. CASE Leaves
  <2>Quiet. CASE Quiet
    BY <2>Quiet DEF Quiet
  <2>Callback. CASE Callback
    BY <2>Callback DEF Callback
  <2>Vector. CASE Vector
    BY <2>Vector DEF Vector
  <2>FreeMemory. CASE FreeMemory
    BY <2>FreeMemory DEF FreeMemory
  <2> HIDE DEF Counts
  <2> QED
    BY <1>10, <2>Quiet, <2>Callback, <2>Vector, <2>FreeMemory DEF Leaves
<1> HIDE DEF Counts
<1> QED
  BY <1>1, <1>2, <1>3, <1>4, <1>5, <1>6, <1>7, <1>8, <1>9, <1>10 DEF Next

\* How often the buffer is locked.
LEMMA PairedStep ==
  ASSUME TypeOK, AddressIsGood, Steps, Paired, Next
  PROVE  Paired'
<1> USE VbCommAssumption DEF Paired, Steps, OffSteps, ExitSteps,
                             Starts, Goes, Stops, Returns
<1>1. CASE MouseEvent
  <2>1. PICK req \in Requests : Ask(req)
    BY <1>1, PointerRequests
  <2>2. seen \subseteq seen' /\ seen' \subseteq seen \cup {"nowhere"}
    BY <2>1, AskTraces
  <2> QED
    BY <1>1, <2>2 DEF MouseEvent
<1>2. CASE Reset
  <2>1. Ask(Req("SetMouse", TRUE))
    BY <1>2 DEF Reset
  <2>2. seen \subseteq seen' /\ seen' \subseteq seen \cup {"nowhere"}
    BY <2>1, AskTraces
  <2> QED
    BY <1>2, <2>2 DEF Reset
<1>3. CASE Pointer
  <2>1. PICK req \in Requests : Ask(req)
    BY <1>3, PointerRequests
  <2>2. seen \subseteq seen' /\ seen' \subseteq seen \cup {"nowhere"}
    BY <2>1, AskTraces
  <2> QED
    BY <1>3, <2>2 DEF Pointer
<1>4. CASE Install
  BY <1>4 DEF Install
<1>5. CASE Integ("on")
  BY <1>5 DEF Integ
<1>6. CASE Integ("off")
  BY <1>6 DEF Integ
<1>7. CASE Uninstall
  BY <1>7 DEF Uninstall
<1>8. CASE Enables
  <2>On. CASE On
    BY <2>On DEF On
  <2>Device. CASE Device
    BY <2>Device DEF Device
  <2>Descriptor. CASE Descriptor
    BY <2>Descriptor DEF Descriptor
  <2>Lock. CASE Lock
    BY <2>Lock DEF Lock
  <2>LockFails. CASE LockFails
    BY <2>LockFails DEF LockFails
  <2>Report. CASE Report
    BY <2>Report DEF Report
  <2>SendReport. CASE SendReport
    <3>1. seen \subseteq seen' /\ seen' \subseteq seen \cup {"nowhere", "mixed"}
      BY <2>SendReport, SendTraces DEF SendReport
    <3> QED
      BY <2>SendReport, <3>1 DEF SendReport
  <2>ReportFails. CASE ReportFails
    <3>1. /\ seen' \subseteq seen \cup {"nowhere", "mixed", "fault"}
          /\ "fault" \in seen'
      BY <2>ReportFails DEF ReportFails, Wrongs
    <3> QED
      BY <2>ReportFails, <3>1 DEF ReportFails
  <2>Enable. CASE Enable
    BY <2>Enable DEF Enable
  <2>Hook. CASE Hook
    BY <2>Hook DEF Hook
  <2> HIDE DEF Paired, Steps
  <2> QED
    BY <1>8, <2>On, <2>Device, <2>Descriptor, <2>Lock, <2>LockFails,
       <2>Report, <2>SendReport, <2>ReportFails, <2>Enable, <2>Hook
    DEF Enables
<1>9. CASE Disables
  <2>Off. CASE Off
    BY <2>Off DEF Off
  <2>SetMouse. CASE SetMouse
    BY <2>SetMouse DEF SetMouse
  <2>SendMouse. CASE SendMouse
    <3>1. seen \subseteq seen' /\ seen' \subseteq seen \cup {"nowhere", "mixed"}
      BY <2>SendMouse, SendTraces DEF SendMouse
    <3> QED
      BY <2>SendMouse, <3>1 DEF SendMouse
  <2>Unlock. CASE Unlock
    <3>1. vbavail /\ dds.vds = HasVDS
      BY <2>Unlock DEF Unlock, Goes, AddressIsGood, Steps, Reachable, OffSteps
    <3> QED
      BY <2>Unlock, <3>1 DEF Unlock
  <2>Clear. CASE Clear
    BY <2>Clear DEF Clear
  <2>Disable. CASE Disable
    BY <2>Disable DEF Disable
  <2> HIDE DEF Paired, Steps
  <2> QED
    BY <1>9, <2>Off, <2>SetMouse, <2>SendMouse, <2>Unlock, <2>Clear,
       <2>Disable DEF Disables
<1>10. CASE Leaves
  <2>Quiet. CASE Quiet
    BY <2>Quiet DEF Quiet
  <2>Callback. CASE Callback
    BY <2>Callback DEF Callback
  <2>Vector. CASE Vector
    BY <2>Vector DEF Vector
  <2>FreeMemory. CASE FreeMemory
    BY <2>FreeMemory DEF FreeMemory
  <2> HIDE DEF Paired, Steps
  <2> QED
    BY <1>10, <2>Quiet, <2>Callback, <2>Vector, <2>FreeMemory DEF Leaves
<1> HIDE DEF Paired, Steps
<1> QED
  BY <1>1, <1>2, <1>3, <1>4, <1>5, <1>6, <1>7, <1>8, <1>9, <1>10 DEF Next

\* No function of int 33h is called while VBMOUSE.EXE is at work, which could
\* set the callback again.
LEMMA QuietedStep ==
  ASSUME TypeOK, Quieted, Next
  PROVE  Quieted'
<1> USE DEF Quieted, TypeOK, Starts, Goes, Stops, Returns
<1>1. CASE MouseEvent
  BY <1>1 DEF MouseEvent, MayCall
<1>2. CASE Reset
  BY <1>2 DEF Reset, MayCall
<1>3. CASE Pointer
  BY <1>3 DEF Pointer, MayCall
<1>4. CASE Install
  BY <1>4 DEF Install
<1>5. CASE Integ("on")
  BY <1>5 DEF Integ
<1>6. CASE Integ("off")
  BY <1>6 DEF Integ
<1>7. CASE Uninstall
  BY <1>7 DEF Uninstall
<1>8. CASE Enables
  <2>On. CASE On
    BY <2>On DEF On
  <2>Device. CASE Device
    BY <2>Device DEF Device
  <2>Descriptor. CASE Descriptor
    BY <2>Descriptor DEF Descriptor
  <2>Lock. CASE Lock
    BY <2>Lock DEF Lock
  <2>LockFails. CASE LockFails
    BY <2>LockFails DEF LockFails
  <2>Report. CASE Report
    BY <2>Report DEF Report
  <2>SendReport. CASE SendReport
    BY <2>SendReport DEF SendReport
  <2>ReportFails. CASE ReportFails
    BY <2>ReportFails DEF ReportFails
  <2>Enable. CASE Enable
    BY <2>Enable DEF Enable
  <2>Hook. CASE Hook
    BY <2>Hook DEF Hook
  <2> HIDE DEF Quieted, TypeOK
  <2> QED
    BY <1>8, <2>On, <2>Device, <2>Descriptor, <2>Lock, <2>LockFails,
       <2>Report, <2>SendReport, <2>ReportFails, <2>Enable, <2>Hook
    DEF Enables
<1>9. CASE Disables
  <2>Off. CASE Off
    BY <2>Off DEF Off
  <2>SetMouse. CASE SetMouse
    BY <2>SetMouse DEF SetMouse
  <2>SendMouse. CASE SendMouse
    BY <2>SendMouse DEF SendMouse
  <2>Unlock. CASE Unlock
    BY <2>Unlock DEF Unlock
  <2>Clear. CASE Clear
    BY <2>Clear DEF Clear
  <2>Disable. CASE Disable
    BY <2>Disable DEF Disable
  <2> HIDE DEF Quieted, TypeOK
  <2> QED
    BY <1>9, <2>Off, <2>SetMouse, <2>SendMouse, <2>Unlock, <2>Clear,
       <2>Disable DEF Disables
<1>10. CASE Leaves
  <2>Quiet. CASE Quiet
    BY <2>Quiet DEF Quiet
  <2>Callback. CASE Callback
    BY <2>Callback DEF Callback
  <2>Vector. CASE Vector
    BY <2>Vector DEF Vector
  <2>FreeMemory. CASE FreeMemory
    BY <2>FreeMemory DEF FreeMemory
  <2> HIDE DEF Quieted, TypeOK
  <2> QED
    BY <1>10, <2>Quiet, <2>Callback, <2>Vector, <2>FreeMemory DEF Leaves
<1> HIDE DEF Quieted, TypeOK
<1> QED
  BY <1>1, <1>2, <1>3, <1>4, <1>5, <1>6, <1>7, <1>8, <1>9, <1>10 DEF Next

\* What the host was told.
LEMMA ToldStep ==
  ASSUME TypeOK, AddressIsGood, Steps, Told, Next
  PROVE  Told'
<1> USE DEF Told, Steps, OffSteps, ExitSteps, Starts,
                             Goes, Stops, Returns
<1>1. CASE MouseEvent
  <2>1. PICK req \in Requests : req.type # "SetMouse" /\ Ask(req)
    BY <1>1, PointerRequests
  <2>2. seen \subseteq seen' /\ absolute' = absolute
    BY <2>1, AskTraces
  <2> QED
    BY <1>1, <2>2 DEF MouseEvent
<1>2. CASE Reset
  <2>1. Ask(Req("SetMouse", TRUE))
    BY <1>2 DEF Reset
  <2>2. seen \subseteq seen' /\ (~vbavail => absolute' = absolute)
    BY <2>1, AskTraces
  <2> QED
    BY <1>2, <2>2 DEF Reset, MayCall
<1>3. CASE Pointer
  <2>1. PICK req \in Requests : req.type # "SetMouse" /\ Ask(req)
    BY <1>3, PointerRequests
  <2>2. seen \subseteq seen' /\ absolute' = absolute
    BY <2>1, AskTraces
  <2> QED
    BY <1>3, <2>2 DEF Pointer
<1>4. CASE Install
  BY <1>4 DEF Install
<1>5. CASE Integ("on")
  BY <1>5 DEF Integ
<1>6. CASE Integ("off")
  BY <1>6 DEF Integ
<1>7. CASE Uninstall
  BY <1>7 DEF Uninstall
<1>8. CASE Enables
  <2>On. CASE On
    BY <2>On DEF On
  <2>Device. CASE Device
    BY <2>Device DEF Device
  <2>Descriptor. CASE Descriptor
    BY <2>Descriptor DEF Descriptor
  <2>Lock. CASE Lock
    BY <2>Lock DEF Lock
  <2>LockFails. CASE LockFails
    BY <2>LockFails DEF LockFails
  <2>Report. CASE Report
    BY <2>Report DEF Report
  <2>SendReport. CASE SendReport
    <3>1. Send(Req("Report", FALSE), buf) /\ buf.type # "SetMouse"
      BY <2>SendReport, AreRequests DEF Types, SendReport
    <3>2. seen \subseteq seen' /\ absolute' = absolute
      BY <3>1, SendTraces
    <3> QED
      BY <2>SendReport, <3>2 DEF SendReport
  <2>ReportFails. CASE ReportFails
    <3>1. seen \subseteq seen'
      BY <2>ReportFails DEF ReportFails
    <3> QED
      BY <2>ReportFails, <3>1 DEF ReportFails
  <2>Enable. CASE Enable
    BY <2>Enable DEF Enable
  <2>Hook. CASE Hook
    BY <2>Hook DEF Hook
  <2> HIDE DEF Told, Steps
  <2> QED
    BY <1>8, <2>On, <2>Device, <2>Descriptor, <2>Lock, <2>LockFails,
       <2>Report, <2>SendReport, <2>ReportFails, <2>Enable, <2>Hook
    DEF Enables
<1>9. CASE Disables
  <2>Off. CASE Off
    BY <2>Off DEF Off
  <2>SetMouse. CASE SetMouse
    BY <2>SetMouse DEF SetMouse
  <2>SendMouse. CASE SendMouse
    <3> DEFINE off == Req("SetMouse", FALSE)
    <3>1. Send(off, buf)
      BY <2>SendMouse DEF SendMouse
    <3>2. CASE buf # off
      <4>1. "mixed" \in seen'
        BY <3>1, <3>2, SendTraces
      <4> QED
        BY <4>1
    <3>3. CASE buf = off
      <4>1. Reachable
        BY <2>SendMouse DEF SendMouse, AddressIsGood
      <4>2. buf.type = "SetMouse" /\ buf.flag = FALSE
        BY <3>3, AreRequests DEF Types
      <4>3. absolute' = FALSE
        BY <3>1, <4>1, <4>2, SendTraces
      <4> QED
        BY <4>3
    <3> QED
      BY <3>2, <3>3
  <2>Unlock. CASE Unlock
    BY <2>Unlock DEF Unlock
  <2>Clear. CASE Clear
    BY <2>Clear DEF Clear
  <2>Disable. CASE Disable
    BY <2>Disable DEF Disable
  <2> HIDE DEF Told, Steps
  <2> QED
    BY <1>9, <2>Off, <2>SetMouse, <2>SendMouse, <2>Unlock, <2>Clear,
       <2>Disable DEF Disables
<1>10. CASE Leaves
  <2>Quiet. CASE Quiet
    BY <2>Quiet DEF Quiet
  <2>Callback. CASE Callback
    BY <2>Callback DEF Callback
  <2>Vector. CASE Vector
    BY <2>Vector DEF Vector
  <2>FreeMemory. CASE FreeMemory
    BY <2>FreeMemory DEF FreeMemory
  <2> HIDE DEF Told, Steps
  <2> QED
    BY <1>10, <2>Quiet, <2>Callback, <2>Vector, <2>FreeMemory DEF Leaves
<1> HIDE DEF Told, Steps
<1> QED
  BY <1>1, <1>2, <1>3, <1>4, <1>5, <1>6, <1>7, <1>8, <1>9, <1>10 DEF Next

\* The initial states.
LEMMA InitIsSafe == Init => IInv
<1> SUFFICES ASSUME Init PROVE IInv
  OBVIOUS
<1>1. Flags
  BY DEF Init, Flags, Empty
<1>2. Places
  BY DEF Init, Places, OnSteps, OffSteps, ExitSteps
<1>3. Counts
  BY VbCommAssumption DEF Init, Counts
<1>4. AddressIsGood /\ Quieted /\ Told
  BY DEF Init, AddressIsGood, Quieted, Told
<1>5. Steps
  BY DEF Init, Steps, Empty, OffSteps, ExitSteps
<1>6. Paired
  BY DEF Init, Paired
<1> QED
  BY <1>1, <1>2, <1>3, <1>4, <1>5, <1>6, TypeParts DEF IInv

\* Every step.
LEMMA StepIsSafe ==
  ASSUME IInv, Next
  PROVE  IInv'
<1>1. Flags' /\ Places' /\ Counts'
  BY TypeParts, FlagsStep, PlacesStep, CountsStep DEF IInv
<1>2. TypeOK'
  BY <1>1 DEF TypeOK, Flags, Places, Counts
<1>3. (AddressIsGood /\ Steps)' /\ Paired' /\ Quieted' /\ Told'
  BY StepsStep, PairedStep, QuietedStep, ToldStep DEF IInv
<1> QED
  BY <1>2, <1>3 DEF IInv

\* No step.
LEMMA RestIsSafe ==
  ASSUME IInv, UNCHANGED vars
  PROVE  IInv'
<1> USE DEF vars
<1>1. TypeOK' /\ AddressIsGood'
  BY DEF IInv, TypeOK, AddressIsGood, Reachable
<1>2. Steps' /\ Paired'
  BY DEF IInv, Steps, Reachable, Paired
<1>3. Quieted' /\ Told'
  BY DEF IInv, Quieted, Told
<1> QED
  BY <1>1, <1>2, <1>3 DEF IInv

-----------------------------------------------------------------------------
(* Theorems *)

LEMMA AlwaysIInv == Spec => []IInv
  BY InitIsSafe, StepIsSafe, RestIsSafe, PTL DEF Spec

\* The variables stay in their sets; VBMOUSE.EXE never leaves the sequence of
\* its commands, and VDS is never asked to unlock what is not locked.
THEOREM TypeCorrect == Spec => []TypeOK
<1>1. IInv => TypeOK
  BY DEF IInv
<1> QED
  BY <1>1, AlwaysIInv, PTL

\* While vbavail invites the mouse interrupt to send requests, the descriptor
\* holds the address of a locked buffer, but for the end of `integ off`.
THEOREM AddressGood == Spec => []AddressIsGood
<1>1. IInv => AddressIsGood
  BY DEF IInv
<1> QED
  BY <1>1, AlwaysIInv, PTL

\* DMA locks are paired when every `integ on` succeeds and none is repeated.
THEOREM LocksPaired == Spec => []LocksArePaired
<1>1. IInv => LocksArePaired
  BY DEF IInv, LocksArePaired, Paired
<1> QED
  BY <1>1, AlwaysIInv, PTL

\* The BIOS has no address in memory that uninstall gave back.
THEOREM MemoryLive == Spec => []MemoryIsLive
<1>1. IInv => MemoryIsLive
  BY DEF IInv, MemoryIsLive, Quieted
<1> QED
  BY <1>1, AlwaysIInv, PTL

\* After `integ off` and uninstall the mouse is relative again for the host.
THEOREM HostTold == Spec => []HostIsTold
<1>1. IInv => HostIsTold
  BY DEF IInv, HostIsTold, Told
<1> QED
  BY <1>1, AlwaysIInv, PTL

\* Requests get lost or mixed up only while integration is switched off.
LEMMA WrongsStep ==
  ASSUME IInv, Next, at \notin OffSteps
  PROVE  seen' \cap {"nowhere", "mixed"} = seen \cap {"nowhere", "mixed"}
<1>1. vbavail => Reachable
  BY DEF IInv, AddressIsGood, OffSteps
<1>2. CASE MouseEvent \/ Pointer
  <2>1. PICK req \in Requests : Ask(req)
    BY <1>2, PointerRequests
  <2> QED
    BY <1>1, <2>1, AskTraces
<1>3. CASE Reset
  <2>1. Ask(Req("SetMouse", TRUE))
    BY <1>3 DEF Reset
  <2> QED
    BY <1>1, <2>1, AskTraces
<1>4. CASE SendReport \/ ReportFails
  <2>1. at = "sendReport"
    BY <1>4 DEF SendReport, ReportFails, Goes, Returns
  <2>2. Reachable /\ buf = Req("Report", FALSE)
    BY <2>1 DEF IInv, Steps
  <2> QED
    BY <1>4, <2>2 DEF SendReport, ReportFails, Send, Wrongs
<1>5. CASE On
  BY <1>5 DEF On
<1>6. CASE SendMouse
  BY <1>6 DEF SendMouse, Goes, OffSteps
<1>7. CASE \/ Install \/ Integ("on") \/ Integ("off") \/ Uninstall
           \/ Device \/ Descriptor \/ Lock \/ LockFails \/ Report \/ Enable
           \/ Hook \/ Off \/ SetMouse \/ Unlock \/ Clear \/ Disable \/ Leaves
  BY <1>7
  DEF Install, Integ, Uninstall, Device, Descriptor, Lock, LockFails, Report,
      Enable, Hook, Off, SetMouse, Unlock, Clear, Disable, Leaves, Quiet,
      Callback, Vector, FreeMemory
<1> QED
  BY <1>2, <1>3, <1>4, <1>5, <1>6, <1>7 DEF Next, Enables, Disables

\* Switching integration on is safe whatever the mouse does, and so is all that
\* the resident part does by itself.
THEOREM WrongOnlyWhileDisabling == Spec => OnlyWhileDisabling
<1>1. IInv /\ [Next]_vars =>
        [seen' \cap {"nowhere", "mixed"} # seen \cap {"nowhere", "mixed"}
           => at \in OffSteps]_vars
  BY WrongsStep
<1> QED
  BY <1>1, AlwaysIInv, PTL DEF Spec, OnlyWhileDisabling

-----------------------------------------------------------------------------
(* VMware                                                                  *)
(*                                                                         *)
(* The queue is a sequence of whole movements whenever the interrupt may   *)
(* read it (Framed), and while VBMOUSE.EXE empties it the interrupt does   *)
(* not, because the flag is clear (Alone).  So each side can trust the     *)
(* amount of data that it has asked for.                                   *)

\* A queue that holds n whole movements
Holds(queue, n) ==
  /\ Len(queue) = 4 * n
  /\ \A k \in 0 .. n - 1 : /\ queue[4 * k + 1] = 1
                           /\ queue[4 * k + 2] = 2
                           /\ queue[4 * k + 3] = 3
                           /\ queue[4 * k + 4] = 4

Whole(queue) == \E n \in Nat : Holds(queue, n)

\* The mouse interrupt does not read the queue while VBMOUSE.EXE does, and
\* there is as much in it as VBMOUSE.EXE has found.
Alone ==
  /\ step \in {"enable", "look", "drop", "grant"} => ~vmwavail
  /\ step \in {"look", "drop", "grant"} => backdoor.on
  /\ step = "forgo" => ~backdoor.on
  /\ step = "drop" => found <= Len(backdoor.queue)

Open == backdoor.on /\ step \in {"rest", "grant"}

Framed == Open => Whole(backdoor.queue)

Current == Open /\ behind = {} => Len(backdoor.queue) <= 4 * signals

VmIInv ==
  /\ VmTypeOK
  /\ ~Woken => /\ Alone /\ Framed /\ Current
               /\ ~spoilt
               /\ HostIsAwake

-----------------------------------------------------------------------------
(* Queues *)

LEMMA EmptyIsWhole == Whole(<<>>) /\ Len(<<>>) = 0 /\ <<>> \in Seq(0 .. 4)
BY DEF Whole, Holds

\* A movement more
LEMMA Enqueued ==
  ASSUME NEW queue \in Seq(0 .. 4)
  PROVE  /\ queue \o Movement \in Seq(0 .. 4)
         /\ Len(queue \o Movement) = Len(queue) + 4
         /\ Whole(queue) => Whole(queue \o Movement)
<1>1. Movement \in Seq(0 .. 4) /\ Len(Movement) = 4
  BY DEF Movement
<1>2. Movement[1] = 1 /\ Movement[2] = 2 /\ Movement[3] = 3 /\ Movement[4] = 4
  BY DEF Movement
<1> DEFINE more == queue \o Movement
<1>3. /\ more \in Seq(0 .. 4)
      /\ Len(more) = Len(queue) + 4
      /\ \A i \in 1 .. Len(queue) + 4 :
           more[i] = IF i <= Len(queue) THEN queue[i] ELSE Movement[i - Len(queue)]
  <2>1. /\ more \in Seq(0 .. 4)
        /\ Len(more) = Len(queue) + Len(Movement)
        /\ \A i \in 1 .. Len(queue) + Len(Movement) :
             more[i] = IF i <= Len(queue) THEN queue[i]
                                          ELSE Movement[i - Len(queue)]
    BY <1>1, ConcatProperties, Zenon
  <2> QED
    BY <1>1, <2>1
<1> HIDE DEF more
<1>4. ASSUME NEW n \in Nat, Holds(queue, n)
      PROVE  Holds(more, n + 1)
  <2>1. Len(queue) = 4 * n
    BY <1>4 DEF Holds
  <2>2. Len(more) = 4 * (n + 1)
    BY <2>1, <1>3
  <2>3. ASSUME NEW k \in 0 .. n
        PROVE  /\ more[4 * k + 1] = 1 /\ more[4 * k + 2] = 2
               /\ more[4 * k + 3] = 3 /\ more[4 * k + 4] = 4
    <3>1. CASE k = n
      BY <3>1, <2>1, <1>2, <1>3
    <3>2. CASE k # n
      <4>1. k \in 0 .. n - 1 /\ 4 * k + 4 <= 4 * n
        BY <3>2
      <4>2. /\ queue[4 * k + 1] = 1 /\ queue[4 * k + 2] = 2
            /\ queue[4 * k + 3] = 3 /\ queue[4 * k + 4] = 4
        BY <4>1, <1>4 DEF Holds
      <4> QED
        BY <4>1, <4>2, <2>1, <1>3
    <3> QED
      BY <3>1, <3>2
  <2> QED
    BY <2>2, <2>3 DEF Holds
<1>5. Whole(queue) => Whole(more)
  <2>1. \A n \in Nat : n + 1 \in Nat
    OBVIOUS
  <2> QED
    BY <1>4, <2>1 DEF Whole
<1> QED
  BY <1>3, <1>5 DEF more

\* Words taken from the front, whatever they are
LEMMA Shortened ==
  ASSUME NEW queue \in Seq(0 .. 4), NEW n \in Nat, n <= Len(queue)
  PROVE  /\ SubSeq(queue, n + 1, Len(queue)) \in Seq(0 .. 4)
         /\ Len(SubSeq(queue, n + 1, Len(queue))) = Len(queue) - n
         /\ \A i \in 1 .. Len(queue) - n :
              SubSeq(queue, n + 1, Len(queue))[i] = queue[i + n]
<1>1. Len(queue) \in Nat /\ n + 1 \in Int /\ Len(queue) \in Int
  OBVIOUS
<1>2. \A i \in n + 1 .. Len(queue) : queue[i] \in 0 .. 4
  OBVIOUS
<1>3. /\ SubSeq(queue, n + 1, Len(queue)) \in Seq(0 .. 4)
      /\ Len(SubSeq(queue, n + 1, Len(queue))) =
           IF n + 1 <= Len(queue) THEN Len(queue) - (n + 1) + 1 ELSE 0
      /\ \A i \in 1 .. Len(queue) - (n + 1) + 1 :
           SubSeq(queue, n + 1, Len(queue))[i] = queue[(n + 1) + i - 1]
  BY <1>1, <1>2, SubSeqProperties
<1> QED
  BY <1>1, <1>3

\* The first four words
LEMMA Beginning ==
  ASSUME NEW queue \in Seq(0 .. 4), Len(queue) >= 4
  PROVE  /\ SubSeq(queue, 1, 4) \in Seq(0 .. 4)
         /\ Len(SubSeq(queue, 1, 4)) = 4
         /\ \A i \in 1 .. 4 : SubSeq(queue, 1, 4)[i] = queue[i]
<1>1. \A i \in 1 .. 4 : queue[i] \in 0 .. 4
  OBVIOUS
<1>2. /\ SubSeq(queue, 1, 4) \in Seq(0 .. 4)
      /\ Len(SubSeq(queue, 1, 4)) = IF 1 <= 4 THEN 4 - 1 + 1 ELSE 0
      /\ \A i \in 1 .. 4 - 1 + 1 : SubSeq(queue, 1, 4)[i] = queue[1 + i - 1]
  BY <1>1, SubSeqProperties
<1> QED
  BY <1>2

\* The first four words of a whole queue are a movement, and whole movements
\* are behind them.
LEMMA Dequeued ==
  ASSUME NEW queue \in Seq(0 .. 4), Whole(queue), Len(queue) >= 4
  PROVE  /\ IsPrefix(Movement, queue)
         /\ Whole(SubSeq(queue, 5, Len(queue)))
<1>1. PICK n \in Nat : Holds(queue, n)
  BY DEF Whole
<1>2. Len(queue) = 4 * n /\ n - 1 \in Nat
  BY <1>1 DEF Holds
<1>3. queue[1] = 1 /\ queue[2] = 2 /\ queue[3] = 3 /\ queue[4] = 4
  <2>1. 0 \in 0 .. n - 1
    BY <1>2
  <2> QED
    BY <1>1, <2>1 DEF Holds
<1>4. IsPrefix(Movement, queue)
  <2>1. /\ Movement \in Seq(0 .. 4) /\ Len(Movement) = 4
        /\ Movement[1] = 1 /\ Movement[2] = 2
        /\ Movement[3] = 3 /\ Movement[4] = 4
    BY DEF Movement
  <2>2. /\ SubSeq(Movement, 1, 4) \in Seq(0 .. 4)
        /\ Len(SubSeq(Movement, 1, 4)) = 4
        /\ \A i \in 1 .. 4 : SubSeq(Movement, 1, 4)[i] = Movement[i]
    BY <2>1, Beginning
  <2>3. /\ SubSeq(queue, 1, 4) \in Seq(0 .. 4)
        /\ Len(SubSeq(queue, 1, 4)) = 4
        /\ \A i \in 1 .. 4 : SubSeq(queue, 1, 4)[i] = queue[i]
    BY Beginning
  <2>4. \A i \in 1 .. 4 : SubSeq(Movement, 1, 4)[i] = SubSeq(queue, 1, 4)[i]
    BY <1>3, <2>1, <2>2, <2>3
  <2>5. SubSeq(Movement, 1, 4) = SubSeq(queue, 1, 4)
    BY <2>2, <2>3, <2>4, SeqEqual
  <2> QED
    BY <2>1, <2>5 DEF IsPrefix
<1> DEFINE rest == SubSeq(queue, 5, Len(queue))
<1>5. /\ Len(rest) = 4 * (n - 1)
      /\ \A i \in 1 .. Len(queue) - 4 : rest[i] = queue[i + 4]
  BY <1>2, Shortened, 4 \in Nat, 4 + 1 = 5
<1> HIDE DEF rest
<1>6. Holds(rest, n - 1)
  <2>1. ASSUME NEW k \in 0 .. n - 2
        PROVE  /\ rest[4 * k + 1] = 1 /\ rest[4 * k + 2] = 2
               /\ rest[4 * k + 3] = 3 /\ rest[4 * k + 4] = 4
    <3>1. k + 1 \in 0 .. n - 1
      BY <1>2
    <3>2. /\ queue[4 * (k + 1) + 1] = 1 /\ queue[4 * (k + 1) + 2] = 2
          /\ queue[4 * (k + 1) + 3] = 3 /\ queue[4 * (k + 1) + 4] = 4
      BY <1>1, <3>1 DEF Holds
    <3>3. /\ 4 * k + 1 \in 1 .. Len(queue) - 4 /\ 4 * k + 2 \in 1 .. Len(queue) - 4
          /\ 4 * k + 3 \in 1 .. Len(queue) - 4 /\ 4 * k + 4 \in 1 .. Len(queue) - 4
      BY <1>2, <3>1
    <3> QED
      BY <1>5, <3>2, <3>3, <1>2
  <2> QED
    BY <1>2, <1>5, <2>1 DEF Holds
<1> QED
  BY <1>2, <1>4, <1>6 DEF Whole, rest

\* A whole queue that has no room for a packet to be read is empty.
LEMMA WholeOrNothing ==
  ASSUME NEW queue, Whole(queue), ~(Len(queue) >= 4)
  PROVE  Len(queue) = 0
BY DEF Whole, Holds

\* What is left of a queue is a queue, even if more was asked for than is there.
LEMMA RestIsQueue ==
  ASSUME NEW queue \in Seq(0 .. 4), NEW n \in Nat
  PROVE  SubSeq(queue, n + 1, Len(queue)) \in Seq(0 .. 4)
<1>1. Len(queue) \in Int /\ n + 1 \in Int
  OBVIOUS
<1>2. \A i \in n + 1 .. Len(queue) : queue[i] \in 0 .. 4
  OBVIOUS
<1> QED
  BY <1>1, <1>2, SubSeqProperties

-----------------------------------------------------------------------------
(* Types *)

LEMMA AvailableIsNat == VmTypeOK => Available \in Nat
BY DEF VmTypeOK, Available

LEMMA VmTypeStep ==
  ASSUME VmTypeOK, Works
  PROVE  VmTypeOK'
<1> USE VmwareMouseAssumption
<1>0. backdoor.queue \in Seq(0 .. 4) /\ backdoor.on \in BOOLEAN
  BY DEF VmTypeOK
<1>1. \A on \in BOOLEAN, queue \in Seq(0 .. 4) :
        [on |-> on, queue |-> queue] \in [on : BOOLEAN, queue : Seq(0 .. 4)]
  OBVIOUS
<1>2. \A queue \in Seq(0 .. 4) :
        [backdoor EXCEPT !.queue = queue] = [on |-> backdoor.on, queue |-> queue]
  BY DEF VmTypeOK
<1>3. \A queue \in Kept : queue \in Seq(0 .. 4)
  BY <1>0, EmptyIsWhole DEF Kept
<1>4. \A n \in Nat : Rest(n) \in Seq(0 .. 4)
  BY <1>0, RestIsQueue DEF Rest
<1>5. CASE HostMoves
  <2>1. /\ vmwavail' \in BOOLEAN /\ found' \in Nat /\ kept' \subseteq BOOLEAN
        /\ restored' \in BOOLEAN /\ spoilt' \in BOOLEAN
        /\ step' \in {"rest", "enable", "look", "drop", "grant", "forgo"}
        /\ signals' \in 0 .. MaxSignals
        /\ behind' \subseteq {"lost", "off", "enabling"}
    BY <1>5 DEF HostMoves, VmTypeOK
  <2>2. backdoor' \in [on : BOOLEAN, queue : Seq(0 .. 4)]
    <3>1. CASE backdoor.on
      <4>1. backdoor.queue \o Movement \in Seq(0 .. 4)
        BY <1>0, Enqueued
      <4>2. backdoor' = [backdoor EXCEPT !.queue = backdoor.queue \o Movement]
        BY <1>5, <3>1 DEF HostMoves
      <4> QED
        BY <4>1, <4>2, <1>0, <1>1, <1>2
    <3>2. CASE ~backdoor.on
      BY <1>5, <3>2 DEF HostMoves, VmTypeOK
    <3> QED
      BY <3>1, <3>2
  <2> QED
    BY <2>1, <2>2 DEF VmTypeOK
<1>6. CASE LosePacket
  BY <1>6 DEF LosePacket, VmTypeOK
<1>7. CASE Packet
  <2>1. backdoor' \in [on : BOOLEAN, queue : Seq(0 .. 4)]
    <3>1. CASE Enough
      <4>1. backdoor' = [backdoor EXCEPT !.queue = Rest(4)]
        BY <1>7, <3>1 DEF Packet, SIZE
      <4>2. Rest(4) \in Seq(0 .. 4)
        BY <1>4
      <4>3. backdoor' = [on |-> backdoor.on, queue |-> Rest(4)]
        BY <4>1, <4>2, <1>2
      <4> QED
        BY <4>2, <4>3, <1>0, <1>1
    <3>2. CASE ~Enough
      BY <1>7, <3>2 DEF Packet, VmTypeOK
    <3> QED
      BY <3>1, <3>2
  <2>2. spoilt' \in BOOLEAN
    BY <1>7 DEF Packet, VmTypeOK
  <2> QED
    BY <1>7, <2>1, <2>2 DEF Packet, VmTypeOK
<1>8. CASE PlainMotion
  BY <1>8 DEF PlainMotion, VmTypeOK
<1>9. CASE ResetHardware
  <2>1. backdoor' \in [on : BOOLEAN, queue : Seq(0 .. 4)]
    BY <1>9, <1>1, <1>3, EmptyIsWhole DEF ResetHardware, VmTypeOK
  <2>2. signals' \in 0 .. MaxSignals
    BY <1>9 DEF ResetHardware
  <2>3. behind' \subseteq {"lost", "off", "enabling"}
    BY <1>9 DEF ResetHardware, VmTypeOK
  <2> QED
    BY <1>9, <2>1, <2>2, <2>3 DEF ResetHardware, VmTypeOK
<1>10. CASE SaveStatus \/ LoadStatus
  BY <1>10 DEF SaveStatus, LoadStatus, VmTypeOK
<1>11. CASE IntegOn \/ Grant \/ Forgo
  BY <1>11 DEF IntegOn, Grant, Forgo, Proceeds, VmTypeOK
<1>12. CASE EnableBackdoor
  <2>1. Append(backdoor.queue, VERSION) \in Seq(0 .. 4)
    BY <1>0 DEF VERSION
  <2>2. backdoor' \in [on : BOOLEAN, queue : Seq(0 .. 4)]
    BY <1>12, <2>1, <1>1 DEF EnableBackdoor
  <2> QED
    BY <1>12, <2>2 DEF EnableBackdoor, Proceeds, VmTypeOK
<1>13. CASE EnableRefused
  <2>1. backdoor' \in [on : BOOLEAN, queue : Seq(0 .. 4)]
    BY <1>13, <1>1, <1>3 DEF EnableRefused
  <2> QED
    BY <1>13, <2>1 DEF EnableRefused, Proceeds, VmTypeOK
<1>14. CASE Look
  BY <1>14, AvailableIsNat DEF Look, Proceeds, VmTypeOK
<1>15. CASE Drop
  <2>1. backdoor' \in [on : BOOLEAN, queue : Seq(0 .. 4)]
    BY <1>15, <1>0, <1>1, <1>2, <1>4 DEF Drop, SIZE, VmTypeOK
  <2>2. spoilt' \in BOOLEAN
    BY <1>15 DEF Drop, VmTypeOK
  <2> QED
    BY <1>15, <2>1, <2>2 DEF Drop, Proceeds, VmTypeOK
<1>16. CASE IntegOff
  <2>1. backdoor' \in [on : BOOLEAN, queue : Seq(0 .. 4)]
    BY <1>16, <1>1, <1>3 DEF IntegOff
  <2> QED
    BY <1>16, <2>1 DEF IntegOff, Proceeds, VmTypeOK
<1> QED
  BY <1>5, <1>6, <1>7, <1>8, <1>9, <1>10, <1>11, <1>12, <1>13, <1>14, <1>15,
     <1>16 DEF Works, Switches

-----------------------------------------------------------------------------
(* The invariant, when no program calls int 33h in the middle of VBMOUSE.EXE *)

QueueParts == Alone /\ Framed /\ Current /\ ~spoilt /\ HostIsAwake

LEMMA QueueFacts ==
  VmTypeOK => /\ backdoor.queue \in Seq(0 .. 4)
              /\ backdoor.on \in BOOLEAN
              /\ Len(backdoor.queue) \in Nat
              /\ signals \in Nat
              /\ found \in Nat
<1>1. VmTypeOK => backdoor.queue \in Seq(0 .. 4) /\ backdoor.on \in BOOLEAN
  BY DEF VmTypeOK
<1>2. VmTypeOK => signals \in Nat /\ found \in Nat
  BY VmwareMouseAssumption DEF VmTypeOK
<1> QED
  BY <1>1, <1>2

\* What the queue and the flag in the host are after a step that sets one of them
LEMMA QueueSet ==
  ASSUME VmTypeOK, NEW queue
  PROVE  /\ [backdoor EXCEPT !.queue = queue].queue = queue
         /\ [backdoor EXCEPT !.queue = queue].on = backdoor.on
BY DEF VmTypeOK

LEMMA HostMovesKeeps ==
  ASSUME VmTypeOK, QueueParts, HostMoves
  PROVE  QueueParts'
<1>1. CASE backdoor.on
  <2>1. backdoor' = [backdoor EXCEPT !.queue = backdoor.queue \o Movement]
    BY <1>1 DEF HostMoves
  <2>2. backdoor'.queue = backdoor.queue \o Movement /\ backdoor'.on
    BY <1>1, <2>1, QueueSet
  <2>3. /\ Len(backdoor'.queue) = Len(backdoor.queue) + 4
        /\ Whole(backdoor.queue) => Whole(backdoor'.queue)
    BY <2>2, QueueFacts, Enqueued
  <2>4. Alone' /\ HostIsAwake' /\ ~spoilt'
    BY <2>2, <2>3, QueueFacts DEF HostMoves, QueueParts, Alone, HostIsAwake
  <2>5. Framed'
    BY <1>1, <2>2, <2>3 DEF HostMoves, QueueParts, Framed, Open
  <2>6. Current'
    <3>1. CASE signals' = signals + 1 /\ UNCHANGED behind
      BY <1>1, <2>3, <3>1, QueueFacts DEF HostMoves, QueueParts, Current, Open
    <3>2. CASE behind' = behind \cup {"lost"}
      BY <3>2 DEF Current
    <3> QED
      BY <3>1, <3>2 DEF HostMoves
  <2> QED
    BY <2>4, <2>5, <2>6 DEF QueueParts
<1>2. CASE ~backdoor.on
  BY <1>2, QueueFacts DEF HostMoves, QueueParts, Alone, Framed, Current, Open, HostIsAwake
<1> QED
  BY <1>1, <1>2

LEMMA SignalsLeave ==
  ASSUME VmTypeOK, QueueParts, LosePacket \/ PlainMotion
  PROVE  QueueParts'
<1>1. /\ UNCHANGED <<vmwavail, backdoor, step, found, kept, restored, spoilt>>
      /\ backdoor.queue = <<>> \/ behind' # {}
      /\ behind' = {} => behind = {}
      /\ signals' = signals - 1 /\ signals > 0
  BY DEF LosePacket, PlainMotion
<1>2. Current'
  <2>1. CASE backdoor.queue = <<>>
    BY <1>1, <2>1, QueueFacts DEF Current, Open
  <2>2. CASE behind' # {}
    BY <2>2 DEF Current
  <2> QED
    BY <1>1, <2>1, <2>2
<1> QED
  BY <1>1, <1>2 DEF QueueParts, Alone, Framed, Open, HostIsAwake

LEMMA PacketKeeps ==
  ASSUME ~Woken, VmTypeOK, QueueParts, Packet
  PROVE  QueueParts'
<1>1. vmwavail /\ (backdoor.on => step = "rest")
  BY DEF Packet, QueueParts, Alone, VmTypeOK
<1>2. CASE Enough
  <2>1. backdoor.on /\ Len(backdoor.queue) >= 4
    BY <1>2, QueueFacts DEF Enough, Available, SIZE
  <2>2. step = "rest" /\ Whole(backdoor.queue)
    BY <1>1, <2>1 DEF QueueParts, Framed, Open
  <2>3. /\ backdoor' = [backdoor EXCEPT !.queue = Rest(4)]
        /\ spoilt' = (spoilt \/ ~IsPrefix(Movement, backdoor.queue))
        /\ UNCHANGED <<vmwavail, step, found, kept, behind, restored>>
        /\ signals' = signals - 1 /\ signals > 0
    BY <1>2 DEF Packet, SIZE
  <2>4. backdoor'.queue = Rest(4) /\ backdoor'.on
    BY <2>1, <2>3, QueueSet
  <2>5. IsPrefix(Movement, backdoor.queue) /\ Whole(Rest(4))
    BY <2>1, <2>2, QueueFacts, Dequeued DEF Rest
  <2>6. Len(Rest(4)) = Len(backdoor.queue) - 4
    BY <2>1, QueueFacts, Shortened DEF Rest
  <2>7. Alone' /\ Framed' /\ HostIsAwake'
    BY <2>5, <2>4, <2>3, <2>2 DEF QueueParts, Alone, Framed, Open, HostIsAwake
  <2>8. ~spoilt'
    BY <2>3, <2>5 DEF QueueParts
  <2>9. Current'
    BY QueueFacts, <2>6, <2>4, <2>3, <2>2, <2>1 DEF QueueParts, Current, Open
  <2> QED
    BY <2>7, <2>8, <2>9 DEF QueueParts
<1>3. CASE ~Enough
  <2>1. /\ UNCHANGED <<backdoor, spoilt, vmwavail, step, found, kept, behind, restored>>
        /\ signals' = signals - 1 /\ signals > 0
    BY <1>3 DEF Packet
  <2>2. Open => Len(backdoor.queue) = 0
    BY <1>3, QueueFacts, WholeOrNothing
    DEF Open, QueueParts, Framed, Enough, Available, SIZE
  <2>3. Current'
    BY <2>1, <2>2, QueueFacts DEF Current, Open
  <2> QED
    BY <2>1, <2>3 DEF QueueParts, Alone, Framed, Open, HostIsAwake
<1> QED
  BY <1>2, <1>3

LEMMA ResetKeeps ==
  ASSUME ~Woken, VmTypeOK, QueueParts, ResetHardware
  PROVE  QueueParts'
<1>1. /\ step = "rest" /\ step' = "rest" /\ signals' = 0
      /\ vmwavail' = vmwavail /\ spoilt' = spoilt /\ found' = found
  BY DEF ResetHardware, Calls
<1>2. backdoor'.on = vmwavail
  BY DEF ResetHardware
<1>3. vmwavail => backdoor'.queue = <<>>
  BY DEF ResetHardware
<1>4. vmwavail \in BOOLEAN
  BY DEF VmTypeOK
<1>5. CASE vmwavail
  BY <1>1, <1>2, <1>3, <1>5, EmptyIsWhole
  DEF QueueParts, Alone, Framed, Current, Open, HostIsAwake
<1>6. CASE ~vmwavail
  BY <1>1, <1>2, <1>6, <1>4 DEF QueueParts, Alone, Framed, Current, Open, HostIsAwake
<1> QED
  BY <1>5, <1>6

LEMMA SavedStateKeeps ==
  ASSUME ~Woken, VmTypeOK, QueueParts, SaveStatus \/ LoadStatus
  PROVE  QueueParts'
BY DEF SaveStatus, LoadStatus, Calls, QueueParts, Alone, Framed, Current, Open, HostIsAwake

LEMMA SwitchesKeep ==
  ASSUME ~Woken, VmTypeOK, QueueParts, Switches
  PROVE  QueueParts'
<1>1. CASE IntegOn
  BY <1>1 DEF IntegOn, Proceeds, QueueParts, Alone, Framed, Current, Open, HostIsAwake
<1>2. CASE EnableBackdoor
  BY <1>2 DEF EnableBackdoor, Proceeds, QueueParts, Alone, Framed, Current, Open, HostIsAwake
<1>3. CASE EnableRefused \/ IntegOff
  <2>1. ~backdoor'.on /\ UNCHANGED <<vmwavail, found, behind, spoilt, restored>>
    BY <1>3 DEF EnableRefused, IntegOff, Proceeds
  <2>2. step' \in {"rest", "forgo"} /\ (step' = "rest" => ~vmwavail)
    BY <1>3 DEF EnableRefused, IntegOff, Proceeds, QueueParts, Alone
  <2> QED
    BY <2>1, <2>2 DEF QueueParts, Alone, Framed, Current, Open, HostIsAwake
<1>4. CASE Look
  <2>1. /\ step = "look" /\ backdoor.on /\ ~vmwavail
        /\ UNCHANGED <<vmwavail, backdoor, spoilt, signals, restored>>
        /\ found' = Len(backdoor.queue)
        /\ step' = IF Len(backdoor.queue) = 0 THEN "grant" ELSE "drop"
    BY <1>4 DEF Look, Proceeds, QueueParts, Alone, Available
  <2>2. step' = "grant" => backdoor.queue = <<>>
    BY <2>1, QueueFacts, EmptySeq
  <2> QED
    BY <2>1, <2>2, EmptyIsWhole, QueueFacts
    DEF QueueParts, Alone, Framed, Current, Open, HostIsAwake
<1>5. CASE Drop
  <2> DEFINE n == IF found < 4 THEN found ELSE 4
  <2>1. /\ step = "drop" /\ step' = "look" /\ backdoor.on /\ ~vmwavail
        /\ UNCHANGED <<vmwavail, found, behind, signals, restored>>
        /\ found <= Len(backdoor.queue)
    BY <1>5 DEF Drop, Proceeds, QueueParts, Alone
  <2>2. backdoor' = [backdoor EXCEPT !.queue = Rest(n)]
    BY <1>5 DEF Drop, SIZE
  <2>3. spoilt' = (spoilt \/ n > Len(backdoor.queue))
    BY <1>5, <2>1 DEF Drop, SIZE, Available
  <2>4. ~(n > Len(backdoor.queue))
    BY <2>1, QueueFacts
  <2> HIDE DEF n
  <2>5. backdoor'.on
    BY <2>1, <2>2, QueueSet
  <2> QED
    BY <2>1, <2>3, <2>4, <2>5 DEF QueueParts, Alone, Framed, Current, Open, HostIsAwake
<1>6. CASE Grant
  BY <1>6 DEF Grant, Proceeds, QueueParts, Alone, Framed, Current, Open, HostIsAwake
<1>7. CASE Forgo
  BY <1>7 DEF Forgo, Proceeds, QueueParts, Alone, Framed, Current, Open, HostIsAwake
<1> QED
  BY <1>1, <1>2, <1>3, <1>4, <1>5, <1>6, <1>7 DEF Switches

LEMMA VmAlwaysIInv == Backdoor => []VmIInv
<1>1. Installed => VmIInv
  <2>1. Installed => VmTypeOK
    <3> SUFFICES ASSUME Installed PROVE VmTypeOK
      OBVIOUS
    <3>1. backdoor = [on |-> vmwavail, queue |-> <<>>] /\ vmwavail \in BOOLEAN
      BY DEF Installed
    <3>2. backdoor \in [on : BOOLEAN, queue : Seq(0 .. 4)]
      BY <3>1, EmptyIsWhole
    <3>3. 0 \in 0 .. MaxSignals
      BY VmwareMouseAssumption
    <3> QED
      BY <3>2, <3>3 DEF Installed, VmTypeOK
  <2>2. Installed => QueueParts
    BY EmptyIsWhole
    DEF Installed, QueueParts, Alone, Framed, Current, Open, HostIsAwake
  <2> QED
    BY <2>1, <2>2 DEF VmIInv, QueueParts
<1>2. VmIInv /\ UNCHANGED vmvars => VmIInv'
  BY DEF vmvars, VmIInv, VmTypeOK, Alone, Framed, Current, Open, HostIsAwake
<1>3. VmIInv /\ Works => VmIInv'
  <2>1. VmIInv /\ Works => VmTypeOK'
    BY VmTypeStep DEF VmIInv
  <2>2. ASSUME ~Woken, VmTypeOK, QueueParts, Works PROVE QueueParts'
    BY <2>2, HostMovesKeeps, SignalsLeave, PacketKeeps, ResetKeeps,
       SavedStateKeeps, SwitchesKeep DEF Works
  <2> QED
    BY <2>1, <2>2 DEF VmIInv, QueueParts
<1> QED
  BY <1>1, <1>2, <1>3, PTL DEF Backdoor

-----------------------------------------------------------------------------
(* Theorems *)

\* The variables stay in their sets.
THEOREM VmTypeCorrect == Backdoor => []VmTypeOK
<1>1. VmIInv => VmTypeOK
  BY DEF VmIInv
<1> QED
  BY <1>1, VmAlwaysIInv, PTL

\* Neither the mouse interrupt nor VBMOUSE.EXE reads more than the host has, or
\* takes for a movement what is none, however their steps are mixed.
THEOREM MovementsStayWhole == Backdoor => []MovementsAreWhole
<1>1. VmIInv => MovementsAreWhole
  BY DEF VmIInv, MovementsAreWhole
<1> QED
  BY <1>1, VmAlwaysIInv, PTL

\* The queue holds no more than the packets under way will fetch.
THEOREM PointerStaysCurrent == Backdoor => []PointerIsCurrent
<1>1. VmIInv => PointerIsCurrent
  <2> SUFFICES ASSUME VmIInv, ~Woken, vmwavail, behind = {}
               PROVE  Available <= SIZE * signals
    BY DEF PointerIsCurrent
  <2>1. VmTypeOK /\ Alone /\ Current
    BY DEF VmIInv
  <2>2. backdoor.on => Open
    BY <2>1 DEF Alone, Open, VmTypeOK
  <2> QED
    BY <2>1, <2>2, QueueFacts DEF Current, Available, SIZE
<1> QED
  BY <1>1, VmAlwaysIInv, PTL

\* The flag of the driver is right about the host, unless a saved state was
\* loaded since the last reset.
THEOREM HostStaysAwake == Backdoor => []HostIsAwake
<1>1. VmIInv => HostIsAwake
  BY DEF VmIInv, HostIsAwake
<1> QED
  BY <1>1, VmAlwaysIInv, PTL
=============================================================================
