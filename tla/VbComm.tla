------------------------------- MODULE VbComm -------------------------------
(***************************************************************************)
(* How VBMOUSE talks to the VirtualBox device: one request buffer, whose   *)
(* physical address the Virtual DMA Service (VDS) gives when it locks the  *)
(* buffer, used by the mouse interrupt and the int 33h functions in the    *)
(* resident part and by VBMOUSE.EXE, which reaches into it to switch the   *)
(* integration on or off (vbox.h, vbox.c, int4Bvds.h, mousmain.c).         *)
(*                                                                         *)
(* An interrupt and an int 33h function run with interrupts off and are    *)
(* one step.  VBMOUSE.EXE runs with interrupts on, and takes one step for  *)
(* each thing it does to the buffer, its descriptor or the flags.  Of a    *)
(* request, its type and its one flag are kept; of the host, whether the   *)
(* guest told it that it takes absolute positions.                         *)
(***************************************************************************)
EXTENDS Naturals

CONSTANTS
  HasVDS,    \* vds_available(): a memory manager has remapped memory
  Popups,    \* int 33h is also called while VBMOUSE.EXE runs, by a program
             \* that some interrupt wakes
  MaxLocks   \* bound: locks on the buffer

ASSUME VbCommAssumption ==
  HasVDS \in BOOLEAN /\ Popups \in BOOLEAN /\ MaxLocks \in Nat \ {0}

VARIABLES
  vbavail,   \* the flag that tells the resident part to use the buffer
  dds,       \* the descriptor: it has the physical address; vb->vds
  buf,       \* the request in the buffer
  locks,     \* how often VDS was asked to lock the buffer, less unlocks
  absolute,  \* what the host was told last of VMMDEV_MOUSE_GUEST_CAN_ABSOLUTE
  ps2,       \* the BIOS: reports of the mouse are on; they are for VBMOUSE
  stage,     \* "gone", "loaded" or, with int 33h hooked, "resident"
  task,      \* what VBMOUSE.EXE was started for, or "none"
  at,        \* the step it is at, or "idle"
  seen       \* history: what went wrong

vars == <<vbavail, dds, buf, locks, absolute, ps2, stage, task, at, seen>>

Types == {"Report", "SetMouse", "GetMouse", "SetPointer"}
Requests == [type : Types, flag : BOOLEAN]

Empty == [known |-> FALSE, vds |-> FALSE]

OnSteps ==
  {"on", "device", "descriptor", "lock", "report", "sendReport", "enable"}
OffSteps == {"off", "setMouse", "sendMouse", "unlock", "clear", "disable"}
ExitSteps == {"quiet", "callback", "vector", "free"}

TypeOK ==
  /\ vbavail \in BOOLEAN
  /\ dds \in [known : BOOLEAN, vds : BOOLEAN]
  /\ buf \in Requests
  /\ locks \in 0 .. MaxLocks
  /\ absolute \in BOOLEAN
  /\ ps2 \in [on : BOOLEAN, callback : BOOLEAN]
  /\ stage \in {"gone", "loaded", "resident"}
  /\ task \in {"none", "install", "integ", "uninstall"}
  /\ at \in {"idle", "hook"} \cup OnSteps \cup OffSteps \cup ExitSteps
  /\ task = "none" <=> at = "idle"
  /\ task = "install" => at \in OnSteps \cup {"hook"}
  /\ task = "integ" => at \in OnSteps \cup OffSteps
  /\ task = "uninstall" => at \in OffSteps \cup ExitSteps
  \* again: enabled although it was; fault: not enabled although locked;
  \* nowhere: a request without an address; mixed: a request that its sender
  \* did not build.
  /\ seen \subseteq {"again", "fault", "nowhere", "mixed"}

Init ==
  /\ vbavail = FALSE /\ dds = Empty /\ locks = 0
  /\ buf \in Requests
  /\ absolute = FALSE
  /\ ps2 = [on |-> FALSE, callback |-> FALSE]
  /\ stage = "gone" /\ task = "none" /\ at = "idle" /\ seen = {}

-----------------------------------------------------------------------------
(* Requests *)

\* The address in the descriptor is that of the buffer, and stays so.
Reachable == dds.known /\ (dds.vds => locks > 0)

\* What is wrong with sending req, as its sender means it, when r is what the
\* buffer holds.
Wrongs(req, r) ==
  (IF Reachable THEN {} ELSE {"nowhere"})
    \cup (IF r = req THEN {} ELSE {"mixed"})

\* vbox_send_request of the buffer with r in it.
Send(req, r) ==
  /\ seen' = seen \cup Wrongs(req, r)
  /\ absolute' = IF Reachable /\ r.type = "SetMouse" THEN r.flag ELSE absolute

\* vbox_init_req and the request's fields, then vbox_send_request, with nothing
\* in between; the resident part makes requests only when vbavail says so.
Ask(req) ==
  IF vbavail
    THEN buf' = req /\ Send(req, req)
    ELSE UNCHANGED <<buf, absolute, seen>>

Req(type, flag) == [type |-> type, flag |-> flag]

-----------------------------------------------------------------------------
(* The resident part *)

\* ps2_mouse_callback: vbox_get_mouse, and perhaps vbox_set_pointer_visible
\* after it.  The last request is the one that stays in the buffer.
MouseEvent ==
  /\ ps2.on /\ ps2.callback
  /\ \/ Ask(Req("GetMouse", FALSE))
     \/ \E visible \in BOOLEAN : Ask(Req("SetPointer", visible))
  /\ UNCHANGED <<vbavail, dds, locks, ps2, stage, task, at>>

MayCall == stage = "resident" /\ (at = "idle" \/ Popups)

\* reset_mouse_hardware: the callback is set again, and absolute positions are
\* asked for.  The requests for the pointer do not matter here: they are
\* before it or do not change what the host was told.
Reset ==
  /\ MayCall
  /\ Ask(Req("SetMouse", TRUE))
  /\ ps2' = [on |-> TRUE, callback |-> TRUE]
  /\ UNCHANGED <<vbavail, dds, locks, stage, task, at>>

\* Other functions make, at most, requests for the pointer.
Pointer ==
  /\ MayCall
  /\ \E visible \in BOOLEAN : Ask(Req("SetPointer", visible))
  /\ UNCHANGED <<vbavail, dds, locks, ps2, stage, task, at>>

-----------------------------------------------------------------------------
(* VBMOUSE.EXE: vbmouse install, integ on, integ off, uninstall *)

Starts(t, step) == at = "idle" /\ task' = t /\ at' = step
Goes(from, to) == at = from /\ at' = to /\ UNCHANGED task
Stops == task' = "none" /\ at' = "idle"

\* set_virtualbox_integration returns.
Returns(from) ==
  /\ at = from
  /\ \/ task = "install" /\ at' = "hook" /\ UNCHANGED task
     \/ task = "uninstall" /\ at' = "quiet" /\ UNCHANGED task
     \/ task = "integ" /\ Stops

\* A new copy of the driver: all its data is zero, and its buffer is another
\* one, which nobody locked.  ps2m_init, before the integration, resets the
\* mouse, which then reports nothing.
Install ==
  /\ stage = "gone" /\ Starts("install", "on")
  /\ stage' = "loaded"
  /\ vbavail' = FALSE /\ dds' = Empty /\ locks' = 0
  /\ ps2' = [ps2 EXCEPT !.on = FALSE]
  /\ UNCHANGED <<buf, absolute, seen>>

Integ(step) ==
  /\ stage = "resident" /\ Starts("integ", step)
  /\ UNCHANGED <<vbavail, dds, buf, locks, absolute, ps2, stage, seen>>

Uninstall ==
  /\ stage = "resident" /\ Starts("uninstall", "off")
  /\ UNCHANGED <<vbavail, dds, buf, locks, absolute, ps2, stage, seen>>

\* Mutant: vbavail is not cleared first.
OnMutant ==
  /\ Goes("on", "device")
  /\ seen' = IF vbavail THEN seen \cup {"again"} ELSE seen
  /\ UNCHANGED <<vbavail, dds, buf, locks, absolute, ps2, stage>>

\* Reinitialize it even if already enabled.
On ==
  /\ Goes("on", "device")
  /\ vbavail' = FALSE
  /\ seen' = IF vbavail THEN seen \cup {"again"} ELSE seen
  /\ UNCHANGED <<dds, buf, locks, absolute, ps2, stage>>

\* vbox_init_device, that finds the device or does not.
Device ==
  /\ Goes("device", "descriptor") \/ Returns("device")
  /\ UNCHANGED <<vbavail, dds, buf, locks, absolute, ps2, stage, seen>>

\* vbox_init_buffer, up to the call of VDS.
Descriptor ==
  /\ Goes("descriptor", "lock")
  /\ dds' = Empty
  /\ UNCHANGED <<vbavail, buf, locks, absolute, ps2, stage, seen>>

\* With VDS the address is the one it gives; else it is the linear address.
Lock ==
  /\ Goes("lock", "report")
  /\ HasVDS => locks < MaxLocks
  /\ dds' = [known |-> TRUE, vds |-> HasVDS]
  /\ locks' = IF HasVDS THEN locks + 1 ELSE locks
  /\ UNCHANGED <<vbavail, buf, absolute, ps2, stage, seen>>

\* Mutant: the error of VDS is not looked at.
LockFailsMutant ==
  /\ Goes("lock", "report") /\ HasVDS
  /\ UNCHANGED <<vbavail, dds, buf, locks, absolute, ps2, stage, seen>>

LockFails ==
  /\ Returns("lock") /\ HasVDS
  /\ UNCHANGED <<vbavail, dds, buf, locks, absolute, ps2, stage, seen>>

\* vbox_report_guest_info, up to sending.
Report ==
  /\ Goes("report", "sendReport")
  /\ buf' = Req("Report", FALSE)
  /\ UNCHANGED <<vbavail, dds, locks, absolute, ps2, stage, seen>>

SendReport ==
  /\ Goes("sendReport", "enable")
  /\ Send(Req("Report", FALSE), buf)
  /\ UNCHANGED <<vbavail, dds, buf, locks, ps2, stage>>

\* The host refuses the report: the buffer stays as it is.
ReportFails ==
  /\ Returns("sendReport")
  /\ seen' = seen \cup Wrongs(Req("Report", FALSE), buf) \cup {"fault"}
  /\ UNCHANGED <<vbavail, dds, buf, locks, absolute, ps2, stage>>

Enable ==
  /\ Returns("enable")
  /\ vbavail' = TRUE
  /\ UNCHANGED <<dds, buf, locks, absolute, ps2, stage, seen>>

\* install_driver: int 33h is hooked, and the program stays.
Hook ==
  /\ at = "hook" /\ Stops
  /\ stage' = "resident"
  /\ UNCHANGED <<vbavail, dds, buf, locks, absolute, ps2, seen>>

\* Mutant: the host is not told.
OffMutant ==
  /\ IF vbavail THEN Goes("off", "unlock") ELSE Returns("off")
  /\ UNCHANGED <<vbavail, dds, buf, locks, absolute, ps2, stage, seen>>

Off ==
  /\ IF vbavail THEN Goes("off", "setMouse") ELSE Returns("off")
  /\ UNCHANGED <<vbavail, dds, buf, locks, absolute, ps2, stage, seen>>

\* vbox_set_mouse(false, false), up to sending.
SetMouse ==
  /\ Goes("setMouse", "sendMouse")
  /\ buf' = Req("SetMouse", FALSE)
  /\ UNCHANGED <<vbavail, dds, locks, absolute, ps2, stage, seen>>

\* Mutant: the buffer is not released.
SendMouseMutant ==
  /\ Goes("sendMouse", "disable")
  /\ Send(Req("SetMouse", FALSE), buf)
  /\ UNCHANGED <<vbavail, dds, buf, locks, ps2, stage>>

\* The result is ignored.
SendMouse ==
  /\ Goes("sendMouse", "unlock")
  /\ Send(Req("SetMouse", FALSE), buf)
  /\ UNCHANGED <<vbavail, dds, buf, locks, ps2, stage>>

\* vbox_release_buffer: VDS unlocks the buffer; an error is ignored.
Unlock ==
  /\ Goes("unlock", "clear")
  /\ locks' = IF dds.vds THEN locks - 1 ELSE locks
  /\ UNCHANGED <<vbavail, dds, buf, absolute, ps2, stage, seen>>

Clear ==
  /\ Goes("clear", "disable")
  /\ dds' = Empty
  /\ UNCHANGED <<vbavail, buf, locks, absolute, ps2, stage, seen>>

Disable ==
  /\ Returns("disable")
  /\ vbavail' = FALSE
  /\ UNCHANGED <<dds, buf, locks, absolute, ps2, stage, seen>>

\* The rest of unconfigure_driver and uninstall_driver.
Quiet ==
  /\ Goes("quiet", "callback")
  /\ ps2' = [ps2 EXCEPT !.on = FALSE]
  /\ UNCHANGED <<vbavail, dds, buf, locks, absolute, stage, seen>>

\* Mutant: the callback stays set.
CallbackMutant ==
  /\ Goes("callback", "vector")
  /\ UNCHANGED <<vbavail, dds, buf, locks, absolute, ps2, stage, seen>>

Callback ==
  /\ Goes("callback", "vector")
  /\ ps2' = [ps2 EXCEPT !.callback = FALSE]
  /\ UNCHANGED <<vbavail, dds, buf, locks, absolute, stage, seen>>

Vector ==
  /\ Goes("vector", "free")
  /\ stage' = "loaded"
  /\ UNCHANGED <<vbavail, dds, buf, locks, absolute, ps2, seen>>

FreeMemory ==
  /\ at = "free" /\ Stops
  /\ stage' = "gone"
  /\ UNCHANGED <<vbavail, dds, buf, locks, absolute, ps2, seen>>

Enables ==
  \/ On \/ Device \/ Descriptor \/ Lock \/ LockFails \/ Report \/ SendReport
  \/ ReportFails \/ Enable \/ Hook

Disables ==
  Off \/ SetMouse \/ SendMouse \/ Unlock \/ Clear \/ Disable

Leaves == Quiet \/ Callback \/ Vector \/ FreeMemory

Next ==
  \/ MouseEvent \/ Reset \/ Pointer
  \/ Install \/ Integ("on") \/ Integ("off") \/ Uninstall
  \/ Enables \/ Disables \/ Leaves

Spec == Init /\ [][Next]_vars

-----------------------------------------------------------------------------
(* Properties *)

\* Whenever the resident part may be woken, the flag vouches for the address:
\* with vbavail set, the descriptor holds the address of a buffer that is
\* locked where it must be.  The exception is the window of `integ off` between
\* releasing the buffer and clearing the flag (mousmain.c:125-128).
AddressIsGood ==
  vbavail /\ at \notin {"clear", "disable"} => Reachable

\* Requests that go nowhere, or that the mouse interrupt replaced in the buffer
\* while VBMOUSE.EXE was making its own, are only ever sent while integration
\* is being switched off.  Switching it on, which clears vbavail first, is
\* safe at every step, also when it was on already (mousmain.c:99).
OnlyWhileDisabling ==
  [][seen' \cap {"nowhere", "mixed"} # seen \cap {"nowhere", "mixed"}
       => at \in OffSteps]_vars

\* When nobody enables integration twice and no report is refused, VDS locks
\* and unlocks are paired: between commands the buffer is locked exactly while
\* it is in use, and memory that goes back to DOS is not locked.
LocksArePaired ==
  at = "idle" /\ seen \cap {"again", "fault"} = {}
    => locks = IF HasVDS /\ vbavail THEN 1 ELSE 0

\* uninstall leaves the BIOS no address in the memory that it gives back,
\* although the mouse moves meanwhile (mousmain.c:339-368).
MemoryIsLive ==
  ~Popups /\ stage = "gone" => ~ps2.callback

\* Without integration the host must not believe that the guest takes absolute
\* positions, or the mouse would stand still: unless a failed second `integ on`
\* or a lost request left it so.
HostIsTold ==
  ~Popups /\ at = "idle" /\ ~vbavail /\ seen \cap {"again", "mixed"} = {}
    => ~absolute

=============================================================================
