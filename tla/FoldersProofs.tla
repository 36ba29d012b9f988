--------------------------- MODULE FoldersProofs ---------------------------
(***************************************************************************)
(* Proofs about VbsfMounts: what holds for any drives, folders, mount      *)
(* points and refused calls.  And about the translations between DOS and   *)
(* the host: HostPaths, for any characters, paths, listings and sizes of   *)
(* the buffer; DosTime, for any years, times of day and zones up to two    *)
(* days away; LongNames, for any names, hashes and directories of any      *)
(* depth.                                                                  *)
(***************************************************************************)
EXTENDS VbsfMounts, HostPaths, DosTime, LongNames, FiniteSetTheorems,
        WellFoundedInduction, TLAPS

-----------------------------------------------------------------------------
(* Counting the drives of a folder *)

\* The drives on which t has r mounted.
DrivesOf(t, r) == {d \in AllDrives : t[d] = r}

LEMMA FewDrives ==
  ASSUME NEW t, NEW r
  PROVE  IsFiniteSet(DrivesOf(t, r)) /\ Cardinality(DrivesOf(t, r)) \in Nat
<1>1. IsFiniteSet(AllDrives)
  BY VbsfMountsAssumption, FS_Interval DEF AllDrives
<1>2. DrivesOf(t, r) \in SUBSET AllDrives
  BY DEF DrivesOf
<1>. QED
  BY <1>1, <1>2, FS_Subset, FS_CardinalityType

\* One drive more.
LEMMA CountMounted ==
  ASSUME NEW t \in [AllDrives -> Roots \cup {NIL}],
         NEW d \in AllDrives, t[d] = NIL, NEW q \in Roots, NEW r \in Roots
  PROVE  Cardinality(DrivesOf([t EXCEPT ![d] = q], r)) =
           Cardinality(DrivesOf(t, r)) + (IF r = q THEN 1 ELSE 0)
<1>1. NIL \notin Roots
  BY VbsfMountsAssumption
<1>2. CASE r = q
  <2>1. DrivesOf([t EXCEPT ![d] = q], r) = DrivesOf(t, r) \cup {d}
    BY <1>2 DEF DrivesOf
  <2>2. d \notin DrivesOf(t, r)
    BY <1>1 DEF DrivesOf
  <2>3. Cardinality(DrivesOf(t, r) \cup {d}) = Cardinality(DrivesOf(t, r)) + 1
    BY <2>2, FewDrives, FS_AddElement
  <2>. QED
    BY <1>2, <2>1, <2>3
<1>3. CASE r # q
  <2>1. DrivesOf([t EXCEPT ![d] = q], r) = DrivesOf(t, r)
    BY <1>1, <1>3 DEF DrivesOf
  <2>. QED
    BY <1>3, <2>1, FewDrives
<1>. QED
  BY <1>2, <1>3

\* One drive less.
LEMMA CountUnmounted ==
  ASSUME NEW t \in [AllDrives -> Roots \cup {NIL}],
         NEW d \in AllDrives, t[d] # NIL, NEW r \in Roots
  PROVE  Cardinality(DrivesOf([t EXCEPT ![d] = NIL], r)) =
           Cardinality(DrivesOf(t, r)) - (IF r = t[d] THEN 1 ELSE 0)
<1>1. NIL \notin Roots
  BY VbsfMountsAssumption
<1>2. CASE r = t[d]
  <2>1. DrivesOf([t EXCEPT ![d] = NIL], r) = DrivesOf(t, r) \ {d}
    BY <1>1, <1>2 DEF DrivesOf
  <2>2. d \in DrivesOf(t, r)
    BY <1>2 DEF DrivesOf
  <2>3. Cardinality(DrivesOf(t, r) \ {d}) = Cardinality(DrivesOf(t, r)) - 1
    BY <2>2, FewDrives, FS_RemoveElement
  <2>. QED
    BY <1>2, <2>1, <2>3
<1>3. CASE r # t[d]
  <2>1. DrivesOf([t EXCEPT ![d] = NIL], r) = DrivesOf(t, r)
    BY <1>1, <1>3 DEF DrivesOf
  <2>. QED
    BY <1>3, <2>1, FewDrives
<1>. QED
  BY <1>2, <1>3

\* Without mounted drives every count is zero.
LEMMA CountNone ==
  ASSUME NEW t, \A d \in AllDrives : t[d] = NIL, NEW r \in Roots
  PROVE  Cardinality(DrivesOf(t, r)) = 0
<1>1. DrivesOf(t, r) = {}
  BY VbsfMountsAssumption DEF DrivesOf
<1>. QED
  BY <1>1, FS_EmptySet

-----------------------------------------------------------------------------
(* The inductive invariant *)

\* TablesAgree in terms of DrivesOf.
Counted ==
  state # "absent" =>
    \A r \in Roots : mapped[r] = Cardinality(DrivesOf(roots, r))
Visible == \A d \in AllDrives : Mounted(d) => cds[d] = "net"

\* Before its data is resident the program has no handler, and before it is
\* configured nothing else.
Unloaded ==
  /\ state # "resident" => int2f = "prev"
  /\ cmd.step = "configure" => state = "loading"
  /\ cmd.step = "configure" \/ state = "absent" => \A d \in AllDrives : ~Mounted(d)
  /\ state = "absent" => IsIdle

\* A drive that unmount_all has passed is unmounted, or there was an error.
Passed ==
  cmd.for = "uninstall" /\ cmd.step = "unmounting" =>
    \A d \in AllDrives \ cmd.todo :
      Mounted(d) => cmd.err /\ "unmap" \in refused

\* The buffer and the client are not there before they are asked for, and what
\* is left of them has its reason.
Explained ==
  /\ cmd.step = "configure" => ~locked /\ ~client
  /\ NothingStays

IInv == TypeOK /\ Counted /\ Visible /\ Unloaded /\ Passed /\ Explained

LEMMA TablesAgreeIs == TablesAgree <=> Visible /\ Counted
BY DEF TablesAgree, Visible, Counted, DrivesOf

\* What mounting does to the tables, whoever asks for it.
LEMMA MountOnTables ==
  ASSUME TypeOK, Counted, Visible, NEW d \in AllDrives, NEW r \in Roots,
         state # "absent", Mountable(d), MountOn(d, r)
  PROVE  /\ roots' \in [AllDrives -> Roots \cup {NIL}]
         /\ cds' \in [AllDrives -> {"none", "other", "net"}]
         /\ mapped' \in [Roots -> Nat]
         /\ Counted' /\ Visible'
<1>1. roots \in [AllDrives -> Roots \cup {NIL}] /\ mapped \in [Roots -> Nat]
  BY DEF TypeOK
<1>2. roots[d] = NIL
  BY DEF Mountable, Mounted
<1>3. /\ roots' = [roots EXCEPT ![d] = r]
      /\ mapped' = [mapped EXCEPT ![r] = @ + 1]
      /\ cds' = [cds EXCEPT ![d] = "net"]
  BY DEF MountOn
<1>4. ASSUME NEW q \in Roots
      PROVE  mapped'[q] = Cardinality(DrivesOf(roots', q))
  <2>1. Cardinality(DrivesOf(roots', q)) =
          Cardinality(DrivesOf(roots, q)) + (IF q = r THEN 1 ELSE 0)
    BY <1>1, <1>2, <1>3, CountMounted
  <2>2. mapped[q] = Cardinality(DrivesOf(roots, q)) /\ mapped[q] \in Nat
    BY <1>1 DEF Counted
  <2>. QED
    BY <1>1, <1>3, <2>1, <2>2
<1>5. Counted'
  BY <1>4 DEF Counted
<1>6. Visible'
  BY <1>1, <1>3 DEF Visible, Mounted, TypeOK
<1>. QED
  BY <1>1, <1>3, <1>5, <1>6 DEF TypeOK

\* What unmounting does to the tables.
LEMMA UnmountOnTables ==
  ASSUME TypeOK, Counted, Visible, NEW d \in AllDrives,
         state # "absent", Mounted(d), UnmountOn(d)
  PROVE  /\ roots' \in [AllDrives -> Roots \cup {NIL}]
         /\ cds' \in [AllDrives -> {"none", "other", "net"}]
         /\ mapped' \in [Roots -> Nat]
         /\ Counted' /\ Visible'
<1>1. roots \in [AllDrives -> Roots \cup {NIL}] /\ mapped \in [Roots -> Nat]
  BY DEF TypeOK
<1>2. roots[d] # NIL /\ roots[d] \in Roots
  BY <1>1 DEF Mounted
<1>3. /\ roots' = [roots EXCEPT ![d] = NIL]
      /\ mapped' = [mapped EXCEPT ![roots[d]] = @ - 1]
      /\ cds' = [cds EXCEPT ![d] = "none"]
  BY DEF UnmountOn
<1>4. ASSUME NEW q \in Roots
      PROVE  mapped'[q] = Cardinality(DrivesOf(roots', q))
             /\ Cardinality(DrivesOf(roots', q)) \in Nat
  <2>1. Cardinality(DrivesOf(roots', q)) =
          Cardinality(DrivesOf(roots, q)) - (IF q = roots[d] THEN 1 ELSE 0)
    BY <1>1, <1>2, <1>3, CountUnmounted
  <2>2. mapped[q] = Cardinality(DrivesOf(roots, q)) /\ mapped[q] \in Nat
    BY <1>1 DEF Counted
  <2>. QED
    BY <1>1, <1>3, <2>1, <2>2, FewDrives
<1>5. Counted'
  BY <1>4 DEF Counted
<1>6. Visible'
  BY <1>1, <1>3 DEF Visible, Mounted, TypeOK
<1>7. mapped' \in [Roots -> Nat]
  BY <1>1, <1>3, <1>4
<1>. QED
  BY <1>1, <1>3, <1>5, <1>6, <1>7 DEF TypeOK

-----------------------------------------------------------------------------
(* The invariant is kept *)

LEMMA InitIInv == Init => IInv
<1>. SUFFICES ASSUME Init PROVE IInv
  OBVIOUS
<1>1. \A d \in AllDrives : roots[d] = NIL
  BY DEF Init
<1>2. Counted
  BY <1>1, CountNone DEF Counted, Init
<1>3. Explained
  <2>1. \A r \in Roots : ~(mapped[r] > 0)
    BY DEF Init
  <2>. QED
    BY <2>1 DEF Init, Explained, NothingStays, Idle
<1>. QED
  BY <1>1, <1>2, <1>3 DEF Init, IInv, TypeOK, Visible, Unloaded, Passed, Mounted,
                          Idle, IsIdle, Steps

\* A step that touches neither tables nor drives keeps what is said of them.
LEMMA SameTables ==
  ASSUME Counted, Visible, UNCHANGED <<cds, roots, mapped>>,
         state = "absent" => state' = "absent"
  PROVE  Counted' /\ Visible'
BY DEF Counted, Visible, Mounted

\* A command that goes on to query, automount or keep, or ends, keeps the
\* invariant when nothing else changes.
LEMMA GoOnFrom ==
  ASSUME IInv, ~IsIdle, cmd.step # "configure",
         UNCHANGED <<cds, roots, state, int2f, mapped, client, locked, refused>>,
         \/ \E step \in {"query", "keep"} : GoTo(step, {})
         \/ \E list \in SUBSET Roots : GoTo("automounting", list)
         \/ AfterAutomount
         \/ cmd' = Idle
  PROVE  IInv'
<1>1. Counted' /\ Visible'
  BY SameTables DEF IInv
<1>2. TypeOK /\ Unloaded /\ Passed
  BY DEF IInv
<1>3. state # "absent" /\ state' = state
  BY <1>2 DEF Unloaded
<1>4. cmd' = Idle \/ \E step \in {"query", "keep", "automounting"},
                        list \in SUBSET Roots : GoTo(step, list)
  BY DEF AfterAutomount
<1>5. CASE cmd' = Idle
  BY <1>1, <1>2, <1>3, <1>5 DEF IInv, TypeOK, Unloaded, Passed, Mounted, Idle,
     IsIdle, Steps, Explained, NothingStays
<1>6. ASSUME NEW step \in {"query", "keep", "automounting"},
             NEW list \in SUBSET Roots, GoTo(step, list)
      PROVE  IInv'
  <2>1. cmd' = [cmd EXCEPT !.step = step, !.todo = list]
    BY <1>6 DEF GoTo
  <2>2. cmd' = [for |-> cmd.for, step |-> step, todo |-> list, err |-> cmd.err]
    BY <1>2, <2>1 DEF TypeOK
  <2>3. step \in Steps /\ step \notin {"configure", "unmounting", "idle"}
    BY DEF Steps
  <2>. QED
    BY <1>1, <1>2, <1>3, <2>2, <2>3 DEF IInv, TypeOK, Unloaded, Passed, Mounted,
       IsIdle, Explained, NothingStays
<1>. QED
  BY <1>4, <1>5, <1>6

LEMMA StepIInv ==
  ASSUME IInv, [Next]_vars
  PROVE  IInv'
<1>. USE DEF IInv
<1>0. /\ roots \in [AllDrives -> Roots \cup {NIL}]
      /\ mapped \in [Roots -> Nat]
      /\ cds \in [AllDrives -> {"none", "other", "net"}]
      /\ cmd \in [for : {"none", "install", "rescan", "uninstall"}, step : Steps,
                  todo : SUBSET (AllDrives \cup Roots), err : BOOLEAN]
  BY DEF TypeOK
<1>1. ASSUME NEW d \in AllDrives, NEW r \in Roots, Mount(d, r) PROVE IInv'
  <2>1. Mountable(d) /\ MountOn(d, r) /\ state = "resident"
    BY <1>1 DEF Mount, May
  <2>2. TypeOK' /\ Counted' /\ Visible'
    BY <1>1, <2>1, MountOnTables DEF Mount, TypeOK
  <2>3. Unloaded' /\ Passed' /\ Explained'
    BY <1>1 DEF Mount, May, IsIdle, Unloaded, Passed, Explained, NothingStays
  <2>. QED
    BY <2>2, <2>3
<1>2. ASSUME NEW d \in AllDrives, Unmount(d) PROVE IInv'
  <2>1. Mounted(d) /\ UnmountOn(d) /\ state = "resident"
    BY <1>2 DEF Unmount, May
  <2>2. TypeOK' /\ Counted' /\ Visible'
    BY <1>2, <2>1, UnmountOnTables DEF Unmount, TypeOK
  <2>3. Unloaded' /\ Passed' /\ Explained'
    BY <1>2 DEF Unmount, May, IsIdle, Unloaded, Passed, Explained, NothingStays
  <2>. QED
    BY <2>2, <2>3
<1>3. CASE Install
  <2>1. \A d \in AllDrives : roots[d] = NIL
    BY <1>3 DEF Install, Unloaded, Mounted
  <2>2. Counted'
    BY <1>3, <2>1, CountNone DEF Install, Counted
  <2>3. TypeOK'
    BY <1>0, <1>3 DEF Install, Idle, Steps, TypeOK
  <2>4. Visible' /\ Unloaded' /\ Passed' /\ Explained'
    BY <1>3, <2>1 DEF Install, Idle, IsIdle, Visible, Unloaded, Passed, Mounted,
       Explained, NothingStays
  <2>. QED
    BY <2>2, <2>3, <2>4
<1>3a. CASE Configure \/ Keep \/ AutomountEnd \/ RescanGoesOn
  <2>1. UNCHANGED <<cds, roots, mapped>>
    BY <1>3a DEF Configure, Keep, AutomountEnd, RescanGoesOn
  <2>2. state # "absent"
    BY <1>3a DEF Configure, Keep, AutomountEnd, RescanGoesOn, Unloaded, IsIdle
  <2>3. Counted' /\ Visible'
    BY <2>1, <2>2, SameTables
  <2>4. CASE Configure
    BY <1>0, <2>1, <2>3, <2>4 DEF Configure, GoTo, IsIdle, Steps, TypeOK,
       Unloaded, Passed, Mounted, Explained, NothingStays
  <2>5. CASE Keep
    BY <1>0, <2>1, <2>3, <2>5 DEF Keep, Idle, IsIdle, Steps, TypeOK,
       Unloaded, Passed, Mounted, Explained, NothingStays
  <2>6. CASE AutomountEnd
    BY <2>6, GoOnFrom DEF AutomountEnd, IsIdle
  <2>7. CASE RescanGoesOn
    BY <2>7, GoOnFrom DEF RescanGoesOn, IsIdle
  <2>. QED
    BY <1>3a, <2>4, <2>5, <2>6, <2>7
<1>4. ASSUME NEW fault \in AllFaults, ConfigureFails(fault) PROVE IInv'
  <2>1. Counted' /\ Visible'
    BY <1>4, SameTables DEF ConfigureFails, Counted, Visible, Mounted
  <2>2. TypeOK'
    BY <1>0, <1>4 DEF ConfigureFails, Idle, Steps, TypeOK
  <2>3. Unloaded' /\ Passed'
    BY <1>0, <1>4 DEF ConfigureFails, Idle, IsIdle, Unloaded, Passed, Mounted
  <2>4. Explained'
    <3>1. ~locked /\ ~client /\ state = "loading" /\ int2f = "prev"
          /\ \A d \in AllDrives : roots[d] = NIL
      BY <1>4 DEF ConfigureFails, Explained, Unloaded, Mounted
    <3>2. \A r \in Roots : mapped[r] = 0
      BY <3>1, CountNone DEF Counted
    <3>3. /\ locked' = (fault # "buffer") /\ client' = (fault = "utf8")
          /\ fault \in {"buffer", "hello", "connect", "utf8"}
          /\ fault \in refused'
          /\ UNCHANGED <<int2f, mapped>> /\ cmd' = Idle
      BY <1>4, <3>1 DEF ConfigureFails, ConfigureFaults
    <3>4. locked' => refused' \cap {"hello", "connect", "utf8", "unlock"} # {}
      BY <3>3
    <3>5. client' => refused' \cap {"utf8", "disconnect"} # {}
      BY <3>3
    <3>6. \A r \in Roots : ~(mapped'[r] > 0)
      BY <3>2, <3>3
    <3>. QED
      BY <3>1, <3>3, <3>4, <3>5, <3>6 DEF Explained, NothingStays, Idle
  <2>. QED
    BY <2>4, <2>3, <2>2, <2>1
<1>5. CASE QueryMappings
  <2>2. \/ \E list \in SUBSET Roots : GoTo("automounting", list)
        \/ AfterAutomount
    BY <1>5, VbsfMountsAssumption DEF QueryMappings
  <2>. QED
    BY <1>5, <2>2, GoOnFrom DEF QueryMappings, IsIdle
<1>6. ASSUME NEW r \in Roots, Automount(r) PROVE IInv'
  <2>1. cmd' = [cmd EXCEPT !.step = "automounting", !.todo = cmd.todo \ {r}]
        /\ cmd.step = "automounting"
        /\ UNCHANGED <<state, int2f, client, locked, refused>>
    BY <1>6 DEF Automount, GoTo
  <2>1a. state # "absent"
    BY <2>1 DEF Unloaded, IsIdle
  <2>2. \/ \E d \in AllDrives : Mountable(d) /\ MountOn(d, r)
        \/ UNCHANGED <<cds, roots, mapped>>
    BY <1>6 DEF Automount
  <2>3. TypeOK' /\ Counted' /\ Visible'
    <3>1. ASSUME NEW d \in AllDrives, Mountable(d), MountOn(d, r)
          PROVE  TypeOK' /\ Counted' /\ Visible'
      BY <1>0, <2>1, <2>1a, <3>1, MountOnTables DEF TypeOK, Steps
    <3>2. CASE UNCHANGED <<cds, roots, mapped>>
      BY <1>0, <2>1, <2>1a, <3>2, SameTables DEF TypeOK, Steps
    <3>. QED
      BY <2>2, <3>1, <3>2
  <2>4. Unloaded' /\ Passed' /\ Explained'
    BY <1>0, <2>1, <2>1a DEF Unloaded, Passed, IsIdle, Explained, NothingStays
  <2>. QED
    BY <2>3, <2>4
<1>7. CASE Rescan \/ Uninstall
  <2>1. Counted' /\ Visible'
    BY <1>7, SameTables DEF Rescan, Uninstall, May
  <2>2. TypeOK'
    <3>. DEFINE Todos == SUBSET (AllDrives \cup Roots)
    <3>1. cmd' \in [for : {"none", "install", "rescan", "uninstall"},
                    step : Steps, todo : Todos, err : BOOLEAN]
      <4>1. AllDrives \in Todos /\ "unmounting" \in Steps
        BY DEF Steps
      <4>2. \E c \in {"rescan", "uninstall"} :
              cmd' = [for |-> c, step |-> "unmounting", todo |-> AllDrives,
                      err |-> FALSE]
        BY <1>7 DEF Rescan, Uninstall
      <4>. HIDE DEF Todos
      <4>. QED
        BY <4>1, <4>2
    <3>. QED
      BY <1>7, <3>1 DEF Rescan, Uninstall, TypeOK
  <2>3. /\ cmd'.step = "unmounting" /\ cmd'.todo = AllDrives
        /\ state' = "resident"
    BY <1>7 DEF Rescan, Uninstall, May
  <2>4. Unloaded' /\ Passed' /\ Explained'
    BY <2>3 DEF IsIdle, Unloaded, Passed, Mounted, Explained, NothingStays
  <2>. QED
    BY <2>1, <2>2, <2>4
<1>8. ASSUME NEW d \in AllDrives, UnmountNext(d) PROVE IInv'
  <2>1. Mounted(d) /\ UnmountOn(d) /\ cmd.step = "unmounting"
        /\ cmd' = [cmd EXCEPT !.step = "unmounting", !.todo = cmd.todo \ {d}]
        /\ UNCHANGED <<state, int2f, client, locked, refused>>
    BY <1>8 DEF UnmountNext, IsNext, GoTo
  <2>1a. state # "absent"
    BY <2>1 DEF Unloaded, IsIdle
  <2>2. TypeOK' /\ Counted' /\ Visible'
    BY <1>0, <2>1, <2>1a, UnmountOnTables DEF TypeOK, Steps
  <2>3. Unloaded' /\ Passed' /\ Explained'
    <3>1. roots' = [roots EXCEPT ![d] = NIL]
      BY <2>1 DEF UnmountOn
    <3>. QED
      BY <1>0, <2>1, <2>1a, <3>1 DEF Unloaded, Passed, IsIdle, Mounted,
         Explained, NothingStays
  <2>. QED
    BY <2>2, <2>3
<1>9. ASSUME NEW d \in AllDrives, PassOver(d) PROVE IInv'
  <2>1. cmd.step = "unmounting"
        /\ cmd' = [cmd EXCEPT !.todo = @ \ {d}, !.err = @ \/ Mounted(d)]
        /\ UNCHANGED <<roots, cds, mapped, state, int2f, client, locked>>
        /\ refused' = IF Mounted(d) THEN refused \cup {"unmap"} ELSE refused
    BY <1>9 DEF PassOver, IsNext
  <2>2. state # "absent"
    BY <2>1 DEF Unloaded, IsIdle
  <2>3. Mounted(d) \in BOOLEAN
    BY DEF Mounted
  <2>4. cmd' = [for |-> cmd.for, step |-> cmd.step, todo |-> cmd.todo \ {d},
                err |-> cmd.err \/ Mounted(d)]
    BY <1>0, <2>1
  <2>5. TypeOK'
    BY <1>0, <2>1, <2>3, <2>4 DEF TypeOK, AllFaults
  <2>6a. /\ cmd'.step = "unmounting" /\ cmd'.for = cmd.for
         /\ cmd'.todo = cmd.todo \ {d} /\ cmd'.err = (cmd.err \/ Mounted(d))
         /\ \A e \in AllDrives : Mounted(e)' = Mounted(e)
    BY <2>1, <2>4 DEF Mounted
  <2>6b. Unloaded' /\ Explained'
    BY <2>1, <2>2, <2>6a DEF Unloaded, IsIdle, Explained, NothingStays
  <2>6c. ASSUME cmd'.for = "uninstall", NEW e \in AllDrives \ cmd'.todo,
                Mounted(e)'
         PROVE  cmd'.err /\ "unmap" \in refused'
    <3>1. CASE e = d
      BY <2>1, <2>6a, <2>6c, <3>1
    <3>2. CASE e # d
      BY <2>1, <2>6a, <2>6c, <3>2 DEF Passed
    <3>. QED
      BY <3>1, <3>2
  <2>6. Unloaded' /\ Passed' /\ Explained'
    BY <2>6b, <2>6c DEF Passed
  <2>7. Counted' /\ Visible'
    BY <2>1, <2>2, SameTables
  <2>. QED
    BY <2>5, <2>6, <2>7
<1>10. CASE RemoveDriver
  <2>1. PICK errors \in SUBSET (ReleaseFaults \cap HostFaults) :
          /\ client' = ("disconnect" \in errors)
          /\ mapped' = [r \in Roots |-> IF client' THEN mapped[r] ELSE 0]
          /\ locked' = ("unlock" \in errors)
          /\ refused' = refused \cup errors
    BY <1>10 DEF RemoveDriver
  <2>2. /\ state' = "absent" /\ int2f' = "prev" /\ cmd' = Idle /\ cds' = cds
        /\ roots' = [d \in AllDrives |-> NIL]
        /\ cmd.step = "unmounting" /\ cmd.todo = {} /\ cmd.for = "uninstall"
    BY <1>10 DEF RemoveDriver
  <2>3. TypeOK'
    <3>1. mapped' \in [Roots -> Nat]
      BY <1>0, <2>1
    <3>2. client' \in BOOLEAN /\ locked' \in BOOLEAN
      BY <2>1
    <3>3. refused' \subseteq AllFaults
      BY <2>1 DEF TypeOK, AllFaults
    <3>. QED
      BY <1>0, <2>2, <3>1, <3>2, <3>3 DEF TypeOK, Idle, Steps
  <2>4. Counted' /\ Visible' /\ Unloaded' /\ Passed'
    BY <2>2 DEF Counted, Visible, Unloaded, Passed, Idle, IsIdle, Mounted
  <2>5. ASSUME NEW r \in Roots, mapped'[r] > 0
        PROVE  {"unmap", "disconnect"} \subseteq refused'
    <3>0. client' /\ mapped'[r] = mapped[r]
      <4>1. CASE client'
        BY <1>0, <2>1, <4>1
      <4>2. CASE ~client'
        <5>1. mapped'[r] = 0
          BY <2>1, <4>2
        <5>. QED
          BY <2>5, <5>1
      <4>. QED
        BY <4>1, <4>2
    <3>1. "disconnect" \in errors /\ mapped[r] > 0
      BY <2>1, <2>5, <3>0
    <3>2. mapped[r] = Cardinality(DrivesOf(roots, r))
      BY <2>2 DEF Counted, Unloaded, IsIdle
    <3>3. DrivesOf(roots, r) # {}
      BY <3>1, <3>2, FS_EmptySet
    <3>4. PICK d \in AllDrives : roots[d] = r
      BY <3>3 DEF DrivesOf
    <3>5. Mounted(d)
      BY <3>4, VbsfMountsAssumption DEF Mounted
    <3>. QED
      BY <2>1, <2>2, <3>1, <3>5 DEF Passed
  <2>6. Explained'
    BY <2>1, <2>2, <2>5 DEF Explained, NothingStays, Idle
  <2>. QED
    BY <2>3, <2>4, <2>6
<1>11. CASE OtherHooks
  <2>1. Counted' /\ Visible'
    BY <1>11, SameTables DEF OtherHooks
  <2>. QED
    BY <1>11, <2>1 DEF OtherHooks, TypeOK, Unloaded, Passed, Mounted, IsIdle,
       Explained, NothingStays
<1>12. CASE UNCHANGED vars
  <2>1. Counted' /\ Visible'
    BY <1>12, SameTables DEF vars
  <2>. QED
    BY <1>12, <2>1 DEF vars, TypeOK, Unloaded, Passed, Mounted, IsIdle,
       Explained, NothingStays
<1>. QED
  BY <1>12, <1>11, <1>10, <1>9, <1>8, <1>7, <1>6, <1>5, <1>4, <1>3, <1>3a, <1>2,
     <1>1
     DEF Next, Continue

LEMMA Invariance == Spec => []IInv
BY InitIInv, StepIInv, PTL DEF Spec

-----------------------------------------------------------------------------
(* The theorems *)

\* The steps that mount and unmount nothing, without the last of uninstall.
QuietStep ==
  \/ Install \/ Configure \/ (\E fault \in AllFaults : ConfigureFails(fault))
  \/ Keep \/ QueryMappings \/ AutomountEnd \/ Rescan \/ Uninstall
  \/ RescanGoesOn \/ OtherHooks \/ (\E d \in AllDrives : PassOver(d))
  \/ UNCHANGED vars

LEMMA QuietSteps == QuietStep => UNCHANGED <<cds, roots>>
<1>1. Install \/ Configure \/ Keep \/ QueryMappings => UNCHANGED <<cds, roots>>
  BY DEF Install, Configure, Keep, QueryMappings
<1>2. ASSUME NEW fault, ConfigureFails(fault) PROVE UNCHANGED <<cds, roots>>
  BY <1>2 DEF ConfigureFails
<1>3. AutomountEnd \/ Rescan \/ Uninstall => UNCHANGED <<cds, roots>>
  BY DEF AutomountEnd, Rescan, Uninstall
<1>4. ASSUME NEW d, PassOver(d) PROVE UNCHANGED <<cds, roots>>
  BY <1>4 DEF PassOver
<1>5. RescanGoesOn \/ OtherHooks \/ UNCHANGED vars => UNCHANGED <<cds, roots>>
  BY DEF RescanGoesOn, OtherHooks, vars
<1>. QED
  BY <1>1, <1>2, <1>3, <1>4, <1>5 DEF QuietStep

\* sfmain.c: counts of mapped folders never go below zero, and loops over the
\* drives stay in the table.
THEOREM TypeCorrect == Spec => []TypeOK
BY Invariance, PTL DEF IInv

\* mount, unmount, automount, unmount_all: at every step of every command, for
\* any drives, folders and refused calls, the drives of the driver are drives
\* of DOS and the host maps each folder as often as it is mounted.
THEOREM TablesAlwaysAgree == Spec => []TablesAgree
<1>1. IInv => TablesAgree
  BY TablesAgreeIs DEF IInv
<1>. QED
  BY <1>1, Invariance, PTL

\* mount, unmount: no drive of another driver is ever taken or given back.
THEOREM OtherDrivesStay == Spec => OtherDrivesAreSafe
<1>. DEFINE Safe == \A d \in AllDrives : cds[d] = "other" <=> cds'[d] = "other"
<1>1. ASSUME IInv, [Next]_vars PROVE [Safe]_vars
  <2>0. /\ roots \in [AllDrives -> Roots \cup {NIL}] /\ Visible
        /\ cds \in [AllDrives -> {"none", "other", "net"}]
    BY <1>1 DEF IInv, TypeOK
  <2>1. ASSUME NEW d \in AllDrives, NEW r \in Roots, Mountable(d), MountOn(d, r)
        PROVE  Safe
    BY <2>0, <2>1 DEF Mountable, MountOn
  <2>2. ASSUME NEW d \in AllDrives, Mounted(d), UnmountOn(d)
        PROVE  Safe
    BY <2>0, <2>2 DEF Visible, UnmountOn
  <2>3. CASE cds' = cds
    BY <2>3
  <2>4. RemoveDriver => cds' = cds
    BY DEF RemoveDriver
  <2>5. QuietStep => cds' = cds
    BY QuietSteps
  <2>. QED
    BY <1>1, <2>5, <2>4, <2>3, <2>2, <2>1 DEF Next, Continue, QuietStep, Mount,
       Unmount, Automount, UnmountNext
<1>. QED
  BY <1>1, Invariance, PTL DEF Spec, OtherDrivesAreSafe

\* unconfigure_driver: a drive that DOS shows and nobody serves comes from an
\* uninstall during which the host refused to unmap, and from nothing else.
THEOREM OrphansOnlyFromErrors == Spec => OrphansComeFromErrors
<1>. DEFINE Fair == \A d \in AllDrives : ~Orphan(d) /\ Orphan(d)'
                      => cmd.for = "uninstall" /\ cmd.err
<1>1. ASSUME IInv, [Next]_vars PROVE [Fair]_vars
  <2>0. /\ roots \in [AllDrives -> Roots \cup {NIL}] /\ NIL \notin Roots
        /\ cds \in [AllDrives -> {"none", "other", "net"}]
    BY <1>1, VbsfMountsAssumption DEF IInv, TypeOK
  <2>1. ASSUME NEW d \in AllDrives, NEW r \in Roots, MountOn(d, r)
        PROVE  Fair
    BY <2>0, <2>1 DEF MountOn, Orphan, Mounted
  <2>2. ASSUME NEW d \in AllDrives, UnmountOn(d)
        PROVE  Fair
    BY <2>0, <2>2 DEF UnmountOn, Orphan, Mounted
  <2>3. CASE RemoveDriver
    <3>1. cmd.for = "uninstall" /\ cmd.step = "unmounting" /\ cmd.todo = {}
          /\ cds' = cds
      BY <2>3 DEF RemoveDriver
    <3>2. ASSUME NEW d \in AllDrives, ~Orphan(d), Orphan(d)' PROVE cmd.err
      <4>1. Mounted(d)
        BY <3>1, <3>2 DEF Orphan
      <4>. QED
        BY <1>1, <3>1, <4>1 DEF IInv, Passed
    <3>. QED
      BY <3>1, <3>2
  <2>4. CASE UNCHANGED <<cds, roots>>
    BY <2>4 DEF Orphan, Mounted
  <2>5. QuietStep => UNCHANGED <<cds, roots>>
    BY QuietSteps
  <2>. QED
    BY <1>1, <2>5, <2>4, <2>3, <2>2, <2>1 DEF Next, Continue, QuietStep, Mount,
       Unmount, Automount, UnmountNext
<1>. QED
  BY <1>1, Invariance, PTL DEF Spec, OrphansComeFromErrors

\* configure_driver, unconfigure_driver, uninstall_driver: whatever the host and
\* the VDS refuse, at any of the calls, no handler stays behind, and a lock, a
\* client or a mapped folder only for the refusals that NothingStays names.
THEOREM NothingIsLeft == Spec => []NothingStays
<1>1. IInv => NothingStays
  BY DEF IInv, Explained
<1>. QED
  BY <1>1, Invariance, PTL

-----------------------------------------------------------------------------
(* Numbers *)

LEMMA Least ==
  ASSUME NEW T \in SUBSET Nat, T # {}
  PROVE  \E n \in T : \A m \in T : n <= m
<1>1. \E R : IsWellFoundedOn(R, Nat) /\ \A x, y \in Nat : x < y => <<x, y>> \in R
  <2>1. IsWellFoundedOn(OpToRel(<, Nat), Nat)
    BY NatLessThanWellFounded
  <2>2. \A x, y \in Nat : x < y => <<x, y>> \in OpToRel(<, Nat)
    BY DEF OpToRel
  <2> QED BY <2>1, <2>2
<1>2. PICK R : IsWellFoundedOn(R, Nat) /\ \A x, y \in Nat : x < y => <<x, y>> \in R
  BY <1>1
<1>3. PICK n \in T : \A m \in T : ~(<<m, n>> \in R)
  <2>1. IsWellFoundedOn(R, Nat)
    BY <1>2
  <2> HIDE <1>2
  <2> QED BY <2>1, WFMin, Zenon
<1>4. ASSUME NEW m \in T PROVE n <= m
  <2>1. ~(m < n)
    BY <1>2, <1>3
  <2>2. m \in Nat /\ n \in Nat
    OBVIOUS
  <2> QED BY <2>1, <2>2
<1> QED BY <1>4

\* What holds of 0, and of n + 1 when it holds of n, holds of all numbers.
LEMMA Induction ==
  ASSUME NEW T \in SUBSET Nat, 0 \in T, \A n \in T : n + 1 \in T
  PROVE  T = Nat
<1> SUFFICES ASSUME Nat \ T # {} PROVE FALSE
  OBVIOUS
<1>1. PICK n \in Nat \ T : \A m \in Nat \ T : n <= m
  BY Least
<1>2. n \in Nat /\ n # 0
  OBVIOUS
<1>3. n - 1 \in Nat /\ (n - 1) + 1 = n /\ ~ (n <= n - 1)
  BY <1>2
<1>4. n - 1 \in T
  BY <1>1, <1>3
<1> QED BY <1>1, <1>3, <1>4

Flattens(g, q) ==
  g = [i \in 1 .. Len(q) |-> IF i = 1 THEN q[i] ELSE g[i - 1] \o q[i]]

LEMMA FlattensIs ==
  ASSUME NEW g, NEW q, Flattens(g, q), NEW i \in 1 .. Len(q)
  PROVE  g[i] = IF i = 1 THEN q[i] ELSE g[i - 1] \o q[i]
<1> DEFINE e(j) == IF j = 1 THEN q[j] ELSE g[j - 1] \o q[j]
<1>1. g = [j \in 1 .. Len(q) |-> e(j)]
  BY DEF Flattens
<1> HIDE DEF e
<1>2. g[i] = e(i)
  BY <1>1
<1> QED BY <1>2 DEF e

LEMMA FlattensType ==
  ASSUME NEW S, NEW q \in Seq(Seq(S)), NEW g, Flattens(g, q)
  PROVE  \A i \in 1 .. Len(q) : g[i] \in Seq(S)
<1>1. Len(q) \in Nat /\ \A i \in 1 .. Len(q) : q[i] \in Seq(S)
  OBVIOUS
<1> DEFINE T == {n \in Nat : n \in 1 .. Len(q) => g[n] \in Seq(S)}
<1>2. 0 \in T
  BY <1>1
<1>3. ASSUME NEW n \in T PROVE n + 1 \in T
  <2>1. n \in Nat /\ n + 1 \in Nat
    OBVIOUS
  <2> SUFFICES ASSUME n + 1 \in 1 .. Len(q) PROVE g[n + 1] \in Seq(S)
    BY <2>1
  <2>2. g[n + 1] = IF n + 1 = 1 THEN q[n + 1] ELSE g[(n + 1) - 1] \o q[n + 1]
    BY FlattensIs
  <2>3. (n + 1) - 1 = n /\ (n + 1 # 1 => n \in 1 .. Len(q))
    BY <1>1, <2>1
  <2>4. n + 1 # 1 => g[n] \in Seq(S)
    BY <2>3
  <2> QED BY <1>1, <2>2, <2>3, <2>4
<1> HIDE DEF T
<1>4. T = Nat
  <2>1. T \in SUBSET Nat
    BY DEF T
  <2> QED BY <1>2, <1>3, <2>1, Induction
<1>5. ASSUME NEW i \in 1 .. Len(q) PROVE g[i] \in Seq(S)
  <2>1. i \in T
    BY <1>1, <1>4
  <2> QED BY <2>1 DEF T
<1> QED BY <1>5

LEMMA FlattensExists ==
  ASSUME NEW S, NEW q \in Seq(Seq(S))
  PROVE  \E g : Flattens(g, q)
<1>1. Len(q) \in Nat
  OBVIOUS
<1> DEFINE Step(g, i) == IF i = 1 THEN q[i] ELSE g[i - 1] \o q[i]
           Part(g, n) == \A i \in 1 .. n : g[i] = Step(g, i)
           T == {n \in Nat : \E g : Part(g, n)}
<1>2. 0 \in T
  OBVIOUS
<1>3. ASSUME NEW n \in T PROVE n + 1 \in T
  <2>0. n \in Nat
    OBVIOUS
  <2>1. PICK g : Part(g, n)
    OBVIOUS
  <2> DEFINE h == [i \in 0 .. n + 1 |-> IF i = n + 1 THEN Step(g, i) ELSE g[i]]
  <2>2. ASSUME NEW i \in 1 .. n + 1 PROVE h[i] = Step(h, i)
    <3>1. i \in 0 .. n + 1 /\ i - 1 \in 0 .. n + 1 /\ i - 1 # n + 1
      BY <2>0
    <3>2. Step(h, i) = Step(g, i)
      <4>1. h[i - 1] = g[i - 1]
        BY <3>1
      <4> QED BY <4>1
    <3>3. i # n + 1 => i \in 1 .. n
      BY <2>0
    <3> HIDE DEF Step
    <3>4. h[i] = Step(g, i)
      BY <2>1, <3>1, <3>3
    <3> QED BY <3>2, <3>4
  <2>3. Part(h, n + 1)
    <3> HIDE DEF Step, h
    <3> QED BY <2>2
  <2>4. n + 1 \in Nat
    BY <2>0
  <2> HIDE DEF Part, h
  <2> QED BY <2>3, <2>4
<1> HIDE DEF Part
<1>4. Len(q) \in T
  <2> HIDE DEF T
  <2>1. T \in SUBSET Nat
    BY DEF T
  <2> QED BY <1>1, <1>2, <1>3, <2>1, Induction
<1>5. PICK f : Part(f, Len(q))
  BY <1>4
<1> DEFINE h == [i \in 1 .. Len(q) |-> Step(f, i)]
<1>6. ASSUME NEW i \in 1 .. Len(q) PROVE Step(f, i) = Step(h, i)
  <2>1. CASE i = 1
    BY <2>1
  <2>2. CASE i # 1
    <3>1. i - 1 \in 1 .. Len(q)
      BY <1>1, <2>2
    <3> DEFINE a == Step(f, i - 1)
    <3> HIDE DEF Step
    <3>2. h[i - 1] = a
      BY <3>1
    <3>3. f[i - 1] = a
      BY <1>5, <3>1 DEF Part
    <3> HIDE DEF h
    <3> QED BY <3>2, <3>3 DEF Step
  <2> QED BY <2>1, <2>2
<1>7. h = [i \in 1 .. Len(q) |-> Step(h, i)]
  <2> DEFINE hh == h
  <2>1. \A i \in 1 .. Len(q) : Step(f, i) = Step(hh, i)
    BY <1>6
  <2> HIDE DEF Step, hh
  <2>2. h = [i \in 1 .. Len(q) |-> Step(hh, i)]
    BY <2>1
  <2> QED BY <2>2 DEF hh
<1>8. Flattens(h, q)
  <2> HIDE DEF h
  <2> QED BY <1>7 DEF Flattens
<1> QED BY <1>8

LEMMA FlattenSeqIs ==
  ASSUME NEW S, NEW q \in Seq(Seq(S)), q # <<>>
  PROVE  \E g : Flattens(g, q) /\ FlattenSeq(q) = g[Len(q)]
<1>1. Len(q) # 0
  OBVIOUS
<1> DEFINE c == CHOOSE g : Flattens(g, q)
<1>2. \E g : Flattens(g, q)
  BY FlattensExists
<1>3. Flattens(c, q)
  BY <1>2, Zenon
<1>4. FlattenSeq(q) = c[Len(q)]
  BY <1>1 DEF FlattenSeq, Flattens, Zenon
<1> HIDE DEF c
<1> QED BY <1>3, <1>4

\* A sequence of sequences becomes one of their elements.
LEMMA FlattenSeqType ==
  ASSUME NEW S, NEW q \in Seq(Seq(S))
  PROVE  FlattenSeq(q) \in Seq(S)
<1>1. CASE q = <<>>
  <2>0. Len(q) = 0
    BY <1>1
  <2>1. FlattenSeq(q) = q
    BY <2>0 DEF FlattenSeq
  <2>2. <<>> \in Seq(S)
    OBVIOUS
  <2> HIDE <2>0
  <2> QED BY <1>1, <2>1, <2>2, Zenon
<1>2. CASE q # <<>>
  <2>1. PICK g : Flattens(g, q) /\ FlattenSeq(q) = g[Len(q)]
    BY <1>2, FlattenSeqIs
  <2>2. Len(q) \in 1 .. Len(q)
    BY <1>2
  <2> QED BY <2>1, <2>2, FlattensType
<1> QED BY <1>1, <1>2

-----------------------------------------------------------------------------
Text == Chars \cup {SEP, TILDE, NUL}

\* The names of a directory are texts.
ListsAreTexts ==
  \A d : /\ Lists(d) \in Seq([dos : Seq(Text), host : Seq(Text)])

LEMMA Greatest ==
  ASSUME NEW B \in Nat, NEW T \in SUBSET (0 .. B), T # {}
  PROVE  \E n \in T : \A m \in T : n >= m
<1> DEFINE U == {n \in Nat : \E m \in T : n = B - m}
<1>1. U \in SUBSET Nat
  OBVIOUS
<1>2. U # {}
  <2>1. PICK m \in T : TRUE
    OBVIOUS
  <2>2. B - m \in Nat
    BY <2>1
  <2> QED BY <2>2
<1>3. PICK n \in U : \A k \in U : n <= k
  <2> HIDE DEF U
  <2> QED BY <1>1, <1>2, Least
<1>4. PICK t \in T : n = B - t
  BY <1>3
<1>5. ASSUME NEW m \in T PROVE t >= m
  <2>1. B - m \in U
    OBVIOUS
  <2>2. n <= B - m
    BY <1>3, <2>1
  <2> QED BY <1>4, <2>2
<1> QED BY <1>5

LEMMA MaxIn ==
  ASSUME NEW B \in Nat, NEW T \in SUBSET (0 .. B), T # {}
  PROVE  Max(T) \in T /\ \A m \in T : Max(T) >= m
<1>1. \E n \in T : \A m \in T : n >= m
  BY Greatest
<1> QED BY <1>1 DEF Max

LEMMA MinIn ==
  ASSUME NEW T \in SUBSET Nat, T # {}
  PROVE  Min(T) \in T /\ \A m \in T : Min(T) <= m
<1>1. \E n \in T : \A m \in T : n <= m
  BY Least
<1> QED BY <1>1 DEF Min

\* A string with an end in it has a first c or end from any place before.
LEMMA FirstIs ==
  ASSUME NEW t \in Seq(Text), NEW c, NEW i \in 1 .. Len(t), t[Len(t)] = NUL
  PROVE  LET j == First(t, i, c)
         IN  /\ j \in i .. Len(t) /\ j \in 1 .. Len(t) /\ t[j] \in {c, NUL}
             /\ \A k \in i .. j - 1 : t[k] \notin {c, NUL}
<1> DEFINE T == {j \in i .. Len(t) : t[j] \in {c, NUL}}
<1>1. Len(t) \in Nat /\ i \in Nat /\ Len(t) \in i .. Len(t)
  OBVIOUS
<1>2. T \in SUBSET Nat /\ T # {}
  BY <1>1
<1>3. PICK j \in T : \A k \in T : j <= k
  <2> HIDE DEF T
  <2> QED BY <1>2, Least
<1>4. \A k \in i .. j - 1 : t[k] \notin {c, NUL}
  <2> SUFFICES ASSUME NEW k \in i .. j - 1, t[k] \in {c, NUL} PROVE FALSE
    OBVIOUS
  <2>1. k \in T /\ ~ (j <= k)
    BY <1>1
  <2> QED BY <1>3, <2>1
<1>5. \E n \in i .. Len(t) :
        t[n] \in {c, NUL} /\ \A k \in i .. n - 1 : t[k] \notin {c, NUL}
  BY <1>3, <1>4
<1>6. /\ First(t, i, c) \in i .. Len(t) /\ t[First(t, i, c)] \in {c, NUL}
      /\ \A k \in i .. First(t, i, c) - 1 : t[k] \notin {c, NUL}
  BY <1>5 DEF First
<1> QED BY <1>1, <1>6

LEMMA LatestIs ==
  ASSUME NEW t \in Seq(Text), NEW c, NEW i \in 1 .. Len(t), NEW j \in i .. Len(t)
  PROVE  LET k == Latest(t, i, j, c)
         IN  k \in i .. j /\ k \in 1 .. Len(t) /\ (k = i \/ (k < j /\ t[k] = c))
<1> DEFINE T == {k \in i .. j - 1 : t[k] = c}
<1>1. Len(t) \in Nat /\ i \in Nat /\ j \in Nat
  OBVIOUS
<1>2. CASE T = {}
  <2>1. Latest(t, i, j, c) = i
    BY <1>2 DEF Latest
  <2> QED BY <1>1, <2>1
<1>3. CASE T # {}
  <2>1. Latest(t, i, j, c) = Max(T)
    BY <1>3 DEF Latest
  <2>2. T \in SUBSET (0 .. Len(t))
    BY <1>1
  <2>3. Max(T) \in T
    <3> HIDE DEF T
    <3> QED BY <1>1, <1>3, <2>2, MaxIn
  <2>4. Max(T) \in i .. j - 1 /\ t[Max(T)] = c
    BY <2>3
  <2> QED BY <1>1, <2>1, <2>4
<1> QED BY <1>2, <1>3

LEMMA StringIs ==
  ASSUME NEW t \in Seq(Text), NEW i \in 1 .. Len(t), t[Len(t)] = NUL
  PROVE  String(t, i) \in Seq(Text)
<1> DEFINE j == First(t, i, NUL)
<1>1. j \in i .. Len(t)
  BY FirstIs
<1> HIDE DEF j
<1>2. SubSeq(t, i, j - 1) \in Seq(Text)
  <2>1. j - 1 <= Len(t) /\ Len(t) \in Nat /\ i \in Nat /\ j \in Nat
    BY <1>1
  <2>2. \A k \in i .. j - 1 : t[k] \in Text
    BY <2>1
  <2> QED BY <2>1, <2>2
<1> QED BY <1>2 DEF String, j

LEMMA Utf8Is ==
  ASSUME HostPathsAssumption, NEW t \in Seq(Text)
  PROVE  Utf8(t) \in Seq(Text)
<1> DEFINE q == [i \in DOMAIN t |-> IF t[i] \in Chars THEN Bytes[t[i]] ELSE <<t[i]>>]
<1>1. ASSUME NEW i \in DOMAIN t
      PROVE  (IF t[i] \in Chars THEN Bytes[t[i]] ELSE <<t[i]>>) \in Seq(Text)
  <2>1. t[i] \in Text
    OBVIOUS
  <2>2. ASSUME NEW x \in Chars PROVE Bytes[x] \in Seq(Text)
    <3>1. Bytes[x] \in Seq(Chars)
      BY DEF HostPathsAssumption
    <3> QED BY <3>1 DEF Text
  <2>3. <<t[i]>> \in Seq(Text)
    BY <2>1
  <2> QED BY <2>2, <2>3
<1>2. q \in Seq(Seq(Text))
  <2>1. DOMAIN t = 1 .. Len(t) /\ Len(t) \in Nat
    OBVIOUS
  <2> QED BY <1>1, <2>1
<1> HIDE DEF q
<1>3. FlattenSeq(q) \in Seq(Text)
  BY <1>2, FlattenSeqType
<1> QED BY <1>3 DEF Utf8, q

ByteOf(c) == IF c \in Chars THEN Bytes[c] ELSE <<c>>

LEMMA Utf8Empty == Utf8(<<>>) = <<>>
<1>1. Len([i \in DOMAIN <<>> |-> ByteOf(<<>>[i])]) = 0
      /\ [i \in DOMAIN <<>> |-> ByteOf(<<>>[i])] = <<>>
  OBVIOUS
<1> QED BY <1>1 DEF Utf8, FlattenSeq, ByteOf

\* As many characters of t as a conversion takes
Taken(t, room) == Min({Len(t), room})

LEMMA TakenIs ==
  ASSUME NEW t \in Seq(Text), NEW room \in Nat
  PROVE  /\ Taken(t, room) \in 0 .. Len(t) /\ Taken(t, room) <= room
         /\ Taken(t, room) \in {Len(t), room}
<1>1. Len(t) \in Nat
  OBVIOUS
<1> DEFINE T == {Len(t), room}
<1>2. T \in SUBSET Nat /\ T # {}
  BY <1>1
<1>3. Min(T) \in T /\ \A m \in T : Min(T) <= m
  <2> HIDE DEF T
  <2> QED BY <1>2, MinIn
<1> QED BY <1>1, <1>3 DEF Taken

\* A conversion writes at most one byte more than there is room.
LEMMA ConvertedIs ==
  ASSUME HostPathsAssumption, NEW t \in Seq(Text), NEW room \in Nat
  PROVE  LET r == Converted(t, room)
         IN  /\ r.text \in Seq(Text) /\ Len(r.text) <= room
             /\ r.written \in 0 .. room + 1
<1> DEFINE Begin(n) == Utf8(SubSeq(t, 1, n))
           fits == {n \in 0 .. Taken(t, room) : Len(Begin(n)) <= room}
           u == Begin(Taken(t, room))
<1>1. Taken(t, room) \in 0 .. Len(t) /\ Len(t) \in Nat /\ Taken(t, room) \in Nat
  BY TakenIs
<1>2. ASSUME NEW n \in 0 .. Taken(t, room)
      PROVE  Begin(n) \in Seq(Text) /\ Len(Begin(n)) \in Nat
  <2>1. SubSeq(t, 1, n) \in Seq(Text)
    BY <1>1
  <2> DEFINE b == Begin(n)
  <2>2. b \in Seq(Text)
    BY <2>1, Utf8Is
  <2> HIDE DEF b
  <2> QED BY <2>2 DEF b
<1>3. 0 \in fits
  <2>1. SubSeq(t, 1, 0) = <<>>
    OBVIOUS
  <2>2. Begin(0) = <<>>
    BY <2>1, Utf8Empty
  <2>3. Len(<<>>) = 0
    OBVIOUS
  <2> HIDE DEF Begin
  <2>4. Len(Begin(0)) = 0
    BY <2>2, <2>3, Zenon
  <2> QED BY <1>1, <2>4
<1>4. Max(fits) \in fits
  <2>1. fits \in SUBSET (0 .. Taken(t, room))
    OBVIOUS
  <2> HIDE DEF fits
  <2> QED BY <1>1, <1>3, <2>1, MaxIn
<1>5. Converted(t, room) =
        IF Taken(t, room) \in fits
          THEN [text |-> u, written |-> Len(u) + 1]
          ELSE [text |-> <<>>, written |-> Len(Begin(Max(fits)))]
  BY DEF Converted, Taken
<1>6. Len(Begin(Max(fits))) \in 0 .. room
  <2> DEFINE n == Max(fits)
  <2>1. n \in 0 .. Taken(t, room) /\ Len(Begin(n)) <= room
    BY <1>4
  <2> HIDE DEF n, Begin
  <2> QED BY <1>2, <2>1 DEF n
<1>7. u \in Seq(Text) /\ Len(u) \in Nat /\ (Taken(t, room) \in fits => Len(u) <= room)
  BY <1>1, <1>2
<1> DEFINE last == Begin(Max(fits))
<1>8. Len(last) \in 0 .. room
  BY <1>6
<1>9. Converted(t, room) = IF Taken(t, room) \in fits
                             THEN [text |-> u, written |-> Len(u) + 1]
                             ELSE [text |-> <<>>, written |-> Len(last)]
  BY <1>5
<1> HIDE DEF u, fits, last
<1> QED BY <1>7, <1>8, <1>9

\* A name that is found or kept fits, and no more is written than there is room.
LEMMA RealIs ==
  ASSUME ListsAreTexts, NEW dir, NEW t \in Seq(Text), NEW room \in Nat
  PROVE  LET r == Real(dir, t, room)
         IN  /\ r.fits => r.name \in Seq(Text) /\ Len(r.name) <= room
             /\ r.written \in 0 .. room + 1
<1> DEFINE list == Lists(dir)
           TooLong(i) == Len(list[i].host) > room
           stops == {i \in DOMAIN list : TooLong(i) \/ list[i].dos = t}
           copied == {i \in DOMAIN list : \A j \in stops : i <= j}
           fits == IF stops = {} THEN Len(t) + 2 <= room ELSE ~TooLong(Min(stops))
           name == IF stops = {} THEN t ELSE list[Min(stops)].host
           W == {1} \cup {Len(list[i].host) + 1 : i \in {k \in copied : ~TooLong(k)}}
                    \cup (IF fits THEN {Len(name) + 1} ELSE {})
<1>1. Real(dir, t, room) = [name |-> IF fits THEN name ELSE <<>>,
                            fits |-> fits, written |-> Max(W)]
  BY DEF Real
<1>2. \A i \in DOMAIN list :
        /\ i \in Nat /\ list[i].host \in Seq(Text) /\ Len(list[i].host) \in Nat
  <2>1. list \in Seq([dos : Seq(Text), host : Seq(Text)])
    BY DEF ListsAreTexts
  <2>2. \A i \in DOMAIN list : i \in Nat /\ list[i] \in [dos : Seq(Text), host : Seq(Text)]
    <3> HIDE DEF list
    <3>1. DOMAIN list = 1 .. Len(list) /\ Len(list) \in Nat
      BY <2>1
    <3> DEFINE R == [dos : Seq(Text), host : Seq(Text)]
    <3>2. list \in Seq(R)
      BY <2>1
    <3> HIDE DEF R
    <3>3. \A i \in 1 .. Len(list) : i \in Nat /\ list[i] \in R
      BY <3>1, <3>2
    <3> QED BY <3>1, <3>3 DEF R
  <2>3. \A x \in [dos : Seq(Text), host : Seq(Text)] : x.host \in Seq(Text)
    OBVIOUS
  <2>4. \A x \in Seq(Text) : Len(x) \in Nat
    OBVIOUS
  <2> HIDE DEF list
  <2> QED BY <2>2, <2>3, <2>4
<1>3. stops # {} => Min(stops) \in stops
  <2>1. stops \in SUBSET Nat
    BY <1>2
  <2> HIDE DEF stops
  <2> QED BY <2>1, MinIn
<1>4. fits => name \in Seq(Text) /\ Len(name) <= room /\ Len(name) \in Nat
  <2>1. CASE stops = {}
    <3>1. name = t /\ (fits => Len(t) + 2 <= room) /\ Len(t) \in Nat
      BY <2>1
    <3> HIDE DEF name, fits
    <3> QED BY <3>1
  <2>2. CASE stops # {}
    <3> DEFINE m == Min(stops)
    <3>1. name = list[m].host /\ (fits => ~ (Len(list[m].host) > room)) /\ m \in DOMAIN list
      BY <1>3, <2>2
    <3> HIDE DEF name, fits, m, list
    <3>2. Len(list[m].host) \in Nat /\ list[m].host \in Seq(Text)
      BY <1>2, <3>1
    <3> QED BY <3>1, <3>2
  <2> QED BY <2>1, <2>2
<1>5. W \in SUBSET (0 .. room + 1) /\ W # {}
  <2>1. \A i \in copied : ~ TooLong(i) => Len(list[i].host) + 1 \in 0 .. room + 1
    <3>1. copied \subseteq DOMAIN list
      OBVIOUS
    <3> HIDE DEF list, copied
    <3> QED BY <1>2, <3>1
  <2>2. fits => Len(name) + 1 \in 0 .. room + 1
    <3> HIDE DEF fits, name
    <3> QED BY <1>4
  <2>3. 1 \in 0 .. room + 1
    OBVIOUS
  <2> HIDE DEF fits, name, copied, list
  <2> QED BY <2>1, <2>2, <2>3
<1>6. Max(W) \in W
  <2> HIDE DEF W
  <2>1. room + 1 \in Nat
    OBVIOUS
  <2> QED BY <1>5, <2>1, MaxIn
<1> DEFINE r == Real(dir, t, room)
<1>7. fits \in BOOLEAN /\ Max(W) \in 0 .. room + 1
  <2>1. fits \in BOOLEAN
    <3>1. (Len(t) + 2 <= room) \in BOOLEAN
      OBVIOUS
    <3>2. (~ TooLong(Min(stops))) \in BOOLEAN
      OBVIOUS
    <3> HIDE DEF stops, TooLong
    <3> QED BY <3>1, <3>2, Zenon
  <2> HIDE DEF fits, W
  <2> QED BY <1>5, <1>6, <2>1
<1> HIDE DEF fits, name, W
<1>8. r.fits = fits /\ r.written = Max(W) /\ (fits => r.name = name)
  BY <1>1
<1> HIDE DEF r
<1>9. r.fits => r.name \in Seq(Text) /\ Len(r.name) <= room
  BY <1>4, <1>8
<1> QED BY <1>7, <1>8, <1>9 DEF r

LEMMA JoinedIs ==
  ASSUME NEW p \in Seq(Seq(Text)), SEP \in Text
  PROVE  Joined(p) \in Seq(Text)
<1> DEFINE q == [i \in DOMAIN p |-> <<SEP>> \o p[i]]
<1>1. DOMAIN p = 1 .. Len(p) /\ Len(p) \in Nat /\ \A i \in 1 .. Len(p) : p[i] \in Seq(Text)
  OBVIOUS
<1>2. \A x \in Seq(Text) : <<SEP>> \o x \in Seq(Text)
  OBVIOUS
<1>3. q \in Seq(Seq(Text))
  BY <1>1, <1>2
<1> HIDE DEF q
<1>4. FlattenSeq(q) \in Seq(Text)
  BY <1>3, FlattenSeqType
<1> QED BY <1>4 DEF Joined, q

Translating ==
  /\ call \in Calls
  /\ dst \in Seq(Text) /\ Len(dst) <= call.buflen
  /\ reached \in 0 .. call.buflen + 1
  /\ at = "loop" => /\ src \in Seq(Text) /\ s \in 1 .. Len(src)
                    /\ src[Len(src)] = NUL

LEMMA CalledTranslating ==
  ASSUME HostPathsAssumption, Called
  PROVE  Translating
<1>1. /\ call \in Calls /\ dst = <<>> /\ reached = 0 /\ s = 1
      /\ src = Cut(Append(Joined(call.path), NUL), call)
  BY DEF Called
<1>2. call.buflen \in Nat /\ call.path \in Seq(Seq(Text))
  <2>1. call.path \in Seq(Seq(Chars \cup {TILDE})) /\ call.buflen \in Nat
    BY <1>1 DEF HostPathsAssumption
  <2>2. Seq(Chars \cup {TILDE}) \subseteq Seq(Text)
    BY DEF Text
  <2> QED BY <2>1, <2>2
<1> DEFINE t == Append(Joined(call.path), NUL)
<1>3. t \in Seq(Text) /\ Len(t) \in Nat \ {0} /\ t[Len(t)] = NUL /\ DOMAIN t = 1 .. Len(t)
  <2>1. Joined(call.path) \in Seq(Text)
    BY <1>2, JoinedIs DEF Text
  <2>2. NUL \in Text
    BY DEF Text
  <2> HIDE <1>1, <1>2
  <2> QED BY <2>1, <2>2
<1> HIDE DEF t
<1>4. src = [i \in DOMAIN t |->
               IF call.count < call.buflen /\ i = call.count + 1 THEN NUL ELSE t[i]]
  BY <1>1 DEF Cut, t
<1>5. \A i \in 1 .. Len(t) : src[i] \in Text
  BY <1>3, <1>4 DEF Text
<1>6. src \in Seq(Text) /\ Len(src) = Len(t) /\ src[Len(t)] = NUL
  BY <1>3, <1>4, <1>5
<1> QED BY <1>1, <1>2, <1>3, <1>6 DEF Translating

LEMMA MaxOfTwo ==
  ASSUME NEW B \in Nat, NEW a \in 0 .. B, NEW b \in 0 .. B
  PROVE  Max({a, b}) \in 0 .. B
<1>1. Max({a, b}) \in {a, b}
  BY MaxIn
<1> QED BY <1>1

LEMMA RestTranslating ==
  ASSUME HostPathsAssumption, Translating, Rest
  PROVE  Translating'
<1> DEFINE room == call.buflen - Len(dst)
           rest == Converted(String(src, s), room)
<1>1. /\ call.buflen \in Nat /\ Len(dst) \in Nat /\ room \in Nat
      /\ dst \in Seq(Text) /\ reached \in 0 .. call.buflen + 1
  BY DEF Translating, HostPathsAssumption
<1>2. String(src, s) \in Seq(Text)
  BY StringIs DEF Translating, Rest
<1>3. rest.text \in Seq(Text) /\ Len(rest.text) <= room /\ rest.written \in 0 .. room + 1
  BY <1>1, <1>2, ConvertedIs
<1>4. /\ dst' = dst \o rest.text /\ reached' = Max({reached, Len(dst) + rest.written})
      /\ at' = "done" /\ call' = call
  BY DEF Rest
<1> HIDE DEF rest
<1>5. dst' \in Seq(Text) /\ Len(dst') <= call.buflen
  <2>1. Len(dst') = Len(dst) + Len(rest.text) /\ Len(rest.text) \in Nat
    BY <1>1, <1>3, <1>4
  <2> QED BY <1>1, <1>3, <1>4, <2>1
<1>6. Len(dst) + rest.written \in 0 .. call.buflen + 1
  BY <1>1, <1>3
<1>7. reached' \in 0 .. call.buflen + 1
  <2>1. call.buflen + 1 \in Nat
    BY <1>1
  <2> QED BY <1>1, <1>4, <1>6, <2>1, MaxOfTwo
<1> QED BY <1>4, <1>5, <1>7 DEF Translating

LEMMA PassTranslating ==
  ASSUME HostPathsAssumption, ListsAreTexts, Translating, Pass
  PROVE  Translating'
<1> DEFINE tl == First(src, s, TILDE)
           ps == Latest(src, s, tl, SEP)
           ns == First(src, tl, SEP)
           open == [src EXCEPT ![ps] = NUL, ![ns] = NUL]
           before == Converted(String(open, s), call.buflen - Len(dst))
           dir == Append(dst \o before.text, SEP)
           real == Real(dir, String(open, ps + 1), call.buflen - Len(dir))
           sofar == Max({reached, Len(dst) + before.written})
<1>1. /\ call.buflen \in Nat /\ Len(dst) \in Nat /\ call.buflen - Len(dst) \in Nat
      /\ dst \in Seq(Text) /\ reached \in 0 .. call.buflen + 1
      /\ call.buflen + 1 \in Nat
  BY DEF Translating, HostPathsAssumption
<1>2. /\ src \in Seq(Text) /\ s \in 1 .. Len(src) /\ src[Len(src)] = NUL
      /\ Len(src) \in Nat /\ src[tl] = TILDE /\ TILDE # NUL
  <2>1. src[tl] = TILDE /\ at = "loop"
    BY DEF Pass
  <2> HIDE DEF tl
  <2> QED BY <2>1 DEF Translating, HostPathsAssumption
<1>3. call' = call
  BY DEF Pass
<1>4. \/ /\ dst' = dst \o before.text
         /\ Len(dir) > call.buflen
         /\ reached' = sofar /\ at' = "done"
      \/ /\ Len(dir) <= call.buflen
         /\ dst' = dir /\ reached' = Max({sofar, Len(dir) + real.written})
         /\ at' = "done"
      \/ /\ Len(dir) <= call.buflen /\ real.fits
         /\ dst' = dir \o real.name
         /\ reached' = Max({sofar, Len(dir) + real.written})
         /\ src' = Mended(open, ps, ns, src[ns]) /\ s' = ns
  BY DEF Pass
<1> HIDE DEF tl, ps, ns
<1>5. tl \in 1 .. Len(src) /\ tl \in s .. Len(src) /\ tl < Len(src)
  <2>1. tl \in s .. Len(src) /\ tl \in 1 .. Len(src)
    BY <1>2, FirstIs DEF tl
  <2> QED BY <1>2, <2>1
<1>6. ns \in 1 .. Len(src)
  BY <1>2, <1>5, FirstIs DEF ns
<1>7. ps \in 1 .. Len(src) /\ ps < Len(src) /\ ps + 1 \in 1 .. Len(src)
  <2>1. ps \in s .. tl /\ ps \in 1 .. Len(src)
    BY <1>2, <1>5, LatestIs DEF ps
  <2> QED BY <1>2, <1>5, <2>1
<1>8. /\ open \in Seq(Text) /\ Len(open) = Len(src) /\ open[Len(open)] = NUL
      /\ \A i \in 1 .. Len(src) : i \notin {ps, ns} => open[i] = src[i]
  <2>1. NUL \in Text
    BY DEF Text
  <2> QED BY <1>2, <1>6, <1>7, <2>1
<1> HIDE DEF open
<1>9. String(open, s) \in Seq(Text) /\ String(open, ps + 1) \in Seq(Text)
  BY <1>2, <1>7, <1>8, StringIs
<1>10. /\ before.text \in Seq(Text) /\ Len(before.text) <= call.buflen - Len(dst)
       /\ before.written \in 0 .. (call.buflen - Len(dst)) + 1
  BY <1>1, <1>9, ConvertedIs
<1> HIDE DEF before
<1>11. /\ dst \o before.text \in Seq(Text) /\ Len(dst \o before.text) <= call.buflen
       /\ dir \in Seq(Text) /\ Len(dir) \in Nat
  <2>1. SEP \in Text
    BY DEF Text
  <2>2. Len(dst \o before.text) = Len(dst) + Len(before.text) /\ Len(before.text) \in Nat
    BY <1>1, <1>10
  <2> QED BY <1>1, <1>10, <2>1, <2>2
<1>12. sofar \in 0 .. call.buflen + 1
  <2>1. Len(dst) + before.written \in 0 .. call.buflen + 1
    BY <1>1, <1>10
  <2> QED BY <1>1, <2>1, MaxOfTwo
<1> HIDE DEF dir, sofar
<1>13. ASSUME Len(dir) <= call.buflen
       PROVE  /\ call.buflen - Len(dir) \in Nat
              /\ real.fits => /\ real.name \in Seq(Text)
                              /\ Len(real.name) <= call.buflen - Len(dir)
              /\ Len(dir) + real.written \in 0 .. call.buflen + 1
  <2> DEFINE room == call.buflen - Len(dir)
  <2>1. room \in Nat /\ Len(dir) + room = call.buflen
    BY <1>1, <1>11, <1>13
  <2> HIDE DEF room
  <2>2. /\ Real(dir, String(open, ps + 1), room).fits =>
             /\ Real(dir, String(open, ps + 1), room).name \in Seq(Text)
             /\ Len(Real(dir, String(open, ps + 1), room).name) <= room
        /\ Real(dir, String(open, ps + 1), room).written \in 0 .. room + 1
    BY <1>9, <2>1, RealIs
  <2>3. real = Real(dir, String(open, ps + 1), room)
    BY DEF room
  <2> HIDE DEF real
  <2>4. Len(dir) + real.written \in 0 .. call.buflen + 1
    <3> DEFINE w == real.written
    <3>1. w \in 0 .. room + 1
      BY <2>2, <2>3
    <3> HIDE DEF w
    <3>2. Len(dir) + w \in 0 .. call.buflen + 1
      BY <1>1, <1>11, <2>1, <3>1
    <3> QED BY <3>2 DEF w
  <2> QED BY <2>1, <2>2, <2>3, <2>4 DEF room
<1> HIDE DEF real
<1>14. dst' \in Seq(Text) /\ Len(dst') <= call.buflen
  <2>1. CASE Len(dir) > call.buflen /\ dst' = dst \o before.text
    BY <1>11, <2>1
  <2>2. CASE Len(dir) <= call.buflen /\ dst' = dir
    BY <1>11, <2>2
  <2>3. CASE Len(dir) <= call.buflen /\ real.fits /\ dst' = dir \o real.name
    <3>1. real.name \in Seq(Text) /\ Len(real.name) <= call.buflen - Len(dir)
      BY <1>13, <2>3
    <3>2. dst' \in Seq(Text) /\ Len(dst') = Len(dir) + Len(real.name) /\ Len(real.name) \in Nat
      BY <1>11, <2>3, <3>1
    <3> QED BY <1>1, <1>11, <3>1, <3>2
  <2>4. ~ (Len(dir) <= call.buflen /\ Len(dir) > call.buflen)
    BY <1>1, <1>11
  <2> QED BY <1>4, <2>1, <2>2, <2>3, <2>4
<1>15. reached' \in 0 .. call.buflen + 1
  <2>1. CASE reached' = sofar
    BY <1>12, <2>1
  <2>2. CASE Len(dir) <= call.buflen /\ reached' = Max({sofar, Len(dir) + real.written})
    BY <1>1, <1>12, <1>13, <2>2, MaxOfTwo
  <2> QED BY <1>4, <2>1, <2>2
<1>16. at' = "loop" => src' \in Seq(Text) /\ s' \in 1 .. Len(src') /\ src'[Len(src')] = NUL
  <2> SUFFICES ASSUME src' = Mended(open, ps, ns, src[ns]), s' = ns
               PROVE  src' \in Seq(Text) /\ s' \in 1 .. Len(src') /\ src'[Len(src')] = NUL
    BY <1>4
  <2>1. src' = [open EXCEPT ![ps] = SEP, ![ns] = src[ns]]
    BY DEF Mended
  <2>2. SEP \in Text /\ src[ns] \in Text
    BY <1>2, <1>6 DEF Text
  <2>3. src' \in Seq(Text) /\ Len(src') = Len(src)
    BY <1>2, <1>6, <1>7, <1>8, <2>1, <2>2
  <2>4. src'[Len(src)] = NUL
    <3>1. CASE ns = Len(src)
      BY <1>2, <1>6, <1>7, <1>8, <2>1, <3>1
    <3>2. CASE ns # Len(src)
      BY <1>2, <1>6, <1>7, <1>8, <2>1, <3>2
    <3> QED BY <3>1, <3>2
  <2> QED BY <1>6, <2>3, <2>4
<1> QED BY <1>3, <1>14, <1>15, <1>16 DEF Translating

THEOREM BuffersAreHeld ==
  ASSUME ListsAreTexts PROVE Translation => []BuffersHold
<1>1. Called => Translating
  BY CalledTranslating, HostPathsAssumption
<1>2. Translating /\ [Translate]_pathvars => Translating'
  <2>1. CASE UNCHANGED pathvars
    BY <2>1 DEF pathvars, Translating
  <2>2. CASE Translate
    BY <2>2, RestTranslating, PassTranslating, HostPathsAssumption DEF Translate
  <2> QED BY <2>1, <2>2
<1>3. Translating => BuffersHold
  BY DEF Translating, BuffersHold, HostPathsAssumption
<1> QED BY <1>1, <1>2, <1>3, PTL DEF Translation

-----------------------------------------------------------------------------
(* The calendar of the code and the reference *)

LEMMA Leap ==
  ASSUME NEW y \in Int
  PROVE  NewYear(y + 1) = NewYear(y) + days_per_year(y)
<1>1. (y - 1968) \div 4 = (y - 1969) \div 4 + (IF y % 4 = 0 THEN 1 ELSE 0)
  OBVIOUS
<1>2. (y - 1900) \div 100 = (y - 1901) \div 100 + (IF y % 100 = 0 THEN 1 ELSE 0)
  OBVIOUS
<1>3. (y - 1600) \div 400 = (y - 1601) \div 400 + (IF y % 400 = 0 THEN 1 ELSE 0)
  OBVIOUS
<1>4. y % 400 = 0 => y % 100 = 0
  OBVIOUS
<1>5. y % 100 = 0 => y % 4 = 0
  OBVIOUS
<1>6. /\ (y + 1) - 1969 = y - 1968 /\ (y + 1) - 1901 = y - 1900
      /\ (y + 1) - 1601 = y - 1600 /\ (y + 1) - 1970 = (y - 1970) + 1
  OBVIOUS
<1> DEFINE a == (y - 1969) \div 4
           b == (y - 1901) \div 100
           c == (y - 1601) \div 400
           a1 == (y - 1968) \div 4
           b1 == (y - 1900) \div 100
           c1 == (y - 1600) \div 400
<1>7. /\ NewYear(y) = 365 * (y - 1970) + a - b + c
      /\ NewYear(y + 1) = 365 * ((y - 1970) + 1) + a1 - b1 + c1
  BY <1>6 DEF NewYear
<1>8. a \in Int /\ b \in Int /\ c \in Int
  OBVIOUS
<1>9. /\ a1 = a + (IF y % 4 = 0 THEN 1 ELSE 0)
      /\ b1 = b + (IF y % 100 = 0 THEN 1 ELSE 0)
      /\ c1 = c + (IF y % 400 = 0 THEN 1 ELSE 0)
  BY <1>1, <1>2, <1>3
<1> HIDE DEF a, b, c, a1, b1, c1
<1>10. CASE is_leap_year(y)
  BY <1>4, <1>5, <1>7, <1>8, <1>9, <1>10 DEF is_leap_year, days_per_year
<1>11. CASE ~ is_leap_year(y)
  BY <1>4, <1>5, <1>7, <1>8, <1>9, <1>11 DEF is_leap_year, days_per_year
<1> QED BY <1>10, <1>11

\* A year has 365 days or more, up to 366.
LEMMA Years365 ==
  ASSUME NEW y \in Int, y >= 1970
  PROVE  /\ NewYear(y) \in Int /\ 365 * (y - 1970) <= NewYear(y)
         /\ NewYear(y) <= 366 * (y - 1970)
<1> DEFINE a == (y - 1969) \div 4
           b == (y - 1901) \div 100
           c == (y - 1601) \div 400
<1>1. /\ 4 * a <= y - 1969 /\ y - 1969 <= 4 * a + 3
      /\ 100 * b <= y - 1901 /\ y - 1901 <= 100 * b + 99
      /\ 400 * c <= y - 1601 /\ y - 1601 <= 400 * c + 399
      /\ a \in Int /\ b \in Int /\ c \in Int
  OBVIOUS
<1>2. NewYear(y) = 365 * (y - 1970) + a - b + c
  BY DEF NewYear
<1> HIDE DEF a, b, c
<1>3. 0 <= a - b + c
  BY <1>1
<1>4. a - b + c <= y - 1970
  BY <1>1
<1> QED BY <1>1, <1>2, <1>3, <1>4

LEMMA Later ==
  ASSUME NEW y \in Int, NEW z \in Int, y <= z
  PROVE  NewYear(y) + 365 * (z - y) - 1 <= NewYear(z)
<1> DEFINE a == (y - 1969) \div 4
           b == (y - 1901) \div 100
           c == (y - 1601) \div 400
           a1 == (z - 1969) \div 4
           b1 == (z - 1901) \div 100
           c1 == (z - 1601) \div 400
<1>1. /\ 4 * a <= y - 1969 /\ y - 1969 <= 4 * a + 3
      /\ 100 * b <= y - 1901 /\ y - 1901 <= 100 * b + 99
      /\ 400 * c <= y - 1601 /\ y - 1601 <= 400 * c + 399
      /\ a \in Int /\ b \in Int /\ c \in Int
  OBVIOUS
<1>2. /\ 4 * a1 <= z - 1969 /\ z - 1969 <= 4 * a1 + 3
      /\ 100 * b1 <= z - 1901 /\ z - 1901 <= 100 * b1 + 99
      /\ 400 * c1 <= z - 1601 /\ z - 1601 <= 400 * c1 + 399
      /\ a1 \in Int /\ b1 \in Int /\ c1 \in Int
  OBVIOUS
<1>3. /\ NewYear(y) = 365 * (y - 1970) + a - b + c
      /\ NewYear(z) = 365 * (z - 1970) + a1 - b1 + c1
  BY DEF NewYear
<1> HIDE DEF a, b, c, a1, b1, c1
<1> QED BY <1>1, <1>2, <1>3

YearsKnown == 1970 .. 2250

LEMMA DaysToYearIs ==
  \A y \in YearsKnown : DaysToYear[y] = NewYear(y)
<1> DEFINE e(g, y) == IF y = 1970 THEN 0 ELSE g[y - 1] + days_per_year(y - 1)
           Good(g) == g = [y \in YearsKnown |-> e(g, y)]
           f == [y \in YearsKnown |-> NewYear(y)]
<1>1. ASSUME NEW y \in YearsKnown PROVE NewYear(y) = e(f, y)
  <2>1. CASE y = 1970
    BY <2>1 DEF NewYear
  <2>2. CASE y # 1970
    <3>1. y - 1 \in Int /\ y - 1 \in YearsKnown /\ (y - 1) + 1 = y
      BY <2>2 DEF YearsKnown
    <3>2. NewYear((y - 1) + 1) = NewYear(y - 1) + days_per_year(y - 1)
      BY <3>1, Leap
    <3>3. f[y - 1] = NewYear(y - 1)
      BY <3>1
    <3> HIDE DEF f
    <3> QED BY <2>2, <3>1, <3>2, <3>3
  <2> QED BY <2>1, <2>2
<1>2. Good(f)
  <2> DEFINE h == f
  <2>1. \A y \in YearsKnown : NewYear(y) = e(h, y)
    BY <1>1
  <2> HIDE DEF h, e
  <2>2. f = [y \in YearsKnown |-> e(h, y)]
    BY <2>1
  <2> QED BY <2>2 DEF h
<1>3. DaysToYear = CHOOSE g : Good(g)
  BY Zenon DEF DaysToYear, YearsKnown, UNIX_EPOCH_YEAR
<1>4. Good(DaysToYear)
  <2> HIDE DEF Good
  <2> QED BY <1>2, <1>3, Zenon
<1> DEFINE g == DaysToYear
<1>5. ASSUME NEW y \in YearsKnown PROVE g[y] = e(g, y)
  <2> HIDE DEF e
  <2>1. g = [z \in YearsKnown |-> e(g, z)]
    BY <1>4
  <2> HIDE DEF g
  <2> QED BY <2>1
<1> HIDE DEF g
<1> DEFINE T == {n \in Nat : 1970 + n \in YearsKnown => g[1970 + n] = NewYear(1970 + n)}
<1>6. 0 \in T
  <2>1. 1970 \in YearsKnown
    BY DEF YearsKnown
  <2> QED BY <1>5, <2>1 DEF NewYear
<1>7. ASSUME NEW n \in T PROVE n + 1 \in T
  <2>1. n \in Nat /\ n + 1 \in Nat
    OBVIOUS
  <2> SUFFICES ASSUME 1970 + (n + 1) \in YearsKnown
               PROVE  g[1970 + (n + 1)] = NewYear(1970 + (n + 1))
    BY <2>1
  <2> DEFINE y == 1970 + n
  <2>2. y \in YearsKnown /\ y \in Int /\ y + 1 = 1970 + (n + 1) /\ y + 1 # 1970
        /\ (y + 1) - 1 = y
    BY <2>1 DEF YearsKnown
  <2>3. g[y] = NewYear(y)
    BY <2>1, <2>2
  <2> HIDE DEF y
  <2>4. g[y + 1] = g[y] + days_per_year(y)
    BY <1>5, <2>2
  <2> QED BY <2>2, <2>3, <2>4, Leap
<1> HIDE DEF T
<1>8. T = Nat
  <2>1. T \in SUBSET Nat
    BY DEF T
  <2> QED BY <1>6, <1>7, <2>1, Induction
<1>9. ASSUME NEW y \in YearsKnown PROVE g[y] = NewYear(y)
  <2>1. y - 1970 \in T /\ 1970 + (y - 1970) = y
    BY <1>8 DEF YearsKnown
  <2> QED BY <2>1 DEF T
<1> QED BY <1>9 DEF g

\* The days of a year before its months
MonthStart(m, leap) ==
  LET l == IF leap THEN 1 ELSE 0
  IN  CASE m <= 1 -> 0      [] m = 2 -> 31       [] m = 3 -> 59 + l
        [] m = 4 -> 90 + l  [] m = 5 -> 120 + l  [] m = 6 -> 151 + l
        [] m = 7 -> 181 + l [] m = 8 -> 212 + l  [] m = 9 -> 243 + l
        [] m = 10 -> 273 + l [] m = 11 -> 304 + l [] m = 12 -> 334 + l
        [] OTHER -> 365 + l

LEMMA NextMonth ==
  ASSUME NEW leap \in BOOLEAN, NEW m \in 1 .. 15
  PROVE  MonthStart(m + 1, leap) = MonthStart(m, leap) + days_per_month(m, leap)
<1>1. CASE leap
  BY <1>1 DEF MonthStart, days_per_month
<1>2. CASE ~ leap
  BY <1>2 DEF MonthStart, days_per_month
<1> QED BY <1>1, <1>2

LEMMA DaysToMonthIs ==
  ASSUME NEW leap \in BOOLEAN, NEW month \in 1 .. 12
  PROVE  DaysToMonth(month, leap) = MonthStart(month, leap)
<1> DEFINE e(g, m) == IF m <= 1 THEN 0 ELSE g[m - 1] + days_per_month(m - 1, leap)
           Good(g) == g = [m \in 0 .. 15 |-> e(g, m)]
           f == [m \in 0 .. 15 |-> MonthStart(m, leap)]
<1>1. ASSUME NEW m \in 0 .. 15 PROVE MonthStart(m, leap) = e(f, m)
  <2>1. CASE m <= 1
    BY <2>1 DEF MonthStart
  <2>2. CASE ~ (m <= 1)
    <3>1. m - 1 \in 1 .. 15 /\ m - 1 \in 0 .. 15 /\ (m - 1) + 1 = m
      BY <2>2
    <3>2. MonthStart((m - 1) + 1, leap) = MonthStart(m - 1, leap) + days_per_month(m - 1, leap)
      BY <3>1, NextMonth
    <3>3. f[m - 1] = MonthStart(m - 1, leap)
      BY <3>1
    <3> HIDE DEF f
    <3> QED BY <2>2, <3>1, <3>2, <3>3
  <2> QED BY <2>1, <2>2
<1>2. Good(f)
  <2> DEFINE h == f
  <2>1. \A m \in 0 .. 15 : MonthStart(m, leap) = e(h, m)
    BY <1>1
  <2> HIDE DEF h, e
  <2>2. f = [m \in 0 .. 15 |-> e(h, m)]
    BY <2>1
  <2> QED BY <2>2 DEF h
<1> DEFINE g == CHOOSE g : Good(g)
<1>3. DaysToMonth(month, leap) = g[month]
  BY Zenon DEF DaysToMonth
<1>4. Good(g)
  <2> HIDE DEF Good
  <2> QED BY <1>2, Zenon
<1>5. ASSUME NEW m \in 0 .. 15 PROVE g[m] = e(g, m)
  <2> DEFINE k == g
  <2> HIDE DEF e
  <2>1. k = [z \in 0 .. 15 |-> e(k, z)]
    BY <1>4
  <2> HIDE DEF k
  <2>2. k[m] = e(k, m)
    BY <2>1
  <2> QED BY <2>2 DEF k
<1> HIDE DEF g
<1> DEFINE T == {n \in Nat : n \in 0 .. 15 => g[n] = MonthStart(n, leap)}
<1>6. 0 \in T
  BY <1>5 DEF MonthStart
<1>7. ASSUME NEW n \in T PROVE n + 1 \in T
  <2>1. n \in Nat /\ n + 1 \in Nat
    OBVIOUS
  <2> SUFFICES ASSUME n + 1 \in 0 .. 15 PROVE g[n + 1] = MonthStart(n + 1, leap)
    BY <2>1
  <2>2. n \in 0 .. 15 /\ (n + 1) - 1 = n
    BY <2>1
  <2>3. g[n] = MonthStart(n, leap)
    BY <2>2
  <2>4. CASE n = 0
    <3>1. g[1] = 0
      BY <1>5
    <3> QED BY <2>4, <3>1 DEF MonthStart
  <2>5. CASE n # 0
    <3>1. g[n + 1] = g[n] + days_per_month(n, leap)
      BY <1>5, <2>1, <2>2, <2>5
    <3>2. n \in 1 .. 15
      BY <2>2, <2>5
    <3> QED BY <2>3, <3>1, <3>2, NextMonth
  <2> QED BY <2>4, <2>5
<1> HIDE DEF T
<1>8. T = Nat
  <2>1. T \in SUBSET Nat
    BY DEF T
  <2> QED BY <1>6, <1>7, <2>1, Induction
<1>9. month \in T
  BY <1>8
<1>10. g[month] = MonthStart(month, leap)
  BY <1>9 DEF T
<1> QED BY <1>3, <1>10

-----------------------------------------------------------------------------
(* The calendar *)

\* date is a date, and day counts the days up to it.
OnCalendar ==
  /\ date \in [year : Int, month : 1 .. 12, day : Int]
  /\ 1970 <= date.year /\ date.year <= 2201 /\ 1 <= date.day
  /\ date.day <= days_per_month(date.month, is_leap_year(date.year))
  /\ day = NewYear(date.year) + MonthStart(date.month, is_leap_year(date.year))
             + date.day - 1

LEMMA LeapIs ==
  ASSUME NEW y \in Int
  PROVE  /\ is_leap_year(y) \in BOOLEAN
         /\ is_leap_year(y) <=> y % 4 = 0 /\ ~ (y % 100 = 0 /\ y % 400 # 0)
<1>1. (y % 400 = 0 => y % 100 = 0) /\ (y % 100 = 0 => y % 4 = 0)
  OBVIOUS
<1> QED BY <1>1 DEF is_leap_year

LEMMA LastOfMonthIs ==
  ASSUME OnCalendar
  PROVE  LastOfMonth(date) <=>
           date.day = days_per_month(date.month, is_leap_year(date.year))
<1>1. /\ date.year \in Int /\ date.month \in 1 .. 12 /\ date.day \in Int
  BY DEF OnCalendar
<1> DEFINE l == is_leap_year(date.year)
<1>2. /\ l \in BOOLEAN
      /\ l <=> date.year % 4 = 0 /\ ~ (date.year % 100 = 0 /\ date.year % 400 # 0)
  BY <1>1, LeapIs
<1> HIDE DEF l
<1>3. CASE date.month = 2
  <2>1. LastOfMonth(date) <=> date.day = IF l THEN 29 ELSE 28
    BY <1>2, <1>3 DEF LastOfMonth
  <2>2. days_per_month(date.month, l) = IF l THEN 29 ELSE 28
    BY <1>3 DEF days_per_month
  <2> QED BY <2>1, <2>2 DEF l
<1>4. CASE date.month # 2
  <2>1. LastOfMonth(date) <=> date.day = IF date.month \in {4, 6, 9, 11} THEN 30 ELSE 31
    BY <1>1, <1>4 DEF LastOfMonth
  <2>2. days_per_month(date.month, l) = IF date.month \in {4, 6, 9, 11} THEN 30 ELSE 31
    BY <1>1, <1>4 DEF days_per_month
  <2> QED BY <2>1, <2>2 DEF l
<1> QED BY <1>3, <1>4

LEMMA MonthFacts ==
  ASSUME NEW leap \in BOOLEAN, NEW m \in 1 .. 12
  PROVE  /\ days_per_month(m, leap) \in 28 .. 31 /\ MonthStart(m, leap) \in Nat
         /\ MonthStart(m, leap) + days_per_month(m, leap) <= 366
         /\ days_per_month(1, leap) = 31 /\ MonthStart(1, leap) = 0
<1>1. CASE leap
  BY <1>1 DEF MonthStart, days_per_month
<1>2. CASE ~ leap
  BY <1>2 DEF MonthStart, days_per_month
<1> QED BY <1>1, <1>2

LEMMA YearFacts ==
  ASSUME NEW y \in Int
  PROVE  /\ NewYear(y) \in Int /\ days_per_year(y) \in Int
         /\ is_leap_year(y) \in BOOLEAN
         /\ days_per_month(12, is_leap_year(y)) = 31
         /\ MonthStart(12, is_leap_year(y)) + 31 = days_per_year(y)
<1> DEFINE l == is_leap_year(y)
<1>1. l \in BOOLEAN
  BY LeapIs
<1>2. NewYear(y) \in Int
  BY DEF NewYear
<1>3. days_per_year(y) = IF l THEN 366 ELSE 365
  BY DEF days_per_year
<1> HIDE DEF l
<1>4. days_per_month(12, l) = 31
  BY DEF days_per_month
<1>5. MonthStart(12, l) = 334 + (IF l THEN 1 ELSE 0)
  BY DEF MonthStart
<1>6. MonthStart(12, l) + 31 = days_per_year(y) /\ days_per_year(y) \in Int
  <2>1. CASE l
    <3>1. days_per_year(y) = 366 /\ MonthStart(12, l) = 334 + 1
      BY <1>3, <1>5, <2>1, Zenon
    <3> QED BY <3>1
  <2>2. CASE ~ l
    <3>1. days_per_year(y) = 365 /\ MonthStart(12, l) = 334 + 0
      BY <1>3, <1>5, <2>2, Zenon
    <3> QED BY <3>1
  <2> QED BY <2>1, <2>2
<1> QED BY <1>1, <1>2, <1>4, <1>6 DEF l

LEMMA ParametersAre ==
  /\ \A y \in Years : y \in Int /\ 1970 <= y /\ y <= 2200
  /\ \A u \in Units : u \in Int /\ 0 <= u /\ u < PerDay
  /\ \A z \in Zones : z \in Int
<1>1. \A y \in Years : y \in Int /\ 1970 <= y /\ y <= 2200
  BY DosTimeAssumption, SMT DEF DosTimeAssumption
<1>2. \A u \in Units : u \in Int /\ 0 <= u /\ u < PerDay
  <2>1. PerDay \in Int
    BY DEF PerDay
  <2> QED BY <2>1, DosTimeAssumption, SMT DEF DosTimeAssumption
<1>3. \A z \in Zones : z \in Int
  BY DosTimeAssumption, SMT DEF DosTimeAssumption
<1> QED BY <1>1, <1>2, <1>3

LEMMA TomorrowOnCalendar ==
  ASSUME OnCalendar, NextDay
  PROVE  OnCalendar'
<1>1. PICK y \in Int, m \in 1 .. 12, d \in Int :
        date = [year |-> y, month |-> m, day |-> d]
  BY DEF OnCalendar
<1> DEFINE l == is_leap_year(y)
           size == days_per_month(m, l)
           start == MonthStart(m, l)
<1>2. date.year = y /\ date.month = m /\ date.day = d
  BY <1>1
<1>3. d <= size /\ day = NewYear(y) + start + d - 1 /\ 1970 <= y /\ 1 <= d
  BY <1>2 DEF OnCalendar
<1>4. LastOfMonth(date) <=> d = size
  BY <1>2, LastOfMonthIs
<1>5. l \in BOOLEAN /\ NewYear(y) \in Int /\ days_per_year(y) \in Int
  BY YearFacts
<1>6. size \in Int /\ size >= 28 /\ start \in Nat
  BY <1>5, MonthFacts
<1>7. day' = day + 1 /\ Tomorrow
  BY DEF NextDay
<1>a. y <= 2200
  <2>1. y \in Years
    BY <1>2 DEF NextDay
  <2> QED BY <2>1, ParametersAre
<1>8. CASE ~ LastOfMonth(date)
  <2>1. date' = [year |-> y, month |-> m, day |-> d + 1]
    BY <1>1, <1>7, <1>8 DEF Tomorrow
  <2> HIDE DEF l, size, start
  <2>2. d + 1 <= size /\ d + 1 \in Int /\ 1 <= d + 1 /\ y <= 2201
    BY <1>3, <1>4, <1>6, <1>8, <1>a
  <2>3. day' = NewYear(y) + start + (d + 1) - 1
    BY <1>3, <1>5, <1>6, <1>7
  <2>4. date'.year = y /\ date'.month = m /\ date'.day = d + 1
    BY <2>1
  <2>5. date' \in [year : Int, month : 1 .. 12, day : Int]
    BY <2>1, <2>2
  <2> QED BY <1>3, <2>2, <2>3, <2>4, <2>5 DEF OnCalendar, l, size, start
<1>9. CASE LastOfMonth(date) /\ m < 12
  <2>1. date' = [year |-> y, month |-> m + 1, day |-> 1]
    <3>1. m # 12
      BY <1>9
    <3>2. date' = [date EXCEPT !.month = @ + 1, !.day = 1]
      BY <1>2, <1>7, <1>9, <3>1 DEF Tomorrow
    <3> QED BY <1>1, <3>2
  <2>2. MonthStart(m + 1, l) = start + size
    BY <1>5, NextMonth
  <2>3. m + 1 \in 1 .. 12
    BY <1>9
  <2> DEFINE next == MonthStart(m + 1, l)
             longer == days_per_month(m + 1, l)
  <2>4. next = start + size /\ longer \in 28 .. 31
    BY <1>5, <2>2, <2>3, MonthFacts
  <2> HIDE DEF l, size, start, next, longer
  <2>5. day' = NewYear(y) + next + 1 - 1
    BY <1>3, <1>4, <1>5, <1>6, <1>7, <1>9, <2>4
  <2>6. 1 <= longer /\ y <= 2201
    BY <1>a, <2>4
  <2>7. date'.year = y /\ date'.month = m + 1 /\ date'.day = 1
    BY <2>1
  <2>8. date' \in [year : Int, month : 1 .. 12, day : Int]
    BY <2>1, <2>3
  <2> QED BY <1>3, <2>5, <2>6, <2>7, <2>8 DEF OnCalendar, l, next, longer
<1>10. CASE LastOfMonth(date) /\ m = 12
  <2>1. date' = [year |-> y + 1, month |-> 1, day |-> 1]
    BY <1>1, <1>7, <1>10 DEF Tomorrow
  <2>2. size = 31 /\ start + 31 = days_per_year(y)
    BY <1>10, YearFacts
  <2>3. NewYear(y + 1) = NewYear(y) + days_per_year(y)
    BY Leap
  <2> DEFINE k == is_leap_year(y + 1)
             next == MonthStart(1, k)
             longer == days_per_month(1, k)
  <2>4. next = 0 /\ longer = 31
    <3>1. y + 1 \in Int
      OBVIOUS
    <3>2. k \in BOOLEAN
      BY <3>1, YearFacts
    <3> HIDE DEF k
    <3> QED BY <3>2 DEF MonthStart, days_per_month
  <2> HIDE DEF l, size, start, next, longer, k
  <2>5. day' = NewYear(y + 1) + next + 1 - 1
    BY <1>3, <1>4, <1>5, <1>6, <1>7, <1>10, <2>2, <2>3, <2>4
  <2>6. 1 <= longer /\ 1970 <= y + 1 /\ y + 1 <= 2201
    BY <1>3, <1>a, <2>4
  <2>7. date'.year = y + 1 /\ date'.month = 1 /\ date'.day = 1
    BY <2>1
  <2>8. date' \in [year : Int, month : 1 .. 12, day : Int]
    BY <2>1
  <2> QED BY <2>5, <2>6, <2>7, <2>8 DEF OnCalendar, k, next, longer
<1> QED BY <1>8, <1>9, <1>10

LEMMA AlwaysOnCalendar == Calendar => []OnCalendar
<1>1. NewYears => OnCalendar
  <2> SUFFICES ASSUME NEW y \in Years, day = NewYear(y),
                      date = [year |-> y, month |-> 1, day |-> 1]
               PROVE  OnCalendar
    BY DEF NewYears
  <2>1. y \in Int /\ 1970 <= y /\ y <= 2201
    BY ParametersAre
  <2>2. is_leap_year(y) \in BOOLEAN /\ NewYear(y) \in Int
    BY <2>1, LeapIs, Years365
  <2>3. MonthStart(1, is_leap_year(y)) = 0 /\ 1 <= days_per_month(1, is_leap_year(y))
    BY <2>2 DEF MonthStart, days_per_month
  <2>4. day = NewYear(y) + MonthStart(1, is_leap_year(y)) + 1 - 1
    BY <2>2, <2>3
  <2>5. date.year = y /\ date.month = 1 /\ date.day = 1
    OBVIOUS
  <2>6. date \in [year : Int, month : 1 .. 12, day : Int]
    BY <2>1
  <2> QED BY <2>1, <2>3, <2>4, <2>5, <2>6 DEF OnCalendar
<1>2. OnCalendar /\ [NextDay]_datevars => OnCalendar'
  <2>1. CASE UNCHANGED datevars
    BY <2>1 DEF datevars, OnCalendar
  <2>2. CASE OnCalendar /\ NextDay
    BY <2>2, TomorrowOnCalendar
  <2> QED BY <2>1, <2>2
<1> QED BY <1>1, <1>2, PTL DEF Calendar

-----------------------------------------------------------------------------
(* Counts *)

\* A zone is at most two days away; POSIX allows TZ about one.
Near(z) == -2 * PerDay <= z /\ z <= 2 * PerDay

ZonesAreNear == \A z \in Zones : Near(z)

LEMMA CountIs ==
  ASSUME NEW d \in Int, NEW u \in Int
  PROVE  /\ Count(d, u).day \in Int /\ Count(d, u).unit \in 0 .. PerDay - 1
         /\ Count(d, u).day = d + u \div PerDay /\ Count(d, u).unit = u % PerDay
         /\ Count(d, u).day * PerDay + Count(d, u).unit = d * PerDay + u
  BY DEF Count, PerDay

\* Counts are the same when they are the same number.
LEMMA SameCount ==
  ASSUME NEW d \in Int, NEW u \in Int, NEW e \in Int, NEW v \in Int,
         d * PerDay + u = e * PerDay + v
  PROVE  Count(d, u) = Count(e, v)
<1> DEFINE P == 43200
<1>1. u = v + P * (e - d)
  BY DEF PerDay
<1>2. u \div P = (v \div P) + (e - d) /\ u % P = v % P
  BY <1>1
<1>3. d + u \div P = e + v \div P
  BY <1>2
<1> QED BY <1>2, <1>3 DEF Count, PerDay

LEMMA AddIs ==
  ASSUME NEW d \in Int, NEW u \in Int, NEW n \in Int
  PROVE  Add(Count(d, u), n) = Count(d, u + n)
<1> DEFINE t == Count(d, u)
<1>1. t.day \in Int /\ t.unit \in Int /\ t.day * PerDay + t.unit = d * PerDay + u
  BY CountIs
<1>2. Add(t, n) = Count(t.day, t.unit + n)
  BY DEF Add
<1> HIDE DEF t
<1>3. t.day * PerDay + (t.unit + n) = d * PerDay + (u + n)
  BY <1>1 DEF PerDay
<1>4. Count(t.day, t.unit + n) = Count(d, u + n)
  BY <1>1, <1>3, SameCount
<1> QED BY <1>2, <1>4 DEF t

-----------------------------------------------------------------------------
(* To DOS *)

\* The year and the month that the code searches for
YearOf(n) ==
  CHOOSE y \in UNIX_EPOCH_YEAR + n \div 366 .. UNIX_EPOCH_YEAR + n \div 365 :
    /\ DaysToYear[y] <= n
    /\ n < DaysToYear[y] + days_per_year(y)

MonthOf(rest, leap) ==
  CHOOSE m \in 1 .. 12 :
    /\ DaysToMonth(m, leap) <= rest
    /\ rest < DaysToMonth(m, leap) + days_per_month(m, leap)

LEMMA YearOfIs ==
  ASSUME NEW y \in Int, 1970 <= y, y <= 2201, NEW n \in Int,
         NewYear(y) <= n, n < NewYear(y) + days_per_year(y)
  PROVE  YearOf(n) = y
<1> DEFINE first == UNIX_EPOCH_YEAR + n \div 366
           last == UNIX_EPOCH_YEAR + n \div 365
           Is(z) == DaysToYear[z] <= n /\ n < DaysToYear[z] + days_per_year(z)
<1>1. /\ 365 * (y - 1970) <= n /\ n < 366 * ((y + 1) - 1970)
      /\ n < 366 * 232
  <2>1. NewYear(y + 1) = NewYear(y) + days_per_year(y)
    BY Leap
  <2>2. NewYear(y + 1) <= 366 * ((y + 1) - 1970) /\ 365 * (y - 1970) <= NewYear(y)
    BY Years365
  <2>3. n < 366 * ((y + 1) - 1970) /\ 365 * (y - 1970) <= n
    BY <2>1, <2>2, YearFacts
  <2> QED BY <2>3
<1>2. /\ first \in Int /\ last \in Int /\ first <= y /\ y <= last
      /\ 1970 <= first /\ last <= 2250
  BY <1>1 DEF UNIX_EPOCH_YEAR
<1>3. \A z \in first .. last : z \in YearsKnown /\ z \in Int
  <2> HIDE DEF first, last
  <2> QED BY <1>2 DEF YearsKnown
<1>4. y \in first .. last
  <2> HIDE DEF first, last
  <2> QED BY <1>2
<1>5. Is(y)
  BY <1>3, <1>4, DaysToYearIs
<1>6. ASSUME NEW z \in first .. last, Is(z) PROVE z = y
  <2>1. z \in Int /\ NewYear(z) <= n /\ n < NewYear(z) + days_per_year(z)
    BY <1>3, <1>6, DaysToYearIs
  <2>2. /\ NewYear(z + 1) = NewYear(z) + days_per_year(z)
        /\ NewYear(y + 1) = NewYear(y) + days_per_year(y)
    BY <2>1, Leap
  <2>3. NewYear(z + 1) \in Int /\ NewYear(y + 1) \in Int /\ NewYear(y) \in Int /\ NewYear(z) \in Int
    BY <2>1, YearFacts
  <2>4. CASE z < y
    <3>1. NewYear(z + 1) + 365 * (y - (z + 1)) - 1 <= NewYear(y)
      BY <2>1, <2>4, Later
    <3>2. NewYear(z + 1) <= NewYear(y)
      <4>1. CASE z + 1 = y
        BY <2>3, <4>1
      <4>2. CASE z + 1 # y
        <5>1. y - (z + 1) >= 1
          BY <2>1, <2>4, <4>2
        <5> QED BY <2>1, <2>3, <3>1, <5>1
      <4> QED BY <4>1, <4>2
    <3> QED BY <2>1, <2>2, <2>3, <3>2
  <2>5. CASE y < z
    <3>1. NewYear(y + 1) + 365 * (z - (y + 1)) - 1 <= NewYear(z)
      BY <2>1, <2>5, Later
    <3>2. NewYear(y + 1) <= NewYear(z)
      <4>1. CASE y + 1 = z
        BY <2>3, <4>1
      <4>2. CASE y + 1 # z
        <5>1. z - (y + 1) >= 1
          BY <2>1, <2>5, <4>2
        <5> QED BY <2>1, <2>3, <3>1, <5>1
      <4> QED BY <4>1, <4>2
    <3> QED BY <2>1, <2>2, <2>3, <3>2
  <2> QED BY <2>1, <2>4, <2>5
<1>7. YearOf(n) = CHOOSE z \in first .. last : Is(z)
  BY DEF YearOf
<1> HIDE DEF first, last, Is
<1> QED BY <1>4, <1>5, <1>6, <1>7

LEMMA MonthOfIs ==
  ASSUME NEW leap \in BOOLEAN, NEW m \in 1 .. 12, NEW rest \in Int,
         MonthStart(m, leap) <= rest,
         rest < MonthStart(m, leap) + days_per_month(m, leap)
  PROVE  MonthOf(rest, leap) = m
<1> DEFINE Is(k) == /\ DaysToMonth(k, leap) <= rest
                    /\ rest < DaysToMonth(k, leap) + days_per_month(k, leap)
<1>1. Is(m)
  BY DaysToMonthIs
<1>2. ASSUME NEW k \in 1 .. 12, Is(k) PROVE k = m
  <2>1. MonthStart(k, leap) <= rest /\ rest < MonthStart(k, leap) + days_per_month(k, leap)
    BY <1>2, DaysToMonthIs
  <2>2. CASE leap
    BY <2>1, <2>2 DEF MonthStart, days_per_month
  <2>3. CASE ~ leap
    BY <2>1, <2>3 DEF MonthStart, days_per_month
  <2> QED BY <2>2, <2>3
<1>3. MonthOf(rest, leap) = CHOOSE k \in 1 .. 12 : Is(k)
  BY DEF MonthOf
<1> HIDE DEF Is
<1> QED BY <1>1, <1>2, <1>3

\* The years that the bits of DOS can say
InSevenBits == date.year <= 2107

\* What timestampns_to_dos_time makes of a local day and time
DosDate(n, u) ==
  LET rest == n - DaysToYear[YearOf(n)]
      leap == is_leap_year(YearOf(n))
      month == MonthOf(rest, leap)
  IN  [year |-> IF YearOf(n) < DOS_EPOCH_YEAR THEN 0
                ELSE (YearOf(n) - DOS_EPOCH_YEAR) % 128,
       month |-> month,
       day |-> 1 + rest - DaysToMonth(month, leap),
       hours |-> u \div 1800,
       minutes |-> (u \div 30) % 60,
       seconds2 |-> u % 30]

LEMMA ToDosGives ==
  ASSUME NEW t, NEW tz
  PROVE  ToDos(t, tz) = DosDate(Local(t, tz).day, Local(t, tz).unit)
BY Zenon DEF ToDos, DosDate, YearOf, MonthOf

\* The year, month and day are found again.
LEMMA DosDateIs ==
  ASSUME OnCalendar, InSevenBits, NEW u \in Int, 0 <= u
  PROVE  DosDate(day, u) =
           [year |-> IF date.year < DOS_EPOCH_YEAR THEN 0
                     ELSE date.year - DOS_EPOCH_YEAR,
            month |-> date.month, day |-> date.day,
            hours |-> u \div 1800, minutes |-> (u % 1800) \div 30,
            seconds2 |-> u % 30]
<1> DEFINE y == date.year
           m == date.month
           d == date.day
           l == is_leap_year(y)
           start == MonthStart(m, l)
           size == days_per_month(m, l)
<1>1. /\ y \in Int /\ m \in 1 .. 12 /\ d \in Int /\ 1970 <= y /\ y <= 2107
      /\ 1 <= d /\ d <= size /\ day = NewYear(y) + start + d - 1
  BY DEF OnCalendar, InSevenBits
<1>2. /\ l \in BOOLEAN /\ NewYear(y) \in Int /\ days_per_year(y) \in Int
      /\ MonthStart(12, l) + 31 = days_per_year(y)
  BY <1>1, YearFacts
<1>3. start \in Nat /\ size \in Int /\ start + size <= days_per_year(y)
  <2> HIDE DEF y, m, l
  <2>1. CASE l
    <3>1. days_per_year(y) = 366
      BY <2>1 DEF l, days_per_year
    <3> QED BY <1>1, <2>1, <3>1 DEF MonthStart, days_per_month
  <2>2. CASE ~ l
    <3>1. days_per_year(y) = 365
      BY <2>2 DEF l, days_per_year
    <3> QED BY <1>1, <2>2, <3>1 DEF MonthStart, days_per_month
  <2> QED BY <1>2, <2>1, <2>2
<1>4. DaysToYear[y] = NewYear(y) /\ DaysToMonth(m, l) = start
  <2>1. y \in YearsKnown
    BY <1>1 DEF YearsKnown
  <2> QED BY <1>1, <1>2, <2>1, DaysToYearIs, DaysToMonthIs
<1> HIDE DEF y, m, d, l, start, size
<1>5. YearOf(day) = y
  <2>1. /\ day \in Int /\ NewYear(y) <= day /\ day < NewYear(y) + days_per_year(y)
    BY <1>1, <1>2, <1>3
  <2>2. y <= 2201
    BY <1>1
  <2> QED BY <1>1, <2>1, <2>2, YearOfIs
<1>6. day - NewYear(y) = start + d - 1
  BY <1>1, <1>2, <1>3
<1>7. MonthOf(start + d - 1, l) = m
  <2>1. start + d - 1 \in Int /\ start <= start + d - 1 /\ start + d - 1 < start + size
    BY <1>1, <1>3
  <2> QED BY <1>1, <1>2, <2>1, MonthOfIs DEF start, size
<1>8. 1 + (start + d - 1) - start = d
  BY <1>1, <1>3
<1>9. y >= DOS_EPOCH_YEAR => (y - DOS_EPOCH_YEAR) % 128 = y - DOS_EPOCH_YEAR
  BY <1>1 DEF DOS_EPOCH_YEAR
<1>10. (u \div 30) % 60 = (u % 1800) \div 30
  OBVIOUS
<1> DEFINE early == y < DOS_EPOCH_YEAR
           years == y - DOS_EPOCH_YEAR
           bits == (y - DOS_EPOCH_YEAR) % 128
           minute == (u \div 30) % 60
<1>11. DosDate(day, u) =
         [year |-> IF early THEN 0 ELSE bits,
          month |-> m, day |-> d, hours |-> u \div 1800,
          minutes |-> minute, seconds2 |-> u % 30]
  <2>1. l = is_leap_year(y)
    BY DEF l
  <2>2. /\ day - DaysToYear[YearOf(day)] = start + d - 1
        /\ is_leap_year(YearOf(day)) = l
    BY <1>4, <1>5, <1>6, <2>1
  <2>3. 1 + (day - DaysToYear[YearOf(day)])
          - DaysToMonth(MonthOf(day - DaysToYear[YearOf(day)],
                                is_leap_year(YearOf(day))),
                        is_leap_year(YearOf(day))) = d
    BY <1>4, <1>7, <1>8, <2>2
  <2>4. MonthOf(day - DaysToYear[YearOf(day)], is_leap_year(YearOf(day))) = m
    BY <1>7, <2>2
  <2> DEFINE rest == day - DaysToYear[YearOf(day)]
             leap == is_leap_year(YearOf(day))
             month == MonthOf(rest, leap)
             of == 1 + rest - DaysToMonth(month, leap)
             a == YearOf(day) < DOS_EPOCH_YEAR
             b == (YearOf(day) - DOS_EPOCH_YEAR) % 128
  <2>5. DosDate(day, u) = [year |-> IF a THEN 0 ELSE b, month |-> month, day |-> of,
                         hours |-> u \div 1800, minutes |-> minute,
                         seconds2 |-> u % 30]
    BY DEF DosDate
  <2>6. of = d /\ month = m
    BY <2>3, <2>4
  <2>7. (a <=> early) /\ b = bits
    BY <1>5
  <2> HIDE DEF rest, leap, month, of, a, b, early, bits, minute
  <2> QED BY <2>5, <2>6, <2>7
<1>12. (IF early THEN 0 ELSE bits) = IF early THEN 0 ELSE years
  <2>1. DOS_EPOCH_YEAR \in Int
    BY DEF DOS_EPOCH_YEAR
  <2>2. ~ early => bits = years
    BY <1>1, <1>9, <2>1
  <2> HIDE DEF early, bits, years
  <2> QED BY <2>2
<1>13. minute = (u % 1800) \div 30
  BY <1>10
<1>14. DosDate(day, u) =
         [year |-> IF early THEN 0 ELSE years,
          month |-> m, day |-> d, hours |-> u \div 1800,
          minutes |-> (u % 1800) \div 30, seconds2 |-> u % 30]
  <2> HIDE DEF early, bits, years, minute
  <2> QED BY <1>11, <1>12, <1>13
<1> QED BY <1>14 DEF y, m, d

\* A file of a day and a time there, as the host keeps it and as it is here
LEMMA LocalIs ==
  ASSUME OnCalendar, NEW u \in Int, 0 <= u, u < PerDay, NEW z \in Int
  PROVE  /\ day \in Int /\ day >= 0
         /\ Count(day, u) = [day |-> day, unit |-> u]
         /\ Local(Count(day, u + z), z) = [day |-> day, unit |-> u]
<1>1. day \in Int /\ day >= 0
  <2>1. /\ date.year \in Int /\ date.month \in 1 .. 12 /\ date.day \in Int
        /\ 1970 <= date.year /\ 1 <= date.day
    BY DEF OnCalendar
  <2>2. NewYear(date.year) \in Int /\ 0 <= NewYear(date.year)
    BY <2>1, Years365
  <2>3. MonthStart(date.month, is_leap_year(date.year)) \in Nat
    BY <2>1, LeapIs, MonthFacts
  <2> QED BY <2>1, <2>2, <2>3 DEF OnCalendar
<1>2. Count(day, u) = [day |-> day, unit |-> u]
  <2>1. u \div PerDay = 0 /\ u % PerDay = u
    BY DEF PerDay
  <2>2. day + 0 = day
    BY <1>1
  <2> QED BY <2>1, <2>2 DEF Count
<1>3. Add(Count(day, u + z), -z) = Count(day, u)
  <2>1. u + z \in Int /\ -z \in Int /\ (u + z) + (-z) = u
    OBVIOUS
  <2> QED BY <1>1, <2>1, AddIs
<1>4. Local(Count(day, u + z), z) =
        IF Count(day, u).day < 0
          THEN Count(Count(day, u).day + Bit32.day, Count(day, u).unit + Bit32.unit)
          ELSE Count(day, u)
  BY <1>3, Zenon DEF Local
<1>5. Count(day, u).day = day /\ ~ (day < 0)
  BY <1>1, <1>2
<1> QED BY <1>1, <1>2, <1>4, <1>5, Zenon

\* Before the division overflows, the year fits in the seven bits of DOS.
LEMMA YearFits ==
  ASSUME OnCalendar, NEW u \in Int, 0 <= u, NEW z \in Int, Near(z),
         ~ Faults(Count(day, u + z))
  PROVE  InSevenBits
<1> DEFINE h == Count(day, u + z)
           y == date.year
<1>1. /\ y \in Int /\ date.month \in 1 .. 12 /\ date.day \in Int
      /\ 1970 <= y /\ 1 <= date.day
  BY DEF OnCalendar
<1>2. NewYear(y) \in Int /\ MonthStart(date.month, is_leap_year(y)) \in Nat
  <2>1. NewYear(y) \in Int /\ is_leap_year(y) \in BOOLEAN
    BY <1>1, YearFacts
  <2> QED BY <1>1, <2>1, MonthFacts
<1>3. day \in Int /\ NewYear(y) <= day
  BY <1>1, <1>2 DEF OnCalendar
<1>4. h.day = day + (u + z) \div PerDay
  BY <1>3, CountIs
<1>5. (u + z) \div PerDay \in Int /\ (u + z) \div PerDay >= -2
  BY DEF Near, PerDay
<1>6. Bit31.day = 49710
  BY DEF Bit31, Count, PerDay
<1>7. h.day <= 49710
  <2>1. Before(h, Bit31)
    BY DEF Faults
  <2>2. h.day \in Int
    BY <1>3, <1>4, <1>5
  <2> HIDE DEF h
  <2>3. h.day < Bit31.day \/ h.day = Bit31.day
    BY <2>1 DEF Before
  <2> QED BY <1>6, <2>2, <2>3
<1>8. NewYear(y) <= 49712
  <2> HIDE DEF h, y
  <2> DEFINE n == (u + z) \div PerDay
  <2>1. n \in Int /\ n >= -2 /\ h.day = day + n
    BY <1>4, <1>5
  <2> HIDE DEF n
  <2> QED BY <1>2, <1>3, <1>7, <2>1
<1>9. NewYear(2108) = 50403
  BY DEF NewYear
<1> HIDE DEF y
<1>10. ASSUME y >= 2108 PROVE FALSE
  <2>1. NewYear(2108) + 365 * (y - 2108) - 1 <= NewYear(y)
    BY <1>1, <1>10, Later
  <2> QED BY <1>1, <1>2, <1>8, <1>9, <1>10, <2>1
<1> QED BY <1>1, <1>10 DEF y, InSevenBits

LEMMA TimesAre ==
  ASSUME NEW t \in Times
  PROVE  \E u \in Units, z \in Zones :
           t = [local |-> Count(day, u), zone |-> z, host |-> Count(day, u + z)]
BY DEF Times

\* Files are shown with the date and time that they have, whatever the years, the
\* times of day and the zones, up to two days away.
THEOREM FilesShowTheirDates ==
  ASSUME ZonesAreNear
  PROVE  Calendar => []DatesAreTrue
<1>1. OnCalendar => DatesAreTrue
  <2> SUFFICES ASSUME OnCalendar, NEW t \in Times, ~ Faults(t.host)
               PROVE  ToDos(t.host, t.zone) =
                        [year |-> IF date.year < DOS_EPOCH_YEAR THEN 0
                                  ELSE date.year - DOS_EPOCH_YEAR,
                         month |-> date.month, day |-> date.day,
                         hours |-> t.local.unit \div 1800,
                         minutes |-> (t.local.unit % 1800) \div 30,
                         seconds2 |-> t.local.unit % 30]
    BY Zenon DEF DatesAreTrue
  <2>1. PICK u \in Units, z \in Zones :
          t = [local |-> Count(day, u), zone |-> z, host |-> Count(day, u + z)]
    BY TimesAre
  <2>2. /\ u \in Int /\ 0 <= u /\ u < PerDay /\ z \in Int /\ Near(z)
    BY ParametersAre DEF ZonesAreNear
  <2>3. t.local = Count(day, u) /\ t.zone = z /\ t.host = Count(day, u + z)
    BY <2>1
  <2>a. /\ Count(day, u) = [day |-> day, unit |-> u]
        /\ Local(Count(day, u + z), z) = [day |-> day, unit |-> u]
    BY <2>2, LocalIs, Zenon
  <2>4. t.local.unit = u
    BY <2>3, <2>a
  <2>5. Local(t.host, t.zone).day = day /\ Local(t.host, t.zone).unit = u
    BY <2>3, <2>a
  <2>6. ToDos(t.host, t.zone) = DosDate(day, u)
    BY <2>5, ToDosGives
  <2>7. InSevenBits
    <3>1. ~ Faults(Count(day, u + z))
      BY <2>3
    <3> QED BY <2>2, <3>1, YearFits, Zenon
  <2> QED BY <2>2, <2>4, <2>6, <2>7, DosDateIs
<1> QED BY <1>1, AlwaysOnCalendar, PTL

-----------------------------------------------------------------------------
(* From DOS *)

\* What comes before a count that the host can give is one too.
LEMMA EarlierCounts ==
  ASSUME NEW n \in Int, NEW w \in Int, NEW k \in Nat, Before(Count(n, w), Bit31)
  PROVE  Before(Count(n, w - k), Bit31)
<1> DEFINE c == Count(n, w)
           t == Count(n, w - k)
           b == Bit31
<1>a. PerDay \in Int
  BY DEF PerDay
<1>1. /\ c.day \in Int /\ c.unit \in Int /\ 0 <= c.unit /\ c.unit < PerDay
      /\ c.day * PerDay + c.unit = n * PerDay + w
  <2>1. /\ c.day \in Int /\ c.unit \in 0 .. PerDay - 1
        /\ c.day * PerDay + c.unit = n * PerDay + w
    BY CountIs
  <2> HIDE DEF c
  <2> QED BY <1>a, <2>1
<1>2. /\ t.day \in Int /\ t.unit \in Int /\ 0 <= t.unit /\ t.unit < PerDay
      /\ t.day * PerDay + t.unit = n * PerDay + (w - k)
  <2>1. w - k \in Int
    OBVIOUS
  <2>2. /\ t.day \in Int /\ t.unit \in 0 .. PerDay - 1
        /\ t.day * PerDay + t.unit = n * PerDay + (w - k)
    BY <2>1, CountIs
  <2> HIDE DEF t
  <2> QED BY <1>a, <2>2
<1>3. b.day = 49710 /\ b.unit = 11648
  BY DEF Bit31, Count, PerDay
<1> HIDE DEF c, t, b
<1>4. c.day < b.day \/ (c.day = b.day /\ c.unit < b.unit)
  BY DEF Before, c, b
<1>5. t.day < b.day \/ (t.day = b.day /\ t.unit < b.unit)
  BY <1>1, <1>2, <1>3, <1>4 DEF PerDay
<1> QED BY <1>5 DEF Before, t, b

\* The units since midnight that the code makes of hours, minutes and seconds
UnitsOf(hours, minutes, seconds2) ==
  seconds2 + minutes * 30 + ((hours * 3600) % 65536) \div 2

\* The fields of a time of day are the time again, up to 19 o'clock.
LEMMA UnitsComeBack ==
  ASSUME NEW u \in Int, 0 <= u, u < PerDay
  PROVE  UnitsOf(u \div 1800, (u % 1800) \div 30, u % 30)
           = IF u < 19 * 1800 THEN u ELSE u - 32768
<1> DEFINE h == u \div 1800
           r == u % 1800
<1>1. h \in Int /\ r \in Int /\ u = 1800 * h + r /\ 0 <= r /\ r < 1800
  OBVIOUS
<1>2. 0 <= h /\ h <= 23
  BY DEF PerDay
<1>3. (u % 30) + (r \div 30) * 30 = r
  BY <1>1
<1>4. u < 19 * 1800 <=> h < 19
  BY <1>1
<1> DEFINE v == (u % 30) + (r \div 30) * 30
<1>7. UnitsOf(u \div 1800, (u % 1800) \div 30, u % 30) = v + ((h * 3600) % 65536) \div 2
  BY DEF UnitsOf
<1>8. v = r
  BY <1>3
<1> HIDE DEF h, r, v
<1>5. CASE h < 19
  <2>1. h * 3600 \in Int /\ 0 <= h * 3600 /\ h * 3600 < 65536
    BY <1>1, <1>2, <1>5
  <2>2. (h * 3600) % 65536 = h * 3600
    BY <2>1
  <2>3. ((h * 3600) % 65536) \div 2 = 1800 * h
    BY <1>1, <2>2
  <2> QED BY <1>1, <1>4, <1>5, <1>7, <1>8, <2>3
<1>6. CASE ~ (h < 19)
  <2>1. h * 3600 \in Int /\ 65536 <= h * 3600 /\ h * 3600 < 2 * 65536
    BY <1>1, <1>2, <1>6
  <2>2. (h * 3600) % 65536 = h * 3600 - 65536
    BY <2>1
  <2>3. ((h * 3600) % 65536) \div 2 = 1800 * h - 32768
    BY <1>1, <2>2
  <2> QED BY <1>1, <1>4, <1>6, <1>7, <1>8, <2>3
<1> QED BY <1>5, <1>6

\* What timestampns_from_dos_time makes of this day, at a time of it
LEMMA FromDosIs ==
  ASSUME OnCalendar, InSevenBits, date.year >= DOS_EPOCH_YEAR,
         NEW u \in Int, 0 <= u, u < PerDay, NEW z \in Int,
         NEW f, f.year = date.year - DOS_EPOCH_YEAR, f.month = date.month,
         f.day = date.day, f.hours = u \div 1800,
         f.minutes = (u % 1800) \div 30, f.seconds2 = u % 30
  PROVE  LET v == IF u < 19 * 1800 THEN u ELSE u - 32768
             t == Count(day, v + z)
         IN  FromDos(f, z) =
               IF Before(t, Bit31) THEN t
               ELSE Count(t.day - Bit32.day, t.unit - Bit32.unit)
<1> DEFINE y == date.year
           m == date.month
           d == date.day
           l == is_leap_year(y)
           v == IF u < 19 * 1800 THEN u ELSE u - 32768
<1>1. /\ y \in Int /\ m \in 1 .. 12 /\ d \in Int /\ 1970 <= y /\ y <= 2107
      /\ 1 <= d /\ d <= days_per_month(m, l)
      /\ day = NewYear(y) + MonthStart(m, l) + d - 1
  BY DEF OnCalendar, InSevenBits
<1>2. l \in BOOLEAN /\ NewYear(y) \in Int
  BY <1>1, YearFacts
<1>3. MonthStart(m, l) \in Nat /\ days_per_month(m, l) \in 28 .. 31
  BY <1>1, <1>2, MonthFacts
<1>4. DaysToYear[y] = NewYear(y) /\ DaysToMonth(m, l) = MonthStart(m, l)
  <2>1. y \in YearsKnown
    BY <1>1 DEF YearsKnown
  <2> QED BY <1>1, <1>2, <2>1, DaysToYearIs, DaysToMonthIs
<1> DEFINE year == f.year + DOS_EPOCH_YEAR
           days == DaysToYear[year] + DaysToMonth(f.month, is_leap_year(year))
                     + ((f.day - 1) % 65536)
           units == f.seconds2 + f.minutes * 30 + ((f.hours * 3600) % 65536) \div 2
           t == Add(Count(days, units), z)
<1>5. FromDos(f, z) = IF Before(t, Bit31) THEN t
                      ELSE Count(t.day - Bit32.day, t.unit - Bit32.unit)
  BY DEF FromDos
<1>6. year = y
  BY <1>1 DEF DOS_EPOCH_YEAR
<1>7. days = day
  <2>1. (f.day - 1) % 65536 = d - 1
    BY <1>1, <1>3
  <2>2. days = NewYear(y) + MonthStart(m, l) + (d - 1)
    <3> HIDE DEF year, y, m, d
    <3>1. f.month = m
      BY DEF m
    <3> QED BY <1>4, <1>6, <2>1, <3>1
  <2> HIDE DEF days, y, m, d, l
  <2> QED BY <1>1, <1>2, <1>3, <2>2
<1>8. units = v
  <2>1. units = UnitsOf(f.hours, f.minutes, f.seconds2)
    BY DEF UnitsOf
  <2>2. units = UnitsOf(u \div 1800, (u % 1800) \div 30, u % 30)
    <3> DEFINE hours == u \div 1800
               minutes == (u % 1800) \div 30
               seconds2 == u % 30
    <3>1. f.hours = hours /\ f.minutes = minutes /\ f.seconds2 = seconds2
      OBVIOUS
    <3> HIDE DEF units, hours, minutes, seconds2
    <3> QED BY <2>1, <3>1 DEF hours, minutes, seconds2
  <2>3. UnitsOf(u \div 1800, (u % 1800) \div 30, u % 30) = v
    BY UnitsComeBack
  <2> HIDE DEF units, v
  <2> QED BY <2>2, <2>3
<1>9. day \in Int /\ v \in Int
  <2>1. v \in Int
    OBVIOUS
  <2> HIDE DEF y, m, d, l, v
  <2> QED BY <1>1, <1>2, <1>3, <2>1
<1>10. t = Count(day, v + z)
  <2> HIDE DEF days, units, v
  <2> QED BY <1>7, <1>8, <1>9, AddIs
<1> HIDE DEF t, v
<1> QED BY <1>5, <1>10 DEF v

\* The date that DOS shows is the one that the host gets back, before 19 o'clock;
\* from then on it is 2^16 seconds early, in every year, at every time of day and
\* for every zone that is up to two days away.
THEOREM DatesReturn ==
  ASSUME ZonesAreNear
  PROVE  Calendar => []DatesComeBack
<1>1. OnCalendar => DatesComeBack
  <2> SUFFICES ASSUME OnCalendar, NEW t \in Times,
                      date.year >= DOS_EPOCH_YEAR, ~ Faults(t.host)
               PROVE  FromDos(ToDos(t.host, t.zone), t.zone) =
                        IF t.local.unit < 19 * 1800 THEN t.host
                        ELSE Add(t.host, -32768)
    BY DEF DatesComeBack
  <2>1. PICK u \in Units, z \in Zones :
          t = [local |-> Count(day, u), zone |-> z, host |-> Count(day, u + z)]
    BY TimesAre
  <2>2. u \in Int /\ 0 <= u /\ u < PerDay /\ z \in Int /\ Near(z)
    BY ParametersAre DEF ZonesAreNear
  <2>3. t.local = Count(day, u) /\ t.zone = z /\ t.host = Count(day, u + z)
    BY <2>1
  <2>4. /\ Count(day, u) = [day |-> day, unit |-> u] /\ day \in Int
        /\ Local(Count(day, u + z), z) = [day |-> day, unit |-> u]
    BY <2>2, LocalIs
  <2>5. t.local.unit = u
    BY <2>3, <2>4
  <2>6. ToDos(t.host, t.zone) = DosDate(day, u)
    <3>1. Local(t.host, t.zone).day = day /\ Local(t.host, t.zone).unit = u
      BY <2>3, <2>4
    <3> QED BY <3>1, ToDosGives
  <2>7. InSevenBits
    <3>1. ~ Faults(Count(day, u + z))
      BY <2>3
    <3> QED BY <2>2, <3>1, YearFits, Zenon
  <2> DEFINE f == DosDate(day, u)
             v == IF u < 19 * 1800 THEN u ELSE u - 32768
             c == Count(day, v + z)
             h == Count(day, u + z)
             years == IF date.year < DOS_EPOCH_YEAR THEN 0
                      ELSE date.year - DOS_EPOCH_YEAR
  <2>8. f = [year |-> years, month |-> date.month, day |-> date.day,
             hours |-> u \div 1800, minutes |-> (u % 1800) \div 30,
             seconds2 |-> u % 30]
    BY <2>2, <2>7, DosDateIs
  <2>9. years = date.year - DOS_EPOCH_YEAR
    BY DEF OnCalendar, DOS_EPOCH_YEAR
  <2>10. /\ f.year = date.year - DOS_EPOCH_YEAR /\ f.month = date.month
         /\ f.day = date.day /\ f.hours = u \div 1800
         /\ f.minutes = (u % 1800) \div 30 /\ f.seconds2 = u % 30
    <3> HIDE DEF f, years
    <3> QED BY <2>8, <2>9
  <2>11. FromDos(f, z) = IF Before(c, Bit31) THEN c
                         ELSE Count(c.day - Bit32.day, c.unit - Bit32.unit)
    <3> HIDE DEF f
    <3> QED BY <2>2, <2>7, <2>10, FromDosIs
  <2>12. Before(h, Bit31)
    BY <2>3 DEF Faults
  <2>13. CASE u < 19 * 1800
    <3>1. c = h
      BY <2>13
    <3> HIDE DEF c, h, f
    <3>2. FromDos(f, z) = h
      BY <2>11, <2>12, <3>1
    <3> QED BY <2>3, <2>5, <2>6, <2>13, <3>2 DEF f, h
  <2>14. CASE ~ (u < 19 * 1800)
    <3>1. v + z = (u + z) - 32768 /\ u + z \in Int
      BY <2>2, <2>14
    <3>2. c = Add(h, -32768)
      <4>1. Add(h, -32768) = Count(day, (u + z) + (-32768))
        BY <2>4, <3>1, AddIs
      <4>2. (u + z) + (-32768) = v + z
        BY <2>2, <2>14
      <4> QED BY <4>1, <4>2
    <3>3. Before(c, Bit31)
      <4> DEFINE w == u + z
                 k == 32768
      <4>1. w \in Int /\ k \in Nat /\ v + z = w - k
        BY <3>1
      <4>2. Before(Count(day, w), Bit31)
        BY <2>12
      <4> HIDE DEF w, k, v
      <4>3. Before(Count(day, w - k), Bit31)
        BY <2>4, <4>1, <4>2, EarlierCounts
      <4> QED BY <4>1, <4>3
    <3> HIDE DEF c, h, f, v
    <3>4. FromDos(f, z) = Add(h, -32768)
      BY <2>11, <3>2, <3>3
    <3> QED BY <2>3, <2>5, <2>6, <2>14, <3>4 DEF f, h
  <2> QED BY <2>13, <2>14
<1> QED BY <1>1, AlwaysOnCalendar, PTL

-----------------------------------------------------------------------------
(* Beginnings of paths *)

Upto(t, n) == SubSeq(t, 1, n)

LEMMA UptoIs ==
  ASSUME NEW S, NEW t \in Seq(S), NEW n \in 0 .. Len(t)
  PROVE  /\ Upto(t, n) \in Seq(S) /\ Len(Upto(t, n)) = n
         /\ \A i \in 1 .. n : Upto(t, n)[i] = t[i]
BY DEF Upto

LEMMA SamePath ==
  ASSUME NEW S, NEW t \in Seq(S), NEW u \in Seq(S), Len(t) = Len(u),
         \A i \in 1 .. Len(t) : t[i] = u[i]
  PROVE  t = u
OBVIOUS

LEMMA UptoOfUpto ==
  ASSUME NEW S, NEW t \in Seq(S), NEW n \in 0 .. Len(t), NEW k \in 0 .. n
  PROVE  Upto(Upto(t, n), k) = Upto(t, k)
<1>1. Len(t) \in Nat /\ k \in 0 .. Len(t)
  OBVIOUS
<1> DEFINE u == Upto(t, n)
<1>2. u \in Seq(S) /\ Len(u) = n /\ \A i \in 1 .. n : u[i] = t[i]
  BY UptoIs
<1> HIDE DEF u
<1> DEFINE v == Upto(u, k)
           w == Upto(t, k)
<1>3. v \in Seq(S) /\ Len(v) = k /\ \A i \in 1 .. k : v[i] = u[i]
  BY <1>2, UptoIs
<1>4. w \in Seq(S) /\ Len(w) = k /\ \A i \in 1 .. k : w[i] = t[i]
  BY <1>1, UptoIs
<1>5. \A i \in 1 .. k : i \in 1 .. n
  OBVIOUS
<1> HIDE DEF v, w
<1>6. \A i \in 1 .. Len(v) : v[i] = w[i]
  BY <1>2, <1>3, <1>4, <1>5
<1>7. v = w
  BY <1>3, <1>4, <1>6, SamePath
<1> QED BY <1>7 DEF u, v, w

LEMMA UptoNext ==
  ASSUME NEW S, NEW t \in Seq(S), NEW n \in 0 .. Len(t) - 1
  PROVE  /\ Upto(t, n + 1) = Append(Upto(t, n), t[n + 1])
         /\ t[n + 1] \in S
<1>1. Len(t) \in Nat /\ n \in 0 .. Len(t) /\ n + 1 \in 0 .. Len(t) /\ n + 1 \in 1 .. Len(t)
  OBVIOUS
<1>2. t[n + 1] \in S
  BY <1>1
<1> DEFINE u == Upto(t, n)
           v == Upto(t, n + 1)
           w == Append(u, t[n + 1])
<1>3. u \in Seq(S) /\ Len(u) = n /\ \A i \in 1 .. n : u[i] = t[i]
  BY <1>1, UptoIs
<1>4. v \in Seq(S) /\ Len(v) = n + 1 /\ \A i \in 1 .. n + 1 : v[i] = t[i]
  BY <1>1, UptoIs
<1> HIDE DEF u, v
<1>5. w \in Seq(S) /\ Len(w) = n + 1 /\ \A i \in 1 .. n + 1 : w[i] = t[i]
  BY <1>2, <1>3
<1> HIDE DEF w
<1>6. v = w
  BY <1>4, <1>5, SamePath
<1> QED BY <1>2, <1>6 DEF u, v, w

LEMMA UptoAll ==
  ASSUME NEW S, NEW t \in Seq(S)
  PROVE  Upto(t, Len(t)) = t /\ Upto(t, 0) = <<>>
<1>1. Len(t) \in 0 .. Len(t) /\ 0 \in 0 .. Len(t)
  OBVIOUS
<1> DEFINE u == Upto(t, Len(t))
           v == Upto(t, 0)
<1>2. u \in Seq(S) /\ Len(u) = Len(t) /\ \A i \in 1 .. Len(t) : u[i] = t[i]
  BY <1>1, UptoIs
<1>3. v \in Seq(S) /\ Len(v) = 0
  BY <1>1, UptoIs
<1> HIDE DEF u, v
<1>4. u = t
  BY <1>2, SamePath
<1>5. v = <<>>
  BY <1>3
<1> QED BY <1>4, <1>5 DEF u, v

LEMMA FrontIs ==
  ASSUME NEW S, NEW t \in Seq(S), t # <<>>
  PROVE  /\ Len(t) \in Nat \ {0} /\ Front(t) = Upto(t, Len(t) - 1)
         /\ Last(t) = t[Len(t)] /\ Last(t) \in S /\ Front(t) \in Seq(S)
         /\ Len(Front(t)) = Len(t) - 1
         /\ t = Append(Front(t), Last(t))
<1>1. Len(t) \in Nat \ {0}
  OBVIOUS
<1>2. Front(t) = Upto(t, Len(t) - 1) /\ Last(t) = t[Len(t)]
  BY DEF Front, Last, Upto
<1> DEFINE n == Len(t) - 1
<1>3. n \in 0 .. Len(t) - 1 /\ n \in 0 .. Len(t) /\ n + 1 = Len(t)
  BY <1>1
<1>4. Upto(t, n) \in Seq(S) /\ Len(Upto(t, n)) = n
  BY <1>3, UptoIs
<1> HIDE DEF n
<1>5. Upto(t, n + 1) = Append(Upto(t, n), t[n + 1]) /\ t[n + 1] \in S
  BY <1>3, UptoNext
<1>6. Upto(t, n + 1) = t
  BY <1>3, UptoAll
<1> QED BY <1>1, <1>2, <1>3, <1>4, <1>5, <1>6 DEF n

LEMMA AppendedIs ==
  ASSUME NEW S, NEW t \in Seq(S), NEW x \in S
  PROVE  /\ Append(t, x) \in Seq(S) /\ Len(Append(t, x)) = Len(t) + 1
         /\ Append(t, x)[Len(t) + 1] = x /\ Append(t, x) # <<>>
         /\ \A k \in 0 .. Len(t) : Upto(Append(t, x), k) = Upto(t, k)
         /\ \A k \in 1 .. Len(t) : Append(t, x)[k] = t[k]
         /\ Front(Append(t, x)) = t /\ Last(Append(t, x)) = x
<1> DEFINE u == Append(t, x)
<1>1. /\ u \in Seq(S) /\ Len(u) = Len(t) + 1 /\ Len(t) \in Nat
      /\ u[Len(t) + 1] = x /\ u # <<>> /\ \A k \in 1 .. Len(t) : u[k] = t[k]
  OBVIOUS
<1> HIDE DEF u
<1>2. ASSUME NEW k \in 0 .. Len(t) PROVE Upto(u, k) = Upto(t, k)
  <2> DEFINE v == Upto(u, k)
             w == Upto(t, k)
  <2>1. k \in 0 .. Len(u) /\ \A i \in 1 .. k : i \in 1 .. Len(t)
    BY <1>1
  <2>2. v \in Seq(S) /\ Len(v) = k /\ \A i \in 1 .. k : v[i] = u[i]
    BY <1>1, <2>1, UptoIs
  <2>3. w \in Seq(S) /\ Len(w) = k /\ \A i \in 1 .. k : w[i] = t[i]
    BY UptoIs
  <2> HIDE DEF v, w
  <2>4. \A i \in 1 .. Len(v) : v[i] = w[i]
    BY <1>1, <2>1, <2>2, <2>3
  <2>5. v = w
    BY <2>2, <2>3, <2>4, SamePath
  <2> QED BY <2>5 DEF v, w
<1>3. Front(u) = t /\ Last(u) = x
  <2>1. Front(u) = Upto(u, Len(t)) /\ Last(u) = u[Len(t) + 1]
    BY <1>1, FrontIs
  <2>2. Upto(u, Len(t)) = Upto(t, Len(t)) /\ Upto(t, Len(t)) = t
    BY <1>1, <1>2, UptoAll
  <2> QED BY <1>1, <2>1, <2>2
<1> QED BY <1>1, <1>2, <1>3 DEF u

-----------------------------------------------------------------------------
(* Looking up a path, among any files F and directories D.  HostPath is a   *)
(* recursive function; Leads says the same of its value without recursion, *)
(* and what a path leads to is unique.                                     *)

EntriesOf(F, D, d) == {n \in Names : Append(d, n) \in F \cup D}

Lookup(F, D, d, c) ==
  LET alike == {n \in EntriesOf(F, D, d) : Mangled[n] = c}
  IN  IF d \in D /\ alike # {}
        THEN CHOOSE n \in alike : \A m \in alike : Order[n] <= Order[m]
        ELSE c

NameOf(F, D, d, c) == IF c \in Tildes THEN Lookup(F, D, d, c) ELSE c

Walk(F, D, p) ==
  LET to[n \in 0 .. Len(p)] ==
        IF n = 0 THEN <<>>
        ELSE LET d == to[n - 1] IN Append(d, NameOf(F, D, d, p[n]))
  IN  to[Len(p)]

LEMMA EntriesAre ==
  /\ \A d : Entries(d) = EntriesOf(files, dirs, d)
  /\ \A d : Entries(d)' = EntriesOf(files', dirs', d)
BY DEF Entries, EntriesOf, Tree

LEMMA HostPathIs ==
  /\ \A p : HostPath(p) = Walk(files, dirs, p)
  /\ \A p : HostPath(p)' = Walk(files', dirs', p)
BY Zenon DEF HostPath, RealName, FindRealName, Entries, Alike, Tree, Walk,
             NameOf, Lookup, EntriesOf

\* What is found first is the entry that looks alike, if there is one.
LEMMA LookupIs ==
  ASSUME NEW F, NEW D, NEW d, NEW c
  PROVE  LET alike == {n \in EntriesOf(F, D, d) : Mangled[n] = c}
         IN  /\ d \in D /\ alike # {} =>
                  /\ Lookup(F, D, d, c) \in alike
                  /\ \A n \in alike : Order[Lookup(F, D, d, c)] <= Order[n]
             /\ d \notin D \/ alike = {} => Lookup(F, D, d, c) = c
<1> DEFINE alike == {n \in EntriesOf(F, D, d) : Mangled[n] = c}
           Foremost(n) == \A m \in alike : Order[n] <= Order[m]
<1>1. ASSUME alike # {} PROVE \E n \in alike : Foremost(n)
  <2> DEFINE T == {Order[n] : n \in alike}
  <2>1. T \in SUBSET Nat /\ T # {}
    BY <1>1, LongNamesAssumption DEF LongNamesAssumption, EntriesOf
  <2> HIDE DEF T
  <2>2. PICK k \in T : \A m \in T : k <= m
    BY <2>1, Least
  <2>3. PICK n \in alike : Order[n] = k
    BY DEF T
  <2>4. \A m \in alike : Order[n] <= Order[m]
    BY <2>2, <2>3 DEF T
  <2> QED BY <2>4
<1>2. Lookup(F, D, d, c) = IF d \in D /\ alike # {}
                             THEN CHOOSE n \in alike : Foremost(n) ELSE c
  BY DEF Lookup
<1>3. ASSUME d \in D, alike # {}
      PROVE  Lookup(F, D, d, c) \in alike /\ Foremost(Lookup(F, D, d, c))
  <2> HIDE DEF alike, Foremost
  <2> QED BY <1>1, <1>2, <1>3
<1> QED BY <1>2, <1>3

LEMMA NameOfIs ==
  ASSUME NEW F, NEW D, NEW d, NEW S, Names \subseteq S, NEW c \in S
  PROVE  /\ NameOf(F, D, d, c) \in S
         /\ c \notin Tildes => NameOf(F, D, d, c) = c
<1> DEFINE alike == {n \in EntriesOf(F, D, d) : Mangled[n] = c}
<1>1. alike \subseteq Names
  BY DEF EntriesOf
<1>2. Lookup(F, D, d, c) \in alike \cup {c}
  BY LookupIs
<1> HIDE DEF alike
<1> QED BY <1>1, <1>2 DEF NameOf

\* t is the host path that p leads to.
Leads(F, D, p, t) ==
  /\ Len(t) = Len(p)
  /\ \A i \in 1 .. Len(p) : t[i] = NameOf(F, D, Upto(t, i - 1), p[i])

LEMMA WalkIs ==
  ASSUME NEW F, NEW D, NEW S, Names \subseteq S, NEW p \in Seq(S)
  PROVE  Walk(F, D, p) \in Seq(S) /\ Leads(F, D, p, Walk(F, D, p))
<1>1. Len(p) \in Nat /\ \A i \in 1 .. Len(p) : p[i] \in S
  OBVIOUS
<1> DEFINE e(g, n) == IF n = 0 THEN <<>>
                      ELSE Append(g[n - 1], NameOf(F, D, g[n - 1], p[n]))
           Good(g) == g = [n \in 0 .. Len(p) |-> e(g, n)]
           Part(g, k) == \A n \in 0 .. k : g[n] = e(g, n)
           T == {k \in Nat : \E g : Part(g, k)}
<1>2. 0 \in T
  <2> DEFINE g == [n \in {0} |-> <<>>]
  <2>1. Part(g, 0)
    OBVIOUS
  <2> HIDE DEF Part, g
  <2> QED BY <2>1
<1>3. ASSUME NEW k \in T PROVE k + 1 \in T
  <2>0. k \in Nat
    OBVIOUS
  <2>1. PICK g : Part(g, k)
    OBVIOUS
  <2> DEFINE h == [n \in 0 .. k + 1 |-> IF n = k + 1 THEN e(g, n) ELSE g[n]]
  <2>2. ASSUME NEW n \in 0 .. k + 1 PROVE h[n] = e(h, n)
    <3>1. n # 0 => n - 1 \in 0 .. k + 1 /\ n - 1 # k + 1
      BY <2>0
    <3>2. e(h, n) = e(g, n)
      <4>1. CASE n = 0
        BY <4>1
      <4>2. CASE n # 0
        <5>1. h[n - 1] = g[n - 1]
          BY <3>1, <4>2
        <5> HIDE DEF h
        <5> QED BY <4>2, <5>1
      <4> QED BY <4>1, <4>2
    <3>3. n # k + 1 => n \in 0 .. k
      BY <2>0
    <3> HIDE DEF e
    <3>4. h[n] = e(g, n)
      BY <2>1, <3>3
    <3> QED BY <3>2, <3>4
  <2>3. Part(h, k + 1)
    <3> HIDE DEF e, h
    <3> QED BY <2>2
  <2>4. k + 1 \in Nat
    BY <2>0
  <2> HIDE DEF Part, h
  <2> QED BY <2>3, <2>4
<1>4. Len(p) \in T
  <2> HIDE DEF T
  <2>1. T \in SUBSET Nat
    BY DEF T
  <2> QED BY <1>1, <1>2, <1>3, <2>1, Induction
<1>5. PICK f : Part(f, Len(p))
  BY <1>4
<1> DEFINE w == [n \in 0 .. Len(p) |-> f[n]]
<1>6. Good(w)
  <2>1. ASSUME NEW n \in 0 .. Len(p) PROVE f[n] = e(w, n)
    <3>1. e(w, n) = e(f, n)
      <4>1. CASE n = 0
        BY <4>1
      <4>2. CASE n # 0
        <5>1. n - 1 \in 0 .. Len(p)
          BY <1>1, <4>2
        <5>2. w[n - 1] = f[n - 1]
          BY <5>1
        <5> HIDE DEF w
        <5> QED BY <4>2, <5>2
      <4> QED BY <4>1, <4>2
    <3> HIDE DEF e, w
    <3> QED BY <1>5, <3>1
  <2> DEFINE v == w
  <2>2. \A n \in 0 .. Len(p) : f[n] = e(v, n)
    BY <2>1
  <2> HIDE DEF e, v
  <2>3. w = [n \in 0 .. Len(p) |-> e(v, n)]
    BY <2>2
  <2> QED BY <2>3 DEF v
<1> DEFINE to == CHOOSE g : Good(g)
<1>7. Walk(F, D, p) = to[Len(p)]
  BY Zenon DEF Walk
<1>8. Good(to)
  <2> HIDE DEF Good
  <2> QED BY <1>6, Zenon
<1>9. ASSUME NEW n \in 0 .. Len(p) PROVE to[n] = e(to, n)
  <2> DEFINE g == to
  <2> HIDE DEF e
  <2>1. g = [k \in 0 .. Len(p) |-> e(g, k)]
    BY <1>8
  <2> HIDE DEF g
  <2>2. g[n] = e(g, n)
    BY <2>1
  <2> QED BY <2>2 DEF g
<1> HIDE DEF to
<1> DEFINE Is(n) == /\ to[n] \in Seq(S) /\ Len(to[n]) = n
                    /\ \A i \in 1 .. n :
                         to[n][i] = NameOf(F, D, Upto(to[n], i - 1), p[i])
           U == {n \in Nat : n <= Len(p) => Is(n)}
<1>10. 0 \in U
  <2>1. to[0] = <<>>
    <3>1. 0 \in 0 .. Len(p)
      BY <1>1
    <3> QED BY <1>9, <3>1
  <2>2. /\ to[0] \in Seq(S) /\ Len(to[0]) = 0
    BY <2>1
  <2>3. Is(0)
    BY <2>2
  <2> HIDE DEF Is
  <2> QED BY <2>3
<1>11. ASSUME NEW n \in U PROVE n + 1 \in U
  <2>1. n \in Nat /\ n + 1 \in Nat
    OBVIOUS
  <2> SUFFICES ASSUME n + 1 <= Len(p) PROVE Is(n + 1)
    BY <2>1
  <2>2. Is(n)
    BY <1>1, <2>1
  <2> DEFINE d == to[n]
             x == NameOf(F, D, d, p[n + 1])
  <2>3. to[n + 1] = Append(d, x)
    <3>1. n + 1 \in 0 .. Len(p) /\ n + 1 # 0 /\ (n + 1) - 1 = n
      BY <1>1, <2>1
    <3>2. to[n + 1] = e(to, n + 1)
      BY <1>9, <3>1
    <3> QED BY <3>1, <3>2
  <2>4. d \in Seq(S) /\ Len(d) = n
    BY <2>2
  <2>5. x \in S
    <3>1. p[n + 1] \in S
      BY <1>1, <2>1
    <3> QED BY <3>1, NameOfIs
  <2>6. \A i \in 1 .. n : d[i] = NameOf(F, D, Upto(d, i - 1), p[i])
    BY <2>2
  <2> HIDE DEF d, x
  <2> DEFINE t == Append(d, x)
  <2>7. /\ t \in Seq(S) /\ Len(t) = n + 1 /\ t[n + 1] = x
        /\ \A k \in 0 .. n : Upto(t, k) = Upto(d, k)
        /\ \A k \in 1 .. n : t[k] = d[k]
    BY <2>4, <2>5, AppendedIs
  <2>8. Upto(d, n) = d
    BY <2>4, UptoAll
  <2> HIDE DEF t
  <2>9. ASSUME NEW i \in 1 .. n + 1
        PROVE  t[i] = NameOf(F, D, Upto(t, i - 1), p[i])
    <3>1. i - 1 \in 0 .. n
      BY <2>1
    <3>2. Upto(t, i - 1) = Upto(d, i - 1)
      BY <2>7, <3>1
    <3>3. CASE i = n + 1
      <4>1. i - 1 = n
        BY <2>1, <3>3
      <4>2. Upto(t, i - 1) = d
        BY <2>8, <3>2, <4>1
      <4> QED BY <2>7, <3>3, <4>2 DEF x
    <3>4. CASE i # n + 1
      <4>1. i \in 1 .. n
        BY <2>1, <3>4
      <4> QED BY <2>6, <2>7, <3>2, <4>1
    <3> QED BY <3>3, <3>4
  <2> QED BY <2>3, <2>7, <2>9 DEF t
<1> HIDE DEF U
<1>12. U = Nat
  <2>1. U \in SUBSET Nat
    BY DEF U
  <2> QED BY <1>10, <1>11, <2>1, Induction
<1>13. Is(Len(p))
  <2>1. Len(p) \in U
    BY <1>1, <1>12
  <2> QED BY <1>1, <2>1 DEF U
<1> QED BY <1>7, <1>13 DEF Leads

\* There is no other.
LEMMA OneWay ==
  ASSUME NEW F, NEW D, NEW S, NEW p, NEW t \in Seq(S), NEW u \in Seq(S),
         Leads(F, D, p, t), Leads(F, D, p, u)
  PROVE  t = u
<1>1. Len(t) = Len(p) /\ Len(u) = Len(p) /\ Len(p) \in Nat
  BY DEF Leads
<1> DEFINE T == {n \in Nat : n <= Len(p) => Upto(t, n) = Upto(u, n)}
<1>2. 0 \in T
  BY UptoAll
<1>3. ASSUME NEW n \in T PROVE n + 1 \in T
  <2>1. n \in Nat /\ n + 1 \in Nat
    OBVIOUS
  <2> SUFFICES ASSUME n + 1 <= Len(p) PROVE Upto(t, n + 1) = Upto(u, n + 1)
    BY <2>1
  <2>2. Upto(t, n) = Upto(u, n)
    BY <1>1, <2>1
  <2>3. n \in 0 .. Len(t) - 1 /\ n \in 0 .. Len(u) - 1 /\ n + 1 \in 1 .. Len(p)
        /\ (n + 1) - 1 = n
    BY <1>1, <2>1
  <2>4. t[n + 1] = NameOf(F, D, Upto(t, n), p[n + 1])
    BY <2>3 DEF Leads
  <2>5. u[n + 1] = NameOf(F, D, Upto(u, n), p[n + 1])
    BY <2>3 DEF Leads
  <2>6. t[n + 1] = u[n + 1]
    BY <2>2, <2>4, <2>5
  <2>7. Upto(t, n + 1) = Append(Upto(t, n), t[n + 1])
    BY <2>3, UptoNext
  <2>8. Upto(u, n + 1) = Append(Upto(u, n), u[n + 1])
    BY <2>3, UptoNext
  <2> QED BY <2>2, <2>6, <2>7, <2>8
<1> HIDE DEF T
<1>4. T = Nat
  <2>1. T \in SUBSET Nat
    BY DEF T
  <2> QED BY <1>2, <1>3, <2>1, Induction
<1>5. Upto(t, Len(p)) = Upto(u, Len(p))
  <2>1. Len(p) \in T
    BY <1>1, <1>4
  <2> QED BY <1>1, <2>1 DEF T
<1>6. Upto(t, Len(t)) = t /\ Upto(u, Len(u)) = u
  BY UptoAll
<1> QED BY <1>1, <1>5, <1>6

LEMMA HostPathLeads ==
  ASSUME NEW S, Names \subseteq S, NEW p \in Seq(S)
  PROVE  /\ HostPath(p) \in Seq(S) /\ Len(HostPath(p)) = Len(p)
         /\ Leads(files, dirs, p, HostPath(p))
<1>1. HostPath(p) = Walk(files, dirs, p)
  BY HostPathIs
<1>2. Walk(files, dirs, p) \in Seq(S) /\ Leads(files, dirs, p, Walk(files, dirs, p))
  BY WalkIs
<1> QED BY <1>1, <1>2 DEF Leads

\* The last component, after the directory that those before it lead to
LEMMA HostPathEnds ==
  ASSUME NEW S, Names \subseteq S, NEW p \in Seq(S), p # <<>>
  PROVE  /\ HostPath(Front(p)) = Front(HostPath(p))
         /\ HostPath(p) =
              Append(HostPath(Front(p)),
                     NameOf(files, dirs, HostPath(Front(p)), Last(p)))
         /\ Last(HostPath(p)) = NameOf(files, dirs, HostPath(Front(p)), Last(p))
<1> DEFINE t == HostPath(p)
           q == Front(p)
           u == HostPath(q)
           n == Len(p)
<1>1. /\ n \in Nat \ {0} /\ q = Upto(p, n - 1) /\ q \in Seq(S) /\ Len(q) = n - 1
      /\ Last(p) = p[n]
  BY FrontIs
<1>2. t \in Seq(S) /\ Len(t) = n /\ Leads(files, dirs, p, t)
  BY HostPathLeads
<1>3. u \in Seq(S) /\ Len(u) = n - 1 /\ Leads(files, dirs, q, u)
  BY <1>1, HostPathLeads
<1>4. t # <<>>
  BY <1>1, <1>2
<1> HIDE DEF t, u, n, q
<1>5. /\ Front(t) = Upto(t, n - 1) /\ Last(t) = t[n] /\ t = Append(Front(t), Last(t))
      /\ Front(t) \in Seq(S)
  BY <1>2, <1>4, FrontIs
<1>6. Leads(files, dirs, q, Front(t))
  <2>1. n - 1 \in 0 .. Len(t) /\ n - 1 \in 0 .. Len(p)
    BY <1>1, <1>2 DEF n
  <2>2. Len(Upto(t, n - 1)) = n - 1 /\ \A i \in 1 .. n - 1 : Upto(t, n - 1)[i] = t[i]
    BY <1>2, <2>1, UptoIs
  <2>3. \A i \in 1 .. n - 1 : q[i] = p[i]
    BY <1>1, <2>1, UptoIs
  <2>4. ASSUME NEW i \in 1 .. n - 1
        PROVE  Upto(t, n - 1)[i] = NameOf(files, dirs, Upto(Upto(t, n - 1), i - 1), q[i])
    <3>1. i - 1 \in 0 .. n - 1 /\ i \in 1 .. n
      BY <1>1
    <3>2. Upto(Upto(t, n - 1), i - 1) = Upto(t, i - 1)
      BY <1>2, <2>1, <3>1, UptoOfUpto
    <3>3. t[i] = NameOf(files, dirs, Upto(t, i - 1), p[i])
      BY <1>2, <3>1 DEF Leads, n
    <3> QED BY <2>2, <2>3, <3>2, <3>3
  <2> QED BY <1>1, <1>5, <2>2, <2>4 DEF Leads
<1>7. Front(t) = u
  BY <1>3, <1>5, <1>6, OneWay
<1>8. t[n] = NameOf(files, dirs, Upto(t, n - 1), p[n])
  <2>1. n \in 1 .. Len(p)
    BY <1>1 DEF n
  <2> QED BY <1>2, <2>1 DEF Leads
<1> QED BY <1>1, <1>5, <1>7, <1>8 DEF t, u, q

\* What leads somewhere is where the path leads.
LEMMA HostPathOf ==
  ASSUME NEW S, Names \subseteq S, NEW p \in Seq(S), NEW t \in Seq(S)
  PROVE  /\ Leads(files, dirs, p, t) => HostPath(p) = t
         /\ Leads(files', dirs', p, t) => HostPath(p)' = t
<1>1. /\ Walk(files, dirs, p) \in Seq(S)
      /\ Leads(files, dirs, p, Walk(files, dirs, p))
  BY WalkIs
<1>2. /\ Walk(files', dirs', p) \in Seq(S)
      /\ Leads(files', dirs', p, Walk(files', dirs', p))
  BY WalkIs
<1>3. Leads(files, dirs, p, t) => Walk(files, dirs, p) = t
  BY <1>1, OneWay
<1>4. Leads(files', dirs', p, t) => Walk(files', dirs', p) = t
  BY <1>2, OneWay
<1>5. HostPath(p) = Walk(files, dirs, p) /\ HostPath(p)' = Walk(files', dirs', p)
  BY HostPathIs
<1> QED BY <1>3, <1>4, <1>5

-----------------------------------------------------------------------------
(* The folder *)

LEMMA PathsAre ==
  ASSUME NEW S
  PROVE  \A h : h \in Paths(S) <=> h \in Seq(S) /\ Len(h) \in 1 .. MaxDepth
<1>1. MaxDepth \in Nat
  BY LongNamesAssumption DEF LongNamesAssumption
<1>2. ASSUME NEW h, h \in Paths(S) PROVE h \in Seq(S) /\ Len(h) \in 1 .. MaxDepth
  <2>1. PICK n \in 1 .. MaxDepth : h \in [1 .. n -> S]
    BY <1>2 DEF Paths
  <2>2. n \in Nat /\ h \in Seq(S) /\ Len(h) = n
    BY <1>1, <2>1
  <2> QED BY <2>2
<1>3. ASSUME NEW h \in Seq(S), Len(h) \in 1 .. MaxDepth PROVE h \in Paths(S)
  <2>1. h \in [1 .. Len(h) -> S]
    OBVIOUS
  <2> QED BY <1>3, <2>1 DEF Paths
<1> QED BY <1>2, <1>3

\* Files and directories, each in a directory
Folder(F, D) ==
  /\ F \subseteq Paths(Names) /\ D \subseteq Paths(Names) \cup {<<>>}
  /\ F \cap D = {} /\ <<>> \in D
  /\ \A h \in (F \cup D) \ {<<>>} : Front(h) \in D

LEMMA FolderPaths ==
  ASSUME NEW F, NEW D, Folder(F, D), NEW h \in F \cup D
  PROVE  h \in Seq(Names) /\ Len(h) \in 0 .. MaxDepth
<1>1. CASE h = <<>>
  BY <1>1, LongNamesAssumption DEF LongNamesAssumption
<1>2. CASE h # <<>>
  <2>1. h \in Paths(Names)
    BY <1>2 DEF Folder
  <2> QED BY <2>1, PathsAre
<1> QED BY <1>1, <1>2

\* All that a path begins with is a directory.
LEMMA FolderClosed ==
  ASSUME NEW F, NEW D, Folder(F, D), NEW h \in F \cup D
  PROVE  \A k \in 0 .. Len(h) - 1 : Upto(h, k) \in D
<1>1. h \in Seq(Names) /\ Len(h) \in Nat
  BY FolderPaths
<1> DEFINE T == {j \in Nat : j <= Len(h) - 1 => Upto(h, Len(h) - 1 - j) \in D}
<1>2. 0 \in T
  <2> SUFFICES ASSUME 0 <= Len(h) - 1 PROVE Upto(h, Len(h) - 1 - 0) \in D
    OBVIOUS
  <2>1. h # <<>> /\ Len(h) - 1 - 0 = Len(h) - 1
    BY <1>1
  <2>2. Front(h) \in D /\ Front(h) = Upto(h, Len(h) - 1)
    BY <1>1, <2>1, FrontIs DEF Folder
  <2> QED BY <2>1, <2>2
<1>3. ASSUME NEW j \in T PROVE j + 1 \in T
  <2>1. j \in Nat /\ j + 1 \in Nat
    OBVIOUS
  <2> SUFFICES ASSUME j + 1 <= Len(h) - 1 PROVE Upto(h, Len(h) - 1 - (j + 1)) \in D
    BY <2>1
  <2> DEFINE n == Len(h) - 1 - j
             d == Upto(h, n)
  <2>2. n \in Nat \ {0} /\ n \in 0 .. Len(h) /\ Len(h) - 1 - (j + 1) = n - 1
        /\ n - 1 \in 0 .. n
    BY <1>1, <2>1
  <2>3. d \in D
    BY <1>1, <2>1
  <2> HIDE DEF n
  <2>4. d \in Seq(Names) /\ Len(d) = n
    BY <1>1, <2>2, UptoIs
  <2>5. Upto(d, n - 1) = Upto(h, n - 1)
    BY <1>1, <2>2, UptoOfUpto
  <2> HIDE DEF d
  <2>6. d # <<>>
    BY <2>2, <2>4
  <2>7. Front(d) \in D /\ Front(d) = Upto(d, n - 1)
    BY <2>3, <2>4, <2>6, FrontIs DEF Folder
  <2> QED BY <2>2, <2>5, <2>7
<1> HIDE DEF T
<1>4. T = Nat
  <2>1. T \in SUBSET Nat
    BY DEF T
  <2> QED BY <1>2, <1>3, <2>1, Induction
<1>5. ASSUME NEW k \in 0 .. Len(h) - 1 PROVE Upto(h, k) \in D
  <2> DEFINE j == Len(h) - 1 - k
  <2>1. j \in Nat /\ j <= Len(h) - 1 /\ Len(h) - 1 - j = k
    BY <1>1
  <2> HIDE DEF j
  <2>2. j \in T
    BY <1>4, <2>1
  <2> QED BY <2>1, <2>2 DEF T
<1> QED BY <1>5

LEMMA FolderGrows ==
  ASSUME NEW F, NEW D, Folder(F, D), NEW h \in Paths(Names),
         h \notin F \cup D, Front(h) \in D
  PROVE  Folder(F \cup {h}, D) /\ Folder(F, D \cup {h})
BY DEF Folder

LEMMA FolderShrinks ==
  ASSUME NEW F, NEW D, Folder(F, D), NEW h
  PROVE  /\ Folder(F \ {h}, D)
         /\ h # <<>> /\ h \in D /\ EntriesOf(F, D, h) = {} => Folder(F, D \ {h})
<1>1. Folder(F \ {h}, D)
  BY DEF Folder
<1>2. ASSUME h # <<>>, h \in D, EntriesOf(F, D, h) = {} PROVE Folder(F, D \ {h})
  <2>1. ASSUME NEW k \in (F \cup D) \ {<<>>} PROVE Front(k) # h
    <3>1. k \in Seq(Names)
      BY FolderPaths
    <3>2. k = Append(Front(k), Last(k)) /\ Last(k) \in Names
      BY <3>1, FrontIs
    <3> QED BY <1>2, <3>2 DEF EntriesOf
  <2> QED BY <1>2, <2>1 DEF Folder
<1> QED BY <1>1, <1>2

-----------------------------------------------------------------------------
(* Renaming *)

MovedTo(from, to, h) ==
  IF IsPrefix(from, h) THEN to \o SubSeq(h, Len(from) + 1, Len(h)) ELSE h

LEMMA PrefixIs ==
  ASSUME NEW S, NEW a \in Seq(S), NEW h \in Seq(S)
  PROVE  IsPrefix(a, h) <=> Len(a) <= Len(h) /\ Upto(h, Len(a)) = a
<1>1. SubSeq(a, 1, Len(a)) = a
  BY UptoAll DEF Upto
<1> QED BY <1>1 DEF IsPrefix, Upto

\* m begins with to, and goes on as h does after from.
GoesOn(S, from, to, h, m) ==
  /\ m \in Seq(S) /\ Len(m) = Len(to) + (Len(h) - Len(from))
  /\ Len(h) - Len(from) \in Nat
  /\ \A i \in 1 .. Len(to) : m[i] = to[i]
  /\ \A i \in Len(from) + 1 .. Len(h) :
       \A j \in Int : j = (i - Len(from)) + Len(to) => m[j] = h[i]

\* A path that begins with from begins with to instead, and goes on as it did.
LEMMA MovedIs ==
  ASSUME NEW S, NEW from \in Seq(S), NEW to \in Seq(S), NEW h \in Seq(S),
         IsPrefix(from, h), NEW m, m = MovedTo(from, to, h)
  PROVE  GoesOn(S, from, to, h, m)
<1>1. Len(from) \in Nat /\ Len(h) \in Nat /\ Len(to) \in Nat /\ Len(from) <= Len(h)
  BY PrefixIs
<1> DEFINE r == SubSeq(h, Len(from) + 1, Len(h))
           k == Len(h) - Len(from)
<1>2. r \in Seq(S) /\ Len(r) = k /\ \A i \in 1 .. k : r[i] = h[Len(from) + i]
  <2>1. \A i \in Len(from) + 1 .. Len(h) : h[i] \in S
    BY <1>1
  <2> QED BY <1>1, <2>1
<1>3. k \in Nat
  BY <1>1
<1>4. m = to \o r
  BY DEF MovedTo
<1> HIDE DEF r
<1>5. /\ to \o r \in Seq(S) /\ Len(to \o r) = Len(to) + k
      /\ \A i \in 1 .. Len(to) : (to \o r)[i] = to[i]
      /\ \A j \in Len(to) + 1 .. Len(to) + k : (to \o r)[j] = r[j - Len(to)]
  <2> DEFINE u == to \o r
  <2>1. u \in Seq(S) /\ Len(u) = Len(to) + Len(r)
    <3>1. r \in Seq(S)
      BY <1>2
    <3> QED BY <3>1
  <2>2. \A i \in 1 .. Len(to) + Len(r) :
          u[i] = IF i <= Len(to) THEN to[i] ELSE r[i - Len(to)]
    BY <1>2
  <2> HIDE DEF u, k
  <2> SUFFICES /\ u \in Seq(S) /\ Len(u) = Len(to) + k
               /\ \A i \in 1 .. Len(to) : u[i] = to[i]
               /\ \A j \in Len(to) + 1 .. Len(to) + k : u[j] = r[j - Len(to)]
    BY DEF u
  <2>3. ASSUME NEW i \in 1 .. Len(to) PROVE u[i] = to[i]
    <3>1. i \in 1 .. Len(to) + Len(r) /\ i <= Len(to)
      BY <1>1, <1>2, <1>3
    <3> QED BY <2>2, <3>1
  <2>4. ASSUME NEW j \in Len(to) + 1 .. Len(to) + k PROVE u[j] = r[j - Len(to)]
    <3>1. j \in 1 .. Len(to) + Len(r) /\ ~ (j <= Len(to))
      BY <1>1, <1>2, <1>3
    <3> QED BY <2>2, <3>1
  <2> QED BY <1>2, <2>1, <2>3, <2>4
<1>6. ASSUME NEW i \in Len(from) + 1 .. Len(h), NEW j \in Int,
             j = (i - Len(from)) + Len(to)
      PROVE  m[j] = h[i]
  <2> DEFINE x == i - Len(from)
  <2>1. x \in 1 .. k /\ Len(from) + x = i /\ j - Len(to) = x
        /\ j \in Len(to) + 1 .. Len(to) + k
    BY <1>1, <1>6
  <2>2. m[j] = r[j - Len(to)]
    BY <1>4, <1>5, <2>1
  <2>3. r[x] = h[Len(from) + x]
    BY <1>2, <2>1
  <2> QED BY <2>1, <2>2, <2>3
<1> QED BY <1>2, <1>3, <1>4, <1>5, <1>6 DEF GoesOn, k

LEMMA MovedStart ==
  ASSUME NEW S, NEW from \in Seq(S), NEW to \in Seq(S)
  PROVE  IsPrefix(from, from) /\ MovedTo(from, to, from) = to
<1>1. IsPrefix(from, from)
  BY PrefixIs, UptoAll
<1> DEFINE m == MovedTo(from, to, from)
<1>0. m = MovedTo(from, to, from)
  OBVIOUS
<1> HIDE DEF m
<1>2. /\ m \in Seq(S) /\ Len(m) = Len(to) + (Len(from) - Len(from))
      /\ \A i \in 1 .. Len(to) : m[i] = to[i]
  <2>1. GoesOn(S, from, to, from, m)
    BY <1>0, <1>1, MovedIs
  <2> QED BY <2>1 DEF GoesOn
<1>3. Len(m) = Len(to)
  BY <1>2
<1>4. m = to
  BY <1>2, <1>3, SamePath
<1> QED BY <1>1, <1>4 DEF m

\* The directory of what is moved is moved, unless that is from itself.
LEMMA MovedFront ==
  ASSUME NEW S, NEW from \in Seq(S), NEW to \in Seq(S), NEW h \in Seq(S),
         h # <<>>, h # from
  PROVE  MovedTo(from, to, h) # <<>> => Front(MovedTo(from, to, h)) = MovedTo(from, to, Front(h))
<1> DEFINE d == Front(h)
           n == Len(h)
           m == MovedTo(from, to, h)
<1>1. /\ n \in Nat \ {0} /\ d = Upto(h, n - 1) /\ d \in Seq(S) /\ Len(d) = n - 1
      /\ n - 1 \in 0 .. n
  BY FrontIs
<1>2. Len(from) \in Nat
  OBVIOUS
<1>3. IsPrefix(from, h) <=> IsPrefix(from, d)
  <2>1. IsPrefix(from, h) <=> Len(from) <= n /\ Upto(h, Len(from)) = from
    BY PrefixIs
  <2>2. IsPrefix(from, d) <=> Len(from) <= n - 1 /\ Upto(d, Len(from)) = from
    BY <1>1, PrefixIs
  <2>3. Upto(h, n) = h
    BY UptoAll
  <2>4. Len(from) <= n - 1 => Upto(d, Len(from)) = Upto(h, Len(from))
    <3> SUFFICES ASSUME Len(from) <= n - 1 PROVE Upto(d, Len(from)) = Upto(h, Len(from))
      OBVIOUS
    <3>1. Len(from) \in 0 .. n - 1
      BY <1>1, <1>2
    <3> QED BY <1>1, <3>1, UptoOfUpto
  <2> HIDE DEF d, n
  <2>5. Len(from) # n \/ Upto(h, Len(from)) # from
    BY <2>3
  <2> QED BY <1>1, <1>2, <2>1, <2>2, <2>4, <2>5
<1>4. CASE IsPrefix(from, h)
  <2>1. Len(from) <= n - 1
    BY <1>1, <1>3, <1>4, PrefixIs
  <2> DEFINE e == MovedTo(from, to, d)
             k == n - Len(from)
             f == Front(m)
  <2>2. Len(to) \in Nat /\ k \in Nat \ {0} /\ (n - 1) - Len(from) = k - 1
    BY <1>1, <1>2, <2>1
  <2>3. /\ m \in Seq(S) /\ Len(m) = Len(to) + k
        /\ \A i \in 1 .. Len(to) : m[i] = to[i]
        /\ \A i \in Len(from) + 1 .. n :
             \A j \in Int : j = (i - Len(from)) + Len(to) => m[j] = h[i]
    <3> HIDE DEF m
    <3>1. m = MovedTo(from, to, h)
      BY DEF m
    <3>2. GoesOn(S, from, to, h, m)
      BY <1>4, <3>1, MovedIs
    <3> QED BY <3>2 DEF GoesOn, k
  <2>4. /\ e \in Seq(S) /\ Len(e) = Len(to) + ((n - 1) - Len(from))
        /\ \A i \in 1 .. Len(to) : e[i] = to[i]
        /\ \A i \in Len(from) + 1 .. n - 1 :
             \A j \in Int : j = (i - Len(from)) + Len(to) => e[j] = d[i]
    <3>1. IsPrefix(from, d) /\ e = MovedTo(from, to, d)
      BY <1>3, <1>4
    <3> HIDE DEF d, n, e
    <3>2. GoesOn(S, from, to, d, e)
      BY <1>1, <3>1, MovedIs
    <3> QED BY <1>1, <3>2 DEF GoesOn
  <2>5. \A i \in 1 .. n - 1 : d[i] = h[i]
    <3>1. n - 1 \in 0 .. Len(h)
      BY <1>1
    <3> HIDE DEF d
    <3> QED BY <1>1, <3>1, UptoIs
  <2> HIDE DEF d, n, m, e, k
  <2>6. m # <<>> /\ Len(m) - 1 \in 0 .. Len(m)
    BY <2>2, <2>3
  <2>7. /\ f \in Seq(S) /\ Len(f) = Len(m) - 1 /\ \A i \in 1 .. Len(m) - 1 : f[i] = m[i]
    <3>1. f = Upto(m, Len(m) - 1)
      BY <2>3, <2>6, FrontIs
    <3> HIDE DEF f
    <3> QED BY <2>3, <2>6, <3>1, UptoIs
  <2> HIDE DEF f
  <2>8. Len(f) = Len(e)
    BY <2>2, <2>3, <2>4, <2>7
  <2>9. ASSUME NEW j \in 1 .. Len(f) PROVE f[j] = e[j]
    <3>0. j \in 1 .. Len(m) - 1 /\ j \in Int
      BY <2>7
    <3>1. CASE j <= Len(to)
      <4>1. j \in 1 .. Len(to)
        BY <2>2, <3>0, <3>1
      <4> QED BY <2>3, <2>4, <2>7, <3>0, <4>1
    <3>2. CASE ~ (j <= Len(to))
      <4> DEFINE i == (j - Len(to)) + Len(from)
      <4>1. i \in Len(from) + 1 .. n - 1 /\ i \in Len(from) + 1 .. n /\ i \in 1 .. n - 1
            /\ j = (i - Len(from)) + Len(to)
        BY <1>1, <1>2, <2>2, <2>3, <3>0, <3>2 DEF k
      <4> HIDE DEF i
      <4>2. m[j] = h[i]
        BY <2>3, <3>0, <4>1
      <4>3. e[j] = d[i]
        BY <2>4, <3>0, <4>1
      <4>4. d[i] = h[i]
        BY <2>5, <4>1
      <4> QED BY <2>7, <3>0, <4>2, <4>3, <4>4
    <3> QED BY <3>1, <3>2
  <2>10. f = e
    BY <2>4, <2>7, <2>8, <2>9, SamePath
  <2> QED BY <2>10 DEF f, m, e, d
<1>5. CASE ~ IsPrefix(from, h)
  BY <1>3, <1>5 DEF MovedTo
<1> QED BY <1>4, <1>5

LEMMA MovedSame ==
  ASSUME NEW S, NEW from \in Seq(S), NEW to \in Seq(S),
         NEW h \in Seq(S), NEW k \in Seq(S), IsPrefix(from, h), IsPrefix(from, k),
         MovedTo(from, to, h) = MovedTo(from, to, k)
  PROVE  h = k
<1> DEFINE m == MovedTo(from, to, h)
<1>0. m = MovedTo(from, to, h) /\ m = MovedTo(from, to, k)
  OBVIOUS
<1> HIDE DEF m
<1>1. /\ Len(m) = Len(to) + (Len(h) - Len(from))
      /\ \A i \in Len(from) + 1 .. Len(h) :
           \A j \in Int : j = (i - Len(from)) + Len(to) => m[j] = h[i]
  <2>1. GoesOn(S, from, to, h, m)
    BY <1>0, MovedIs
  <2> QED BY <2>1 DEF GoesOn
<1>2. /\ Len(m) = Len(to) + (Len(k) - Len(from))
      /\ \A i \in Len(from) + 1 .. Len(k) :
           \A j \in Int : j = (i - Len(from)) + Len(to) => m[j] = k[i]
  <2>1. GoesOn(S, from, to, k, m)
    BY <1>0, MovedIs
  <2> QED BY <2>1 DEF GoesOn
<1>3. Len(from) \in Nat /\ Len(h) \in Nat /\ Len(k) \in Nat /\ Len(to) \in Nat
  OBVIOUS
<1>4. /\ Len(from) <= Len(h) /\ Upto(h, Len(from)) = from
      /\ Len(from) <= Len(k) /\ Upto(k, Len(from)) = from
  BY PrefixIs
<1>5. /\ \A i \in 1 .. Len(from) : Upto(h, Len(from))[i] = h[i]
      /\ \A i \in 1 .. Len(from) : Upto(k, Len(from))[i] = k[i]
  <2>1. Len(from) \in 0 .. Len(h) /\ Len(from) \in 0 .. Len(k)
    BY <1>3, <1>4
  <2> QED BY <2>1, UptoIs
<1>6. Len(h) = Len(k)
  BY <1>1, <1>2, <1>3
<1>7. ASSUME NEW i \in 1 .. Len(h) PROVE h[i] = k[i]
  <2>1. CASE i \in 1 .. Len(from)
    BY <1>4, <1>5, <2>1
  <2>2. CASE i \notin 1 .. Len(from)
    <3> DEFINE j == (i - Len(from)) + Len(to)
    <3>1. j \in Int /\ i \in Len(from) + 1 .. Len(h)
      BY <1>3, <2>2
    <3>2. j = (i - Len(from)) + Len(to)
      OBVIOUS
    <3> HIDE DEF j
    <3> QED BY <1>1, <1>2, <1>6, <3>1, <3>2
  <2> QED BY <2>1, <2>2
<1> QED BY <1>6, <1>7, SamePath

\* What begins a beginning of a path begins the path.
LEMMA PrefixOfUpto ==
  ASSUME NEW S, NEW a \in Seq(S), NEW h \in Seq(S), NEW k \in 0 .. Len(h),
         IsPrefix(a, Upto(h, k))
  PROVE  IsPrefix(a, h)
<1> DEFINE u == Upto(h, k)
<1>1. u \in Seq(S) /\ Len(u) = k /\ Len(h) \in Nat /\ Len(a) \in Nat
  BY UptoIs
<1>2. IsPrefix(a, u)
  OBVIOUS
<1> HIDE DEF u
<1>3. Len(a) <= k /\ Upto(u, Len(a)) = a
  BY <1>1, <1>2, PrefixIs
<1>4. Len(a) \in 0 .. k /\ Len(a) <= Len(h)
  BY <1>1, <1>3
<1>5. Upto(u, Len(a)) = Upto(h, Len(a))
  BY <1>4, UptoOfUpto DEF u
<1> QED BY <1>3, <1>4, <1>5, PrefixIs

\* What is moved begins with the new path.
LEMMA MovedPrefix ==
  ASSUME NEW S, NEW from \in Seq(S), NEW to \in Seq(S), NEW h \in Seq(S),
         IsPrefix(from, h), NEW m, m = MovedTo(from, to, h)
  PROVE  m \in Seq(S) /\ Len(to) \in 0 .. Len(m) /\ Upto(m, Len(to)) = to
<1>1. GoesOn(S, from, to, h, m)
  BY MovedIs
<1>2. Len(to) \in Nat
  OBVIOUS
<1>3. m \in Seq(S) /\ Len(to) \in 0 .. Len(m) /\ \A i \in 1 .. Len(to) : m[i] = to[i]
  BY <1>1, <1>2 DEF GoesOn
<1> DEFINE u == Upto(m, Len(to))
<1>4. u \in Seq(S) /\ Len(u) = Len(to) /\ \A i \in 1 .. Len(to) : u[i] = m[i]
  BY <1>3, UptoIs
<1> HIDE DEF u
<1>5. u = to
  BY <1>3, <1>4, SamePath
<1> QED BY <1>3, <1>5 DEF u

\* from and all in it go to the new path to, which is in a directory.
Renames(F, D, from, to) ==
  /\ Folder(F, D) /\ from \in F \cup D /\ from # <<>>
  /\ to \in Paths(Names) /\ to \notin F \cup D /\ Front(to) \in D
  /\ ~IsPrefix(from, to)
  /\ \A h \in F \cup D : Len(MovedTo(from, to, h)) <= MaxDepth

LEMMA RenamePaths ==
  ASSUME NEW F, NEW D, NEW from, NEW to, Renames(F, D, from, to)
  PROVE  /\ from \in Seq(Names) /\ to \in Seq(Names)
         /\ Len(from) \in Nat \ {0} /\ Len(to) \in Nat \ {0} /\ to # <<>>
<1>1. from \in Seq(Names)
  BY FolderPaths DEF Renames
<1>2. to \in Seq(Names) /\ Len(to) \in 1 .. MaxDepth
  BY PathsAre DEF Renames
<1>3. MaxDepth \in Nat /\ from # <<>>
  BY LongNamesAssumption DEF LongNamesAssumption, Renames
<1> QED BY <1>1, <1>2, <1>3

LEMMA RenameMoves ==
  ASSUME NEW F, NEW D, NEW from, NEW to, Renames(F, D, from, to),
         NEW h \in F \cup D
  PROVE  /\ MovedTo(from, to, h) \in Seq(Names)
         /\ h = <<>> => MovedTo(from, to, h) = <<>>
         /\ h # <<>> => MovedTo(from, to, h) \in Paths(Names)
<1> DEFINE m == MovedTo(from, to, h)
<1>0. /\ from \in Seq(Names) /\ to \in Seq(Names)
      /\ Len(from) \in Nat \ {0} /\ Len(to) \in Nat \ {0}
  BY RenamePaths
<1>1. h \in Seq(Names) /\ Len(h) \in 0 .. MaxDepth /\ MaxDepth \in Nat
  BY FolderPaths, LongNamesAssumption DEF Renames, LongNamesAssumption
<1>2. Len(m) <= MaxDepth
  BY DEF Renames
<1>3. CASE IsPrefix(from, h)
  <2>1. m = MovedTo(from, to, h)
    OBVIOUS
  <2> HIDE DEF m
  <2>2. m \in Seq(Names) /\ Len(to) \in 0 .. Len(m)
    BY <1>0, <1>1, <1>3, <2>1, MovedPrefix
  <2>3. Len(from) <= Len(h)
    BY <1>0, <1>1, <1>3, PrefixIs
  <2>4. Len(m) \in 1 .. MaxDepth
    BY <1>0, <1>1, <1>2, <2>2
  <2>5. m \in Paths(Names)
    BY <2>2, <2>4, PathsAre
  <2>6. h # <<>>
    BY <1>0, <2>3
  <2> QED BY <2>2, <2>5, <2>6 DEF m
<1>4. CASE ~ IsPrefix(from, h)
  <2>1. m = h
    BY <1>4 DEF MovedTo
  <2> HIDE DEF m
  <2>2. h # <<>> => Len(h) \in 1 .. MaxDepth
    BY <1>1
  <2>3. h # <<>> => h \in Paths(Names)
    BY <1>1, <2>2, PathsAre
  <2> QED BY <1>1, <2>1, <2>3 DEF m
<1> QED BY <1>3, <1>4

\* Nothing moves onto what is there, nor two entries to the same place.
LEMMA RenameApart ==
  ASSUME NEW F, NEW D, NEW from, NEW to, Renames(F, D, from, to),
         NEW h \in F \cup D, NEW k \in F \cup D,
         MovedTo(from, to, h) = MovedTo(from, to, k)
  PROVE  h = k
<1>0. /\ from \in Seq(Names) /\ to \in Seq(Names)
      /\ Len(from) \in Nat \ {0} /\ Len(to) \in Nat \ {0}
  BY RenamePaths
<1>1. h \in Seq(Names) /\ k \in Seq(Names)
  BY FolderPaths DEF Renames
<1>2. ASSUME NEW a \in F \cup D, NEW b \in F \cup D, IsPrefix(from, a),
             ~ IsPrefix(from, b), MovedTo(from, to, a) = MovedTo(from, to, b)
      PROVE  FALSE
  <2>1. a \in Seq(Names) /\ b \in Seq(Names)
    BY FolderPaths DEF Renames
  <2>2. b = MovedTo(from, to, a)
    BY <1>2 DEF MovedTo
  <2>3. Len(to) \in 0 .. Len(b) /\ Upto(b, Len(to)) = to
    BY <1>0, <1>2, <2>1, <2>2, MovedPrefix
  <2>4. CASE Len(to) = Len(b)
    <3>1. to = b
      BY <2>1, <2>3, <2>4, UptoAll
    <3> QED BY <3>1 DEF Renames
  <2>5. CASE Len(to) # Len(b)
    <3>1. Len(to) \in 0 .. Len(b) - 1
      BY <2>1, <2>3, <2>5
    <3>2. Upto(b, Len(to)) \in D
      BY <3>1, FolderClosed DEF Renames
    <3> QED BY <2>3, <3>2 DEF Renames
  <2> QED BY <2>4, <2>5
<1>3. CASE IsPrefix(from, h) /\ IsPrefix(from, k)
  BY <1>0, <1>1, <1>3, MovedSame
<1>4. CASE ~ IsPrefix(from, h) /\ ~ IsPrefix(from, k)
  BY <1>4 DEF MovedTo
<1>5. CASE IsPrefix(from, h) /\ ~ IsPrefix(from, k)
  BY <1>2, <1>5
<1>6. CASE ~ IsPrefix(from, h) /\ IsPrefix(from, k)
  BY <1>2, <1>6
<1> QED BY <1>3, <1>4, <1>5, <1>6

\* The directories that the new path goes through stay.
LEMMA RenameStays ==
  ASSUME NEW F, NEW D, NEW from, NEW to, Renames(F, D, from, to),
         NEW k \in 0 .. Len(to) - 1
  PROVE  Upto(to, k) \in D /\ MovedTo(from, to, Upto(to, k)) = Upto(to, k)
<1>0. /\ from \in Seq(Names) /\ to \in Seq(Names)
      /\ Len(from) \in Nat \ {0} /\ Len(to) \in Nat \ {0} /\ to # <<>>
  BY RenamePaths
<1> DEFINE d == Front(to)
<1>1. /\ d = Upto(to, Len(to) - 1) /\ d \in Seq(Names) /\ Len(d) = Len(to) - 1
  BY <1>0, FrontIs
<1>2. d \in D
  BY DEF Renames
<1>3. Len(to) - 1 \in 0 .. Len(to) /\ k \in 0 .. Len(to) - 1 /\ k \in 0 .. Len(to)
  BY <1>0
<1>4. Upto(d, k) = Upto(to, k)
  BY <1>0, <1>1, <1>3, UptoOfUpto
<1>5. Upto(d, k) \in D
  <2> HIDE DEF d
  <2>1. CASE k = Len(d)
    BY <1>1, <1>2, <2>1, UptoAll
  <2>2. CASE k # Len(d)
    <3>1. k \in 0 .. Len(d) - 1
      BY <1>0, <1>1, <1>3, <2>2
    <3> QED BY <1>2, <3>1, FolderClosed DEF Renames
  <2> QED BY <2>1, <2>2
<1>6. ~ IsPrefix(from, Upto(to, k))
  BY <1>0, <1>3, PrefixOfUpto DEF Renames
<1> QED BY <1>4, <1>5, <1>6 DEF MovedTo

Moves(from, to, T) == {MovedTo(from, to, h) : h \in T}

LEMMA FolderRenamed ==
  ASSUME NEW F, NEW D, NEW from, NEW to, Renames(F, D, from, to)
  PROVE  Folder(Moves(from, to, F), Moves(from, to, D))
<1> DEFINE F2 == Moves(from, to, F)
           D2 == Moves(from, to, D)
<1>0. /\ from \in Seq(Names) /\ to \in Seq(Names)
      /\ Len(from) \in Nat \ {0} /\ Len(to) \in Nat \ {0} /\ to # <<>>
  BY RenamePaths
<1>1. Folder(F, D) /\ <<>> \notin F
  <2>1. \A h \in Paths(Names) : h # <<>>
    BY PathsAre
  <2> QED BY <2>1 DEF Renames, Folder
<1>2. F2 \subseteq Paths(Names)
  BY <1>1, RenameMoves DEF Moves
<1>3. D2 \subseteq Paths(Names) \cup {<<>>}
  BY RenameMoves DEF Moves
<1>4. F2 \cap D2 = {}
  <2> SUFFICES ASSUME NEW h \in F, NEW k \in D,
                      MovedTo(from, to, h) = MovedTo(from, to, k)
               PROVE  FALSE
    BY DEF Moves
  <2>1. h = k
    BY RenameApart
  <2> QED BY <1>1, <2>1 DEF Folder
<1>5. <<>> \in D2
  <2>1. <<>> \in D /\ MovedTo(from, to, <<>>) = <<>>
    BY <1>1, RenameMoves DEF Folder
  <2> QED BY <2>1 DEF Moves
<1>6. ASSUME NEW m \in (F2 \cup D2) \ {<<>>} PROVE Front(m) \in D2
  <2>1. PICK h \in F \cup D : m = MovedTo(from, to, h)
    BY DEF Moves
  <2>2. h # <<>> /\ m # <<>>
    BY <2>1, RenameMoves
  <2>3. h \in Seq(Names)
    BY <1>1, FolderPaths
  <2>4. CASE h = from
    <3>1. m = to
      BY <1>0, <2>1, <2>4, MovedStart
    <3>2. Len(to) - 1 \in 0 .. Len(to) - 1 /\ Front(to) = Upto(to, Len(to) - 1)
      BY <1>0, FrontIs
    <3>3. Front(to) \in D /\ MovedTo(from, to, Front(to)) = Front(to)
      BY <3>2, RenameStays
    <3> QED BY <3>1, <3>3 DEF Moves
  <2>5. CASE h # from
    <3>1. Front(m) = MovedTo(from, to, Front(h))
      BY <1>0, <2>1, <2>2, <2>3, <2>5, MovedFront
    <3>2. Front(h) \in D
      BY <1>1, <2>2 DEF Folder
    <3> QED BY <3>1, <3>2 DEF Moves
  <2> QED BY <2>4, <2>5
<1> HIDE DEF F2, D2
<1>7. Folder(F2, D2)
  BY <1>2, <1>3, <1>4, <1>5, <1>6 DEF Folder
<1> QED BY <1>7 DEF F2, D2

-----------------------------------------------------------------------------
(* What the calls do *)

LEMMA DosPathsAre ==
  ASSUME NEW p \in DosPaths
  PROVE  /\ p \in Seq(Names) /\ p \in Seq(Fits) /\ Len(p) \in 1 .. MaxDepth
         /\ Len(p) \in Nat \ {0} /\ p # <<>> /\ p \in Paths(Names)
         /\ \A i \in 1 .. Len(p) : p[i] \in Fits
         /\ HostPath(p) \in Paths(Names) /\ HostPath(p) \in Seq(Names)
         /\ Len(HostPath(p)) = Len(p) /\ HostPath(p) # <<>>
<1>1. Fits \subseteq Names /\ MaxDepth \in Nat
  BY LongNamesAssumption DEF LongNamesAssumption
<1>2. p \in Seq(Fits) /\ Len(p) \in 1 .. MaxDepth
  BY PathsAre DEF DosPaths
<1>3. \A i \in 1 .. Len(p) : p[i] \in Fits
  BY <1>2
<1>4. p \in Seq(Names)
  BY <1>1, <1>2
<1>5. p \in Paths(Names)
  BY <1>2, <1>4, PathsAre
<1>6. HostPath(p) \in Seq(Names) /\ Len(HostPath(p)) = Len(p)
  BY <1>4, HostPathLeads
<1>7. HostPath(p) \in Paths(Names)
  BY <1>2, <1>6, PathsAre
<1>8. Len(p) \in Nat \ {0}
  BY <1>1, <1>2
<1>9. p # <<>>
  BY <1>8
<1>10. HostPath(p) # <<>>
  <2> DEFINE h == HostPath(p)
  <2>1. h \in Seq(Names) /\ Len(h) = Len(p)
    BY <1>6
  <2> HIDE DEF h
  <2>2. h # <<>>
    BY <1>8, <2>1
  <2> QED BY <2>2 DEF h
<1> QED BY <1>2, <1>3, <1>4, <1>5, <1>6, <1>7, <1>8, <1>9, <1>10

Shape == Folder(files, dirs)

LEMMA TypeIsShape ==
  /\ NamesTypeOK => Shape /\ named \in [dos : DosPaths \cup {<<>>}, host : Paths(Names) \cup {<<>>}]
  /\ Shape /\ named \in [dos : DosPaths \cup {<<>>}, host : Paths(Names) \cup {<<>>}] => NamesTypeOK
  /\ NamesTypeOK' => Shape'
  /\ Shape' /\ named' \in [dos : DosPaths \cup {<<>>}, host : Paths(Names) \cup {<<>>}] => NamesTypeOK'
BY DEF NamesTypeOK, Shape, Folder, Tree

\* All actions that give nothing a new name
Other ==
  \/ \E p \in DosPaths : Delete(p) \/ RmDir(p)
  \/ \E h \in Paths(Names) : HostMakes(h) \/ HostRemoves(h)

LEMMA NewsAre ==
  ASSUME NEW h \in Paths(Names), Shape, New(h)
  PROVE  Folder(files \cup {h}, dirs) /\ Folder(files, dirs \cup {h})
BY FolderGrows DEF New, Tree, Shape

LEMMA OtherIs ==
  ASSUME Shape, Other
  PROVE  Shape' /\ named' = [dos |-> <<>>, host |-> <<>>]
<1>1. ASSUME NEW p \in DosPaths, Delete(p) PROVE Shape'
  BY <1>1, FolderShrinks DEF Delete, Shape
<1>2. ASSUME NEW p \in DosPaths, RmDir(p) PROVE Shape'
  <2> DEFINE h == HostPath(p)
  <2>1. h # <<>>
    BY DosPathsAre
  <2>2. h \in dirs /\ Entries(h) = {} /\ dirs' = dirs \ {h} /\ files' = files
    BY <1>2 DEF RmDir
  <2> HIDE DEF h
  <2>3. EntriesOf(files, dirs, h) = {}
    BY <2>2, EntriesAre
  <2> QED BY <2>1, <2>2, <2>3, FolderShrinks DEF Shape
<1>3. ASSUME NEW h \in Paths(Names), HostMakes(h) PROVE Shape'
  BY <1>3, NewsAre DEF HostMakes, Shape
<1>4. ASSUME NEW h \in Paths(Names), HostRemoves(h) PROVE Shape'
  <2>1. h # <<>>
    BY PathsAre
  <2>2. Entries(h) = EntriesOf(files, dirs, h)
    BY EntriesAre
  <2>3. CASE h \in files /\ files' = files \ {h} /\ dirs' = dirs
    BY <2>3, FolderShrinks DEF Shape
  <2>4. CASE h \in dirs /\ Entries(h) = {} /\ dirs' = dirs \ {h} /\ files' = files
    BY <2>1, <2>2, <2>4, FolderShrinks DEF Shape
  <2> QED BY <1>4, <2>3, <2>4 DEF HostRemoves
<1>5. named' = [dos |-> <<>>, host |-> <<>>]
  BY DEF Other, Delete, RmDir, HostMakes, HostRemoves, NoName, Call
<1> QED BY <1>1, <1>2, <1>3, <1>4, <1>5 DEF Other

LEMMA RenameIs ==
  ASSUME NEW p \in DosPaths, NEW q \in DosPaths, Shape, Rename(p, q),
         NEW from, from = HostPath(p), NEW to, to = HostPath(q)
  PROVE  /\ Renames(files, dirs, from, to) /\ New(to)
         /\ files' = Moves(from, to, files) /\ dirs' = Moves(from, to, dirs)
         /\ named' = [dos |-> q, host |-> to]
<1>1. from # <<>> /\ to \in Paths(Names)
  BY DosPathsAre
<1>2. /\ from \in Tree /\ New(to) /\ ~IsPrefix(from, to)
      /\ \A h \in Tree : Len(MovedTo(from, to, h)) <= MaxDepth
      /\ files' = {MovedTo(from, to, h) : h \in files}
      /\ dirs' = {MovedTo(from, to, h) : h \in dirs}
      /\ named' = [dos |-> q, host |-> to]
  BY Zenon DEF Rename, MovedTo, Call
<1> QED BY <1>1, <1>2 DEF Renames, Shape, New, Tree, Moves

LEMMA CallsAre ==
  ASSUME Shape, [NamesNext]_namesvars
  PROVE  Shape'
<1>1. ASSUME NEW p \in DosPaths, Create(p) \/ MkDir(p) PROVE Shape'
  <2> DEFINE h == HostPath(p)
  <2>1. h \in Paths(Names)
    BY DosPathsAre
  <2>2. /\ New(h)
        /\ \/ files' = files \cup {h} /\ dirs' = dirs
           \/ files' = files /\ dirs' = dirs \cup {h}
    BY <1>1 DEF Create, MkDir
  <2> HIDE DEF h
  <2> QED BY <2>1, <2>2, NewsAre DEF Shape
<1>2. ASSUME NEW p \in DosPaths, NEW q \in DosPaths, Rename(p, q) PROVE Shape'
  BY <1>2, RenameIs, FolderRenamed DEF Shape
<1>3. CASE Other
  BY <1>3, OtherIs
<1>4. CASE UNCHANGED namesvars
  BY <1>4 DEF namesvars, Shape
<1> QED BY <1>1, <1>2, <1>3, <1>4 DEF NamesNext, Other

LEMMA NamesTypeHolds ==
  ASSUME NamesTypeOK, [NamesNext]_namesvars
  PROVE  NamesTypeOK'
<1>1. Shape /\ Shape'
  BY TypeIsShape, CallsAre
<1> DEFINE R == [dos : DosPaths \cup {<<>>}, host : Paths(Names) \cup {<<>>}]
<1>2. ASSUME NEW p \in DosPaths, Create(p) \/ MkDir(p) PROVE named' \in R
  <2>1. HostPath(p) \in Paths(Names)
    BY DosPathsAre
  <2>2. named' = [dos |-> p, host |-> HostPath(p)]
    BY <1>2 DEF Create, MkDir, Call
  <2> QED BY <2>1, <2>2
<1>3. ASSUME NEW p \in DosPaths, NEW q \in DosPaths, Rename(p, q) PROVE named' \in R
  <2>1. HostPath(q) \in Paths(Names)
    BY DosPathsAre
  <2>2. named' = [dos |-> q, host |-> HostPath(q)]
    BY <1>1, <1>3, RenameIs
  <2> QED BY <2>1, <2>2
<1>4. ASSUME Other PROVE named' \in R
  <2>1. named' = [dos |-> <<>>, host |-> <<>>]
    BY <1>1, <1>4, OtherIs
  <2> QED BY <2>1
<1>5. ASSUME UNCHANGED namesvars PROVE named' \in R
  <2>1. named \in R
    BY TypeIsShape
  <2> HIDE DEF R
  <2> QED BY <1>5, <2>1 DEF namesvars
<1> HIDE DEF R
<1>6. named' \in R
  BY <1>2, <1>3, <1>4, <1>5 DEF NamesNext, Other
<1> QED BY <1>1, <1>6, TypeIsShape DEF R

\* Whatever DOS and the user of the host make, remove and rename, what is in
\* the folder is a tree, each entry in a directory that is there, and no path
\* is longer than it may be (sftsr.c:478-578, 851-902, 1301-1359).
THEOREM NamesTypeCorrect == NamesSpec => []NamesTypeOK
<1>1. NamesInit => NamesTypeOK
  <2> SUFFICES ASSUME NamesInit PROVE NamesTypeOK
    OBVIOUS
  <2> QED BY DEF NamesInit, NamesTypeOK, Tree
<1>2. NamesTypeOK /\ [NamesNext]_namesvars => NamesTypeOK'
  BY NamesTypeHolds
<1> QED BY <1>1, <1>2, PTL DEF NamesSpec

-----------------------------------------------------------------------------
(* New names are found *)

LEMMA NameStays ==
  ASSUME NEW F, NEW D, NEW F2, NEW D2, NEW d \in D \cap D2, NEW c,
         NEW x, x = NameOf(F, D, d, c),
         EntriesOf(F2, D2, d) \subseteq EntriesOf(F, D, d) \cup {x},
         x \in EntriesOf(F2, D2, d)
  PROVE  NameOf(F2, D2, d, c) = x
<1>1. CASE c \notin Tildes
  BY <1>1 DEF NameOf
<1>2. CASE c \in Tildes
  <2> DEFINE old == {n \in EntriesOf(F, D, d) : Mangled[n] = c}
             new == {n \in EntriesOf(F2, D2, d) : Mangled[n] = c}
             y == Lookup(F2, D2, d, c)
  <2>1. x = Lookup(F, D, d, c) /\ NameOf(F2, D2, d, c) = y
    BY <1>2 DEF NameOf
  <2>2. /\ old # {} => x \in old /\ \A n \in old : Order[x] <= Order[n]
        /\ old = {} => x = c
    BY <2>1, LookupIs
  <2>3. /\ new # {} => y \in new /\ \A n \in new : Order[y] <= Order[n]
        /\ new = {} => y = c
    BY LookupIs
  <2>4. new \subseteq old \cup {x} /\ old \subseteq Names /\ new \subseteq Names
    BY DEF EntriesOf
  <2>5. x \in old => x \in new
    OBVIOUS
  <2> HIDE DEF old, new, y
  <2>6. CASE old = {}
    <3>1. x = c /\ new \subseteq {x}
      BY <2>2, <2>4, <2>6
    <3> QED BY <2>1, <2>3, <3>1
  <2>7. CASE old # {}
    <3>1. x \in old /\ x \in new /\ new # {}
      BY <2>2, <2>5, <2>7
    <3>2. y \in new /\ y \in old /\ x \in Names /\ y \in Names
      BY <2>3, <2>4, <3>1
    <3>3. Order[x] <= Order[y] /\ Order[y] <= Order[x]
      BY <2>2, <2>3, <3>1, <3>2
    <3>4. Order[x] \in Nat /\ Order[y] \in Nat /\ (Order[x] = Order[y] => x = y)
      BY <3>2, LongNamesAssumption DEF LongNamesAssumption
    <3>5. x = y
      BY <3>3, <3>4
    <3> QED BY <2>1, <3>5
  <2> QED BY <2>6, <2>7
<1> QED BY <1>1, <1>2

\* Of the way to t, the directories stay and nothing is added but t.
Settles(F, D, F2, D2, t) ==
  \A i \in 1 .. Len(t) :
    LET d == Upto(t, i - 1)
    IN  /\ d \in D \cap D2 /\ t[i] \in EntriesOf(F2, D2, d)
        /\ EntriesOf(F2, D2, d) \subseteq EntriesOf(F, D, d) \cup {t[i]}

LEMMA Settled ==
  ASSUME NEW F, NEW D, NEW F2, NEW D2, NEW p, NEW t,
         Leads(F, D, p, t), Settles(F, D, F2, D2, t)
  PROVE  Leads(F2, D2, p, t)
<1>1. Len(t) = Len(p)
  BY DEF Leads
<1>2. ASSUME NEW i \in 1 .. Len(p)
      PROVE  t[i] = NameOf(F2, D2, Upto(t, i - 1), p[i])
  <2> DEFINE d == Upto(t, i - 1)
  <2>1. t[i] = NameOf(F, D, d, p[i])
    BY DEF Leads
  <2>2. /\ d \in D \cap D2 /\ t[i] \in EntriesOf(F2, D2, d)
        /\ EntriesOf(F2, D2, d) \subseteq EntriesOf(F, D, d) \cup {t[i]}
    BY <1>1 DEF Settles
  <2> HIDE DEF d
  <2>3. NameOf(F2, D2, d, p[i]) = t[i]
    BY <2>1, <2>2, NameStays
  <2> QED BY <2>3 DEF d
<1> QED BY <1>1, <1>2 DEF Leads

\* The steps of a path to something new, or to what is there
LEMMA StepsOf ==
  ASSUME NEW t \in Seq(Names), NEW i \in 1 .. Len(t)
  PROVE  /\ i - 1 \in 0 .. Len(t) - 1 /\ t[i] \in Names
         /\ Append(Upto(t, i - 1), t[i]) = Upto(t, i)
         /\ i # Len(t) => i \in 0 .. Len(t) - 1
         /\ i = Len(t) => Upto(t, i) = t
         /\ \A n \in Names : Len(Append(Upto(t, i - 1), n)) = i
         /\ \A n \in Names : Append(Upto(t, i - 1), n)[i] = n
<1>1. /\ i - 1 \in 0 .. Len(t) - 1 /\ i - 1 \in 0 .. Len(t) /\ (i - 1) + 1 = i
      /\ (i # Len(t) => i \in 0 .. Len(t) - 1) /\ t[i] \in Names
  OBVIOUS
<1>2. Append(Upto(t, i - 1), t[i]) = Upto(t, i)
  <2> DEFINE k == i - 1
  <2>1. k \in 0 .. Len(t) - 1 /\ k + 1 = i
    BY <1>1
  <2> HIDE DEF k
  <2>2. Upto(t, k + 1) = Append(Upto(t, k), t[k + 1])
    BY <2>1, UptoNext
  <2> QED BY <2>1, <2>2 DEF k
<1>3. i = Len(t) => Upto(t, i) = t
  BY UptoAll
<1> DEFINE u == Upto(t, i - 1)
<1>4. u \in Seq(Names) /\ Len(u) = i - 1
  BY <1>1, UptoIs
<1> HIDE DEF u
<1>5. ASSUME NEW n \in Names PROVE Len(Append(u, n)) = i /\ Append(u, n)[i] = n
  BY <1>1, <1>4
<1> QED BY <1>1, <1>2, <1>3, <1>5 DEF u

LEMMA NewSettles ==
  ASSUME NEW t \in Paths(Names), NEW F2, NEW D2, Shape, New(t),
         dirs \subseteq D2, F2 \cup D2 = Tree \cup {t}
  PROVE  Settles(files, dirs, F2, D2, t)
<1>1. t \in Seq(Names)
  BY PathsAre
<1>2. ASSUME NEW k \in 0 .. Len(t) - 1 PROVE Upto(t, k) \in dirs
  <2> DEFINE d == Front(t)
  <2>0. Len(t) \in Nat /\ t # <<>>
    BY <1>1, PathsAre
  <2>1. d = Upto(t, Len(t) - 1) /\ d \in Seq(Names) /\ Len(d) = Len(t) - 1
    BY <1>1, <2>0, FrontIs
  <2>2. d \in dirs
    BY DEF New
  <2>3. Len(t) - 1 \in 0 .. Len(t) /\ k \in 0 .. Len(t) - 1
    BY <2>0
  <2>4. Upto(d, k) = Upto(t, k)
    BY <1>1, <2>1, <2>3, UptoOfUpto
  <2> HIDE DEF d
  <2>5. Upto(d, k) \in dirs
    <3>1. CASE k = Len(d)
      BY <2>1, <2>2, <3>1, UptoAll
    <3>2. CASE k # Len(d)
      <4>1. k \in 0 .. Len(d) - 1
        BY <2>0, <2>1, <2>3, <3>2
      <4> QED BY <2>2, <4>1, FolderClosed DEF Shape
    <3> QED BY <3>1, <3>2
  <2> QED BY <2>4, <2>5
<1>3. ASSUME NEW i \in 1 .. Len(t)
      PROVE  LET d == Upto(t, i - 1)
             IN  /\ d \in dirs \cap D2 /\ t[i] \in EntriesOf(F2, D2, d)
                 /\ EntriesOf(F2, D2, d) \subseteq EntriesOf(files, dirs, d) \cup {t[i]}
  <2> DEFINE d == Upto(t, i - 1)
  <2>1. /\ i - 1 \in 0 .. Len(t) - 1 /\ t[i] \in Names
        /\ Append(d, t[i]) = Upto(t, i)
        /\ i # Len(t) => i \in 0 .. Len(t) - 1
        /\ i = Len(t) => Upto(t, i) = t
        /\ \A n \in Names : Append(d, n)[i] = n
    BY <1>1, StepsOf
  <2>2. d \in dirs
    BY <1>2, <2>1
  <2>3. Upto(t, i) \in F2 \cup D2
    BY <1>2, <2>1 DEF Tree
  <2> HIDE DEF d
  <2>4. t[i] \in EntriesOf(F2, D2, d)
    BY <2>1, <2>3 DEF EntriesOf
  <2>5. ASSUME NEW n \in EntriesOf(F2, D2, d)
        PROVE  n \in EntriesOf(files, dirs, d) \cup {t[i]}
    <3>1. n \in Names /\ Append(d, n) \in Tree \cup {t}
      BY DEF EntriesOf
    <3>2. Append(d, n)[i] = n
      BY <2>1, <3>1
    <3> QED BY <3>1, <3>2 DEF EntriesOf, Tree
  <2>6. /\ d \in dirs \cap D2 /\ t[i] \in EntriesOf(F2, D2, d)
        /\ EntriesOf(F2, D2, d) \subseteq EntriesOf(files, dirs, d) \cup {t[i]}
    BY <2>2, <2>4, <2>5
  <2> QED BY <2>6 DEF d
<1> QED BY <1>3 DEF Settles

LEMMA RenameSettles ==
  ASSUME NEW F, NEW D, NEW from, NEW to, Renames(F, D, from, to)
  PROVE  Settles(F, D, Moves(from, to, F), Moves(from, to, D), to)
<1> DEFINE F2 == Moves(from, to, F)
           D2 == Moves(from, to, D)
<1>1. /\ from \in Seq(Names) /\ to \in Seq(Names)
      /\ Len(from) \in Nat \ {0} /\ Len(to) \in Nat \ {0}
  BY RenamePaths
<1>2. to \in F2 \cup D2
  <2>1. MovedTo(from, to, from) = to /\ from \in F \cup D
    BY <1>1, MovedStart DEF Renames
  <2> QED BY <2>1 DEF Moves
<1>3. ASSUME NEW k \in 0 .. Len(to) - 1 PROVE Upto(to, k) \in D \cap D2
  BY RenameStays DEF Moves
<1>4. ASSUME NEW m \in F2 \cup D2, m \notin F \cup D
      PROVE  m \in Seq(Names) /\ Len(to) \in 0 .. Len(m) /\ Upto(m, Len(to)) = to
  <2>1. PICK h \in F \cup D : m = MovedTo(from, to, h)
    BY DEF Moves
  <2>2. IsPrefix(from, h)
    BY <1>4, <2>1 DEF MovedTo
  <2>3. h \in Seq(Names)
    BY FolderPaths DEF Renames
  <2> QED BY <1>1, <2>1, <2>2, <2>3, MovedPrefix
<1> HIDE DEF F2, D2
<1>5. ASSUME NEW i \in 1 .. Len(to)
      PROVE  LET d == Upto(to, i - 1)
             IN  /\ d \in D \cap D2 /\ to[i] \in EntriesOf(F2, D2, d)
                 /\ EntriesOf(F2, D2, d) \subseteq EntriesOf(F, D, d) \cup {to[i]}
  <2> DEFINE d == Upto(to, i - 1)
  <2>1. /\ i - 1 \in 0 .. Len(to) - 1 /\ to[i] \in Names
        /\ Append(d, to[i]) = Upto(to, i)
        /\ i # Len(to) => i \in 0 .. Len(to) - 1
        /\ i = Len(to) => Upto(to, i) = to
        /\ \A n \in Names : Len(Append(d, n)) = i
        /\ \A n \in Names : Append(d, n)[i] = n
    BY <1>1, StepsOf
  <2>2. d \in D \cap D2
    BY <1>3, <2>1
  <2>3. Upto(to, i) \in F2 \cup D2
    BY <1>2, <1>3, <2>1
  <2> HIDE DEF d
  <2>4. to[i] \in EntriesOf(F2, D2, d)
    BY <2>1, <2>3 DEF EntriesOf
  <2>5. ASSUME NEW n \in EntriesOf(F2, D2, d)
        PROVE  n \in EntriesOf(F, D, d) \cup {to[i]}
    <3> DEFINE m == Append(d, n)
    <3>1. n \in Names /\ m \in F2 \cup D2 /\ m[i] = n /\ Len(m) = i
      BY <2>1 DEF EntriesOf
    <3> HIDE DEF m
    <3>2. CASE m \in F \cup D
      BY <3>1, <3>2 DEF EntriesOf, m
    <3>3. CASE m \notin F \cup D
      <4>1. m \in Seq(Names) /\ Len(to) \in 0 .. Len(m) /\ Upto(m, Len(to)) = to
        BY <1>4, <3>1, <3>3
      <4>2. Len(to) = i /\ Len(m) = Len(to)
        BY <1>1, <3>1, <4>1
      <4>3. m = to
        BY <4>1, <4>2, UptoAll
      <4> QED BY <3>1, <4>3
    <3> QED BY <3>2, <3>3
  <2>6. /\ d \in D \cap D2 /\ to[i] \in EntriesOf(F2, D2, d)
        /\ EntriesOf(F2, D2, d) \subseteq EntriesOf(F, D, d) \cup {to[i]}
    BY <2>2, <2>4, <2>5
  <2> QED BY <2>6 DEF d
<1> QED BY <1>5 DEF Settles, F2, D2

\* Where the call is to make something, no entry looks like the last name.
LEMMA NewIsShown ==
  ASSUME NEW p \in DosPaths, New(HostPath(p))
  PROVE  Short(Last(HostPath(p))) = Last(p)
<1> DEFINE h == HostPath(p)
           d == HostPath(Front(p))
           c == Last(p)
           x == Last(h)
<1>1. p \in Seq(Names) /\ p # <<>> /\ h \in Seq(Names) /\ h # <<>>
  BY DosPathsAre
<1>2. c \in Fits
  <2>1. p \in Seq(Fits)
    BY DosPathsAre
  <2> QED BY <1>1, <2>1, FrontIs
<1>3. d = Front(h) /\ x = NameOf(files, dirs, d, c)
  BY <1>1, HostPathEnds
<1>4. h = Append(d, x) /\ x \in Names
  BY <1>1, <1>3, FrontIs
<1>5. d \in dirs /\ h \notin files \cup dirs
  BY <1>3 DEF New, Tree
<1> HIDE DEF h, d, c, x
<1>6. x \notin EntriesOf(files, dirs, d)
  BY <1>4, <1>5 DEF EntriesOf
<1>7. x = c
  <2>1. c \notin Tildes => x = c
    BY <1>3 DEF NameOf
  <2>2. c \in Tildes => x = c
    <3> SUFFICES ASSUME c \in Tildes PROVE x = c
      OBVIOUS
    <3>1. x = Lookup(files, dirs, d, c)
      BY <1>3 DEF NameOf
    <3> QED BY <1>6, <3>1, LookupIs
  <2> QED BY <2>1, <2>2
<1>8. Short(x) = c
  BY <1>2, <1>7 DEF Short
<1> QED BY <1>8 DEF x, h, c

LEMMA NewNamesHold ==
  ASSUME Shape, NewNamesAreFound, [NamesNext]_namesvars
  PROVE  NewNamesAreFound'
<1>1. ASSUME NEW p \in DosPaths, New(HostPath(p)),
             Settles(files, dirs, files', dirs', HostPath(p)),
             named' = [dos |-> p, host |-> HostPath(p)]
      PROVE  NewNamesAreFound'
  <2> DEFINE h == HostPath(p)
  <2>1. p \in Seq(Names) /\ h \in Seq(Names)
    BY DosPathsAre
  <2>2. Leads(files, dirs, p, h)
    BY <2>1, HostPathLeads
  <2>3. Short(Last(h)) = Last(p)
    BY <1>1, NewIsShown
  <2>4. Settles(files, dirs, files', dirs', h) /\ named' = [dos |-> p, host |-> h]
    BY <1>1
  <2> HIDE DEF h
  <2>5. Leads(files', dirs', p, h)
    BY <2>2, <2>4, Settled
  <2>6. HostPath(p)' = h
    BY <2>1, <2>5, HostPathOf
  <2>7. named'.dos = p /\ named'.host = h
    BY <2>4
  <2> QED BY <2>3, <2>6, <2>7 DEF NewNamesAreFound, Short
<1>2. ASSUME NEW p \in DosPaths, Create(p) \/ MkDir(p) PROVE NewNamesAreFound'
  <2> DEFINE h == HostPath(p)
  <2>1. h \in Paths(Names)
    BY DosPathsAre
  <2>2. /\ New(h) /\ named' = [dos |-> p, host |-> h]
        /\ \/ files' = files \cup {h} /\ dirs' = dirs
           \/ files' = files /\ dirs' = dirs \cup {h}
    BY <1>2 DEF Create, MkDir, Call
  <2>3. Settles(files, dirs, files', dirs', h)
    <3> HIDE DEF h
    <3>1. dirs \subseteq dirs' /\ files' \cup dirs' = Tree \cup {h}
      BY <2>2 DEF Tree
    <3> QED BY <2>1, <2>2, <3>1, NewSettles
  <2> QED BY <1>1, <2>2, <2>3
<1>3. ASSUME NEW p \in DosPaths, NEW q \in DosPaths, Rename(p, q)
      PROVE  NewNamesAreFound'
  <2> DEFINE from == HostPath(p)
             to == HostPath(q)
  <2>1. /\ Renames(files, dirs, from, to) /\ New(to)
        /\ files' = Moves(from, to, files) /\ dirs' = Moves(from, to, dirs)
        /\ named' = [dos |-> q, host |-> to]
    BY <1>3, RenameIs
  <2>2. Settles(files, dirs, files', dirs', to)
    BY <2>1, RenameSettles
  <2> QED BY <1>1, <2>1, <2>2
<1>4. ASSUME Other PROVE NewNamesAreFound'
  BY <1>4, OtherIs DEF NewNamesAreFound
<1>5. CASE UNCHANGED namesvars
  <2>1. files' = files /\ dirs' = dirs /\ named' = named
    BY <1>5 DEF namesvars
  <2>2. \A p : HostPath(p)' = HostPath(p)
    BY <2>1, HostPathIs
  <2> QED BY <2>1, <2>2 DEF NewNamesAreFound, Short
<1> QED BY <1>2, <1>3, <1>4, <1>5 DEF NamesNext, Other

\* What DOS has just created or renamed is found by the name it was given: it
\* was found under no other before (lfn.h:258-347), so the last name was taken
\* as it is, and the lookups on the way there find what they found.  For all
\* names, hashes and orders of the host's lists.
THEOREM NewNamesFound == NamesSpec => []NewNamesAreFound
<1> DEFINE NamesInv == NamesTypeOK /\ NewNamesAreFound
<1>1. NamesInit => NamesInv
  <2> SUFFICES ASSUME NamesInit PROVE NamesInv
    OBVIOUS
  <2> QED BY DEF NamesInit, NamesTypeOK, Tree, NewNamesAreFound
<1>2. NamesInv /\ [NamesNext]_namesvars => NamesInv'
  <2> SUFFICES ASSUME NamesInv, [NamesNext]_namesvars PROVE NamesInv'
    OBVIOUS
  <2>1. Shape
    BY TypeIsShape
  <2> QED BY <2>1, NamesTypeHolds, NewNamesHold
<1>3. NamesInv => NewNamesAreFound
  OBVIOUS
<1> QED BY <1>1, <1>2, <1>3, PTL DEF NamesSpec

-----------------------------------------------------------------------------
(* Shown names lead back *)

LEMMA NamesAre ==
  /\ Fits \subseteq Names /\ Tildes \subseteq Fits /\ ANY \notin Names
  /\ \A n \in Names : Mangled[n] \in Tildes /\ Short(n) \in Fits
  /\ \A n \in Names : Short(n) \notin Tildes => Short(n) = n
  /\ Begins \subseteq Names \X Tildes
BY LongNamesAssumption DEF LongNamesAssumption, Short

\* The lookup of what an entry is shown as finds an entry that looks like it.
LEMMA ShownIsFound ==
  ASSUME NEW d \in dirs, NEW n \in Entries(d)
  PROVE  LET x == NameOf(files, dirs, d, Short(n))
         IN  x = n \/ (x \in Entries(d) /\ Mangled[x] = Short(n))
<1> DEFINE c == Short(n)
           alike == {m \in EntriesOf(files, dirs, d) : Mangled[m] = c}
<1>1. n \in EntriesOf(files, dirs, d) /\ n \in Names
  BY EntriesAre DEF EntriesOf
<1>2. Entries(d) = EntriesOf(files, dirs, d)
  BY EntriesAre
<1>3. CASE c \notin Tildes
  BY <1>1, <1>3, NamesAre DEF NameOf
<1>4. CASE c \in Tildes
  <2>1. NameOf(files, dirs, d, c) = Lookup(files, dirs, d, c)
    BY <1>4 DEF NameOf
  <2>2. CASE alike # {}
    <3>1. Lookup(files, dirs, d, c) \in alike
      BY <2>2, LookupIs
    <3> QED BY <1>2, <2>1, <3>1
  <2>3. CASE alike = {}
    <3>1. Lookup(files, dirs, d, c) = c
      BY <2>3, LookupIs
    <3>2. c = n
      BY <1>1, <2>3 DEF Short
    <3> QED BY <2>1, <3>1, <3>2
  <2> QED BY <2>2, <2>3
<1> QED BY <1>3, <1>4

LEMMA TheyLeadBack ==
  ASSUME Shape
  PROVE  ShownNamesLeadBack
<1> SUFFICES ASSUME NEW h \in Tree \ {<<>>},
                    \A i \in DOMAIN h : Unambiguous(SubSeq(h, 1, i - 1), Short(h[i]))
             PROVE  HostPath(Shown(h)) = h
  BY DEF ShownNamesLeadBack
<1>1. h \in files \cup dirs /\ h \in Seq(Names)
  BY FolderPaths DEF Tree, Shape
<1>2. \A k \in 0 .. Len(h) - 1 : Upto(h, k) \in dirs
  BY <1>1, FolderClosed DEF Shape
<1>3. ASSUME NEW i \in 1 .. Len(h)
      PROVE  h[i] = NameOf(files, dirs, Upto(h, i - 1), Short(h[i]))
  <2> DEFINE d == Upto(h, i - 1)
             x == NameOf(files, dirs, d, Short(h[i]))
  <2>1. /\ i - 1 \in 0 .. Len(h) - 1 /\ h[i] \in Names
        /\ Append(d, h[i]) = Upto(h, i)
        /\ i # Len(h) => i \in 0 .. Len(h) - 1
        /\ i = Len(h) => Upto(h, i) = h
    BY <1>1, StepsOf
  <2>2. d \in dirs
    BY <1>2, <2>1
  <2>3. Upto(h, i) \in Tree
    BY <1>1, <1>2, <2>1 DEF Tree
  <2>4. Unambiguous(d, Short(h[i]))
    <3>1. i \in DOMAIN h
      BY <1>1
    <3> QED BY <3>1 DEF Upto
  <2> HIDE DEF d
  <2>5. h[i] \in Entries(d)
    BY <2>1, <2>3 DEF Entries
  <2>6. x = h[i] \/ (x \in Entries(d) /\ Mangled[x] = Short(h[i]))
    BY <2>2, <2>5, ShownIsFound
  <2> HIDE DEF x
  <2>7. x = h[i]
    BY <2>4, <2>5, <2>6 DEF Unambiguous
  <2> QED BY <2>7 DEF x, d
<1> DEFINE shown == Shown(h)
<1>4. /\ shown \in Seq(Names) /\ Len(shown) = Len(h)
      /\ \A i \in 1 .. Len(h) : shown[i] = Short(h[i])
  <2>1. DOMAIN h = 1 .. Len(h) /\ Len(h) \in Nat /\ \A i \in 1 .. Len(h) : h[i] \in Names
    BY <1>1
  <2>2. shown = [i \in 1 .. Len(h) |-> Short(h[i])]
    BY <2>1 DEF Shown
  <2>3. \A i \in 1 .. Len(h) : Short(h[i]) \in Names
    BY <2>1, NamesAre
  <2> HIDE DEF shown
  <2> QED BY <2>1, <2>2, <2>3
<1> HIDE DEF shown
<1>5. Leads(files, dirs, shown, h)
  BY <1>3, <1>4 DEF Leads
<1>6. HostPath(shown) = h
  BY <1>1, <1>4, <1>5, HostPathOf
<1> QED BY <1>6 DEF shown

\* In any tree, the names that searches show for an entry lead back to it
\* (lfn.h:345-433), by induction along its path: where an entry of each
\* directory alone looks like what is shown, find_real_name finds that one.
THEOREM NamesLeadBack == NamesSpec => []ShownNamesLeadBack
<1>1. NamesTypeOK => ShownNamesLeadBack
  BY TypeIsShape, TheyLeadBack
<1> QED BY <1>1, NamesTypeCorrect, PTL

-----------------------------------------------------------------------------
(* Searches are true *)

\* The host has no directories with names in Tildes.
NoTildeDirs == ~TildeDirs

PlainDirs == \A d \in dirs \ {<<>>} : Last(d) \notin Tildes

LEMMA MovedLast ==
  ASSUME NEW S, NEW from \in Seq(S), NEW to \in Seq(S), NEW h \in Seq(S),
         h # <<>>, h # from, NEW m, m = MovedTo(from, to, h)
  PROVE  m # <<>> => Last(m) = Last(h)
<1>1. CASE ~ IsPrefix(from, h)
  BY <1>1 DEF MovedTo
<1>2. CASE IsPrefix(from, h)
  <2>1. Len(from) \in Nat /\ Len(to) \in Nat /\ Len(h) \in Nat
    OBVIOUS
  <2>2. Len(from) <= Len(h) /\ Upto(h, Len(from)) = from /\ Upto(h, Len(h)) = h
    BY <1>2, PrefixIs, UptoAll
  <2>3. Len(from) # Len(h)
    BY <2>2
  <2>4. GoesOn(S, from, to, h, m)
    BY <1>2, MovedIs
  <2>5. /\ m \in Seq(S) /\ Len(m) \in Int /\ Len(m) = (Len(h) - Len(from)) + Len(to)
        /\ Len(h) \in Len(from) + 1 .. Len(h)
    BY <2>1, <2>2, <2>3, <2>4 DEF GoesOn
  <2>6. m[Len(m)] = h[Len(h)]
    BY <2>4, <2>5 DEF GoesOn
  <2> QED BY <2>5, <2>6, FrontIs
<1> QED BY <1>1, <1>2

LEMMA PlainDirsHold ==
  ASSUME NoTildeDirs, Shape, PlainDirs, [NamesNext]_namesvars
  PROVE  PlainDirs'
<1>1. ASSUME NEW p \in DosPaths, Create(p) \/ MkDir(p) PROVE PlainDirs'
  <2> DEFINE h == HostPath(p)
  <2>1. \/ dirs' = dirs
        \/ dirs' = dirs \cup {h} /\ Last(h) \notin Tildes
    BY <1>1 DEF Create, MkDir, MayBeDir, NoTildeDirs
  <2> HIDE DEF h
  <2> QED BY <2>1 DEF PlainDirs
<1>2. ASSUME NEW p \in DosPaths, NEW q \in DosPaths, Rename(p, q) PROVE PlainDirs'
  <2> DEFINE from == HostPath(p)
             to == HostPath(q)
  <2>1. Renames(files, dirs, from, to) /\ dirs' = Moves(from, to, dirs)
    BY <1>2, RenameIs
  <2>2. from \in dirs => Last(to) \notin Tildes
    BY <1>2 DEF Rename, MayBeDir, NoTildeDirs
  <2>3. from \in Seq(Names) /\ to \in Seq(Names)
    BY <2>1, RenamePaths
  <2> HIDE DEF from, to
  <2>4. ASSUME NEW m \in dirs', m # <<>> PROVE Last(m) \notin Tildes
    <3>1. PICK h \in dirs : m = MovedTo(from, to, h)
      BY <2>1 DEF Moves
    <3>2. h # <<>> /\ h \in Seq(Names)
      BY <2>1, <2>4, <3>1, RenameMoves, FolderPaths DEF Shape
    <3>3. CASE h = from
      <4>1. m = to
        BY <2>3, <3>1, <3>3, MovedStart
      <4> QED BY <2>2, <3>3, <4>1
    <3>4. CASE h # from
      <4>1. Last(m) = Last(h)
        BY <2>3, <2>4, <3>1, <3>2, <3>4, MovedLast
      <4> QED BY <3>2, <4>1 DEF PlainDirs
    <3> QED BY <3>3, <3>4
  <2> QED BY <2>4 DEF PlainDirs
<1>3. ASSUME Other PROVE PlainDirs'
  <2>1. \/ dirs' \subseteq dirs
        \/ \E h : dirs' = dirs \cup {h} /\ Last(h) \notin Tildes
    BY <1>3 DEF Other, Delete, RmDir, HostMakes, HostRemoves, MayBeDir, NoTildeDirs
  <2> QED BY <2>1 DEF PlainDirs
<1>4. CASE UNCHANGED namesvars
  BY <1>4 DEF namesvars, PlainDirs
<1> QED BY <1>1, <1>2, <1>3, <1>4 DEF NamesNext, Other

LEMMA PlainPaths ==
  ASSUME Shape, PlainDirs, NEW d \in dirs
  PROVE  d \in Seq(Names) /\ \A i \in 1 .. Len(d) : d[i] \notin Tildes
<1>1. d \in Seq(Names)
  BY FolderPaths DEF Shape
<1>2. \A k \in 0 .. Len(d) - 1 : Upto(d, k) \in dirs
  BY FolderClosed DEF Shape
<1>3. ASSUME NEW i \in 1 .. Len(d) PROVE d[i] \notin Tildes
  <2> DEFINE u == Upto(d, i)
  <2>1. /\ i # Len(d) => i \in 0 .. Len(d) - 1
        /\ i = Len(d) => u = d
    BY <1>1, StepsOf
  <2>2. u \in dirs
    BY <1>2, <2>1
  <2>3. i \in 0 .. Len(d) /\ i \in 1 .. i /\ i \in Nat \ {0}
    BY <1>1
  <2>4. u \in Seq(Names) /\ Len(u) = i /\ u[i] = d[i]
    BY <1>1, <2>3, UptoIs
  <2> HIDE DEF u
  <2>5. u # <<>>
    BY <2>3, <2>4
  <2>6. Last(u) = d[i]
    BY <2>4, <2>5, FrontIs
  <2> QED BY <2>2, <2>5, <2>6 DEF PlainDirs
<1> QED BY <1>1, <1>3

\* A mask is not cut before its last part.
LEMMA ListedIs ==
  ASSUME NEW S, NEW r \in Seq(S), r # <<>>,
         NEW d, d = Front(r), \A i \in 1 .. Len(d) : d[i] \notin Tildes,
         NEW x, x = Last(r)
  PROVE  Listed(r) = {n \in Entries(d) : x = ANY \/ x = n \/ <<n, x>> \in Begins}
<1> DEFINE z == Len(r)
           tilde == {i \in DOMAIN r : r[i] \in Tildes}
           last == IF tilde = {} THEN z
                   ELSE CHOOSE i \in tilde : \A j \in tilde : i <= j
<1>1. /\ z \in Nat \ {0} /\ d = Upto(r, z - 1) /\ x = r[z] /\ d \in Seq(S)
      /\ Len(d) = z - 1
  BY FrontIs
<1>2. \A i \in 1 .. z - 1 : r[i] \notin Tildes
  <2>1. z - 1 \in 0 .. Len(r)
    BY <1>1
  <2>2. \A i \in 1 .. z - 1 : d[i] = r[i]
    <3> HIDE DEF z
    <3>1. \A i \in 1 .. z - 1 : Upto(r, z - 1)[i] = r[i]
      BY <2>1, UptoIs
    <3> QED BY <1>1, <3>1
  <2> QED BY <1>1, <2>2
<1>3. tilde \subseteq {z}
  <2>1. DOMAIN r = 1 .. z
    OBVIOUS
  <2>2. ASSUME NEW i \in 1 .. z, r[i] \in Tildes PROVE i = z
    <3> HIDE DEF z
    <3> QED BY <1>1, <1>2, <2>2
  <2> QED BY <2>1, <2>2
<1>4. last = z
  <2>1. CASE tilde = {}
    BY <2>1
  <2>2. CASE tilde # {}
    <3>1. tilde = {z} /\ z <= z
      BY <1>1, <1>3, <2>2
    <3> HIDE DEF tilde, z
    <3> QED BY <3>1
  <2> QED BY <2>1, <2>2
<1>5. Listed(r) = {n \in Entries(SubSeq(r, 1, last - 1)) :
                     r[last] = ANY \/ r[last] = n \/ <<n, r[last]>> \in Begins}
  BY Zenon DEF Listed
<1> HIDE DEF last, z
<1> QED BY <1>1, <1>4, <1>5 DEF Upto

LEMMA SearchIsTrue ==
  ASSUME Shape, PlainDirs, NEW p \in DosPaths,
         \/ Unambiguous(HostPath(Front(p)), Last(p))
         \/ Last(HostPath(p)) \notin Tildes
  PROVE  Found(p) = {n \in Names : /\ HostPath(p) \in Tree
                                   /\ Last(HostPath(p)) = n
                                   /\ Short(n) = Last(p)}
<1> DEFINE r == HostPath(p)
           d == HostPath(Front(p))
           c == Last(p)
           x == Last(r)
<1>0. Unambiguous(d, c) \/ x \notin Tildes
  OBVIOUS
<1>1. p \in Seq(Names) /\ p # <<>> /\ r \in Seq(Names) /\ r # <<>>
  BY DosPathsAre
<1>2. c \in Fits /\ c \in Names /\ c # ANY
  <2>1. p \in Seq(Fits)
    BY DosPathsAre
  <2>2. c \in Fits
    BY <1>1, <2>1, FrontIs
  <2> HIDE DEF c
  <2> QED BY <2>2, NamesAre
<1>3. d = Front(r) /\ x = NameOf(files, dirs, d, c)
  BY <1>1, HostPathEnds
<1>4. r = Append(d, x) /\ x \in Names /\ x # ANY
  BY <1>1, <1>3, FrontIs, NamesAre
<1>5. Found(p) = IF d \in dirs THEN {n \in Listed(r) : c \in {ANY, Short(n)}} ELSE {}
  BY DEF Found
<1> SUFFICES Found(p) = {n \in Names : r \in Tree /\ x = n /\ Short(n) = c}
  OBVIOUS
<1>6. x = Last(r)
  OBVIOUS
<1> HIDE DEF r, d, c, x
<1>7. CASE d \notin dirs
  <2>1. r \notin Tree
    BY <1>1, <1>3, <1>7 DEF Tree, Shape, Folder
  <2> QED BY <1>5, <1>7, <2>1
<1>8. CASE d \in dirs
  <2>1. Listed(r) = {n \in Entries(d) : x = ANY \/ x = n \/ <<n, x>> \in Begins}
    <3>1. \A i \in 1 .. Len(d) : d[i] \notin Tildes
      BY <1>8, PlainPaths
    <3> QED BY <1>1, <1>3, <1>6, <3>1, ListedIs
  <2>2. ASSUME NEW n \in Names, r \in Tree, x = n, Short(n) = c PROVE n \in Found(p)
    <3>1. n \in Entries(d)
      BY <1>4, <2>2 DEF Entries
    <3> QED BY <1>5, <1>8, <2>1, <2>2, <3>1
  <2>3. ASSUME NEW n \in Found(p) PROVE n \in Names /\ r \in Tree /\ x = n /\ Short(n) = c
    <3>1. n \in Entries(d) /\ Short(n) = c /\ (x = n \/ <<n, x>> \in Begins)
      BY <1>2, <1>4, <1>5, <1>8, <2>1
    <3>2. n \in Names /\ Append(d, n) \in Tree
      BY <3>1 DEF Entries
    <3>3. x = n
      <4> SUFFICES ASSUME <<n, x>> \in Begins PROVE x = n
        BY <3>1
      <4>1. x \in Tildes
        BY NamesAre
      <4>2. Unambiguous(d, c)
        BY <1>0, <4>1
      <4>3. x = n \/ (x \in Entries(d) /\ Mangled[x] = c)
        BY <1>3, <1>8, <3>1, ShownIsFound
      <4> QED BY <3>1, <4>2, <4>3 DEF Unambiguous
    <3> QED BY <1>4, <3>1, <3>2, <3>3
  <2> QED BY <2>2, <2>3
<1> QED BY <1>7, <1>8

LEMMA AllIsFound ==
  ASSUME Shape, PlainDirs, NEW q \in DosPaths \cup {<<>>}, HostPath(q) \in dirs
  PROVE  Found(Append(q, ANY)) = Entries(HostPath(q))
<1> DEFINE S == Names \cup {ANY}
           p == Append(q, ANY)
           d == HostPath(q)
           r == HostPath(p)
<1>1. q \in Seq(S)
  <2>1. CASE q = <<>>
    BY <2>1
  <2>2. CASE q \in DosPaths
    <3>1. q \in Seq(Names) /\ Names \subseteq S
      BY <2>2, DosPathsAre
    <3> HIDE DEF S
    <3> QED BY <3>1
  <2> QED BY <2>1, <2>2
<1>2. /\ p \in Seq(S) /\ p # <<>> /\ Front(p) = q /\ Last(p) = ANY
  BY <1>1, AppendedIs
<1>3. r \in Seq(S) /\ Len(r) = Len(p)
  <2> HIDE DEF p
  <2> QED BY <1>2, HostPathLeads
<1>4. r # <<>> /\ d = Front(r) /\ ANY = Last(r)
  <2>1. /\ HostPath(Front(p)) = Front(r)
        /\ r = Append(HostPath(Front(p)), NameOf(files, dirs, HostPath(Front(p)), Last(p)))
        /\ Last(r) = NameOf(files, dirs, HostPath(Front(p)), Last(p))
    <3> HIDE DEF p
    <3> QED BY <1>2, HostPathEnds
  <2>2. ANY \notin Tildes
    BY NamesAre
  <2>3. Last(r) = ANY
    BY <1>2, <2>1, <2>2 DEF NameOf
  <2>4. r # <<>>
    <3> HIDE DEF p, r
    <3>1. Len(p) # 0
      BY <1>2
    <3> QED BY <1>3, <3>1
  <2> QED BY <1>2, <2>1, <2>3, <2>4
<1>5. \A i \in 1 .. Len(d) : d[i] \notin Tildes
  BY PlainPaths
<1>6. Found(p) = {n \in Listed(r) : ANY \in {ANY, Short(n)}}
  BY <1>2 DEF Found
<1> DEFINE x == Last(r)
<1>7. Listed(r) = {n \in Entries(d) : x = ANY \/ x = n \/ <<n, x>> \in Begins}
  <2> HIDE DEF S, d, r, p, x
  <2>1. x = Last(r) /\ r \in Seq(S) /\ r # <<>> /\ d = Front(r)
    BY <1>3, <1>4 DEF x
  <2> QED BY <1>5, <2>1, ListedIs
<1> HIDE DEF S, d, r, p
<1>8. Found(p) = Entries(d)
  BY <1>4, <1>6, <1>7
<1> QED BY <1>8 DEF p, d

\* Where no directory has a tilde in its name, as a mask is then cut in its
\* last part at most, a search shows what a call with the same name acts on,
\* and a search for all files shows the directory (sftsr.c:258-302,
\* 1097-1127).  PlainDirs is what the calls keep so.
THEOREM TrueSearches ==
  ASSUME NoTildeDirs
  PROVE  NamesSpec => []SearchesAreTrue
<1> DEFINE NamesInv == NamesTypeOK /\ PlainDirs
<1>1. NamesInit => NamesInv
  <2> SUFFICES ASSUME NamesInit PROVE NamesInv
    OBVIOUS
  <2> QED BY DEF NamesInit, NamesTypeOK, Tree, PlainDirs
<1>2. NamesInv /\ [NamesNext]_namesvars => NamesInv'
  <2> SUFFICES ASSUME NamesInv, [NamesNext]_namesvars PROVE NamesInv'
    OBVIOUS
  <2>1. Shape
    BY TypeIsShape
  <2> QED BY <2>1, NamesTypeHolds, PlainDirsHold
<1>3. NamesInv => SearchesAreTrue
  BY TypeIsShape, SearchIsTrue, AllIsFound DEF SearchesAreTrue
<1> QED BY <1>1, <1>2, <1>3, PTL DEF NamesSpec

-----------------------------------------------------------------------------
(* Sequences one after the other *)

LEMMA ConcatIs ==
  ASSUME NEW S, NEW a \in Seq(S), NEW b \in Seq(S)
  PROVE  /\ a \o b \in Seq(S) /\ Len(a \o b) = Len(a) + Len(b)
         /\ \A i \in 1 .. Len(a) : (a \o b)[i] = a[i]
         /\ \A i \in Len(a) + 1 .. Len(a) + Len(b) : (a \o b)[i] = b[i - Len(a)]
<1> DEFINE u == a \o b
<1>1. u \in Seq(S) /\ Len(u) = Len(a) + Len(b)
  OBVIOUS
<1>2. \A i \in 1 .. Len(a) + Len(b) :
        u[i] = IF i <= Len(a) THEN a[i] ELSE b[i - Len(a)]
  OBVIOUS
<1>3. Len(a) \in Nat /\ Len(b) \in Nat
  OBVIOUS
<1> HIDE DEF u
<1>4. ASSUME NEW i \in 1 .. Len(a) PROVE u[i] = a[i]
  <2>1. i \in 1 .. Len(a) + Len(b) /\ i <= Len(a)
    BY <1>3
  <2> QED BY <1>2, <2>1
<1>5. ASSUME NEW i \in Len(a) + 1 .. Len(a) + Len(b) PROVE u[i] = b[i - Len(a)]
  <2>1. i \in 1 .. Len(a) + Len(b) /\ ~ (i <= Len(a))
    BY <1>3
  <2> QED BY <1>2, <2>1
<1> QED BY <1>1, <1>4, <1>5 DEF u

LEMMA ConcatEmpty ==
  ASSUME NEW S, NEW a \in Seq(S)
  PROVE  a \o <<>> = a /\ <<>> \o a = a
OBVIOUS

LEMMA ConcatAssociates ==
  ASSUME NEW S, NEW a \in Seq(S), NEW b \in Seq(S), NEW c \in Seq(S)
  PROVE  (a \o b) \o c = a \o (b \o c)
<1> DEFINE x == a \o b
           y == b \o c
           u == x \o c
           v == a \o y
<1>0. Len(a) \in Nat /\ Len(b) \in Nat /\ Len(c) \in Nat
  OBVIOUS
<1>1. /\ x \in Seq(S) /\ Len(x) = Len(a) + Len(b)
      /\ \A i \in 1 .. Len(a) : x[i] = a[i]
      /\ \A i \in Len(a) + 1 .. Len(a) + Len(b) : x[i] = b[i - Len(a)]
  BY ConcatIs
<1>2. /\ y \in Seq(S) /\ Len(y) = Len(b) + Len(c)
      /\ \A i \in 1 .. Len(b) : y[i] = b[i]
      /\ \A i \in Len(b) + 1 .. Len(b) + Len(c) : y[i] = c[i - Len(b)]
  BY ConcatIs
<1> HIDE DEF x, y
<1>3. /\ u \in Seq(S) /\ Len(u) = Len(x) + Len(c)
      /\ \A i \in 1 .. Len(x) : u[i] = x[i]
      /\ \A i \in Len(x) + 1 .. Len(x) + Len(c) : u[i] = c[i - Len(x)]
  <2>1. x \in Seq(S)
    BY <1>1
  <2> QED BY <2>1, ConcatIs
<1>4. /\ v \in Seq(S) /\ Len(v) = Len(a) + Len(y)
      /\ \A i \in 1 .. Len(a) : v[i] = a[i]
      /\ \A i \in Len(a) + 1 .. Len(a) + Len(y) : v[i] = y[i - Len(a)]
  BY <1>2, ConcatIs
<1> HIDE DEF u, v
<1>5. ASSUME NEW i \in 1 .. Len(u) PROVE u[i] = v[i]
  <2>1. CASE i \in 1 .. Len(a)
    <3>1. i \in 1 .. Len(x)
      BY <1>0, <1>1, <2>1
    <3> QED BY <1>1, <1>3, <1>4, <2>1, <3>1
  <2>2. CASE i \in Len(a) + 1 .. Len(a) + Len(b)
    <3> DEFINE j == i - Len(a)
    <3>1. i \in 1 .. Len(x) /\ i \in Len(a) + 1 .. Len(a) + Len(y) /\ j \in 1 .. Len(b)
      BY <1>0, <1>1, <1>2, <2>2
    <3>2. u[i] = b[j]
      BY <1>1, <1>3, <2>2, <3>1
    <3>3. v[i] = y[j] /\ y[j] = b[j]
      BY <1>2, <1>4, <3>1
    <3> QED BY <3>2, <3>3
  <2>3. CASE i \in Len(x) + 1 .. Len(x) + Len(c)
    <3> DEFINE j == i - Len(a)
    <3>1. /\ i \in Len(a) + 1 .. Len(a) + Len(y) /\ j \in Len(b) + 1 .. Len(b) + Len(c)
          /\ i - Len(x) = j - Len(b)
      BY <1>0, <1>1, <1>2, <2>3
    <3>2. u[i] = c[i - Len(x)]
      BY <1>3, <2>3
    <3>3. v[i] = y[j] /\ y[j] = c[j - Len(b)]
      BY <1>2, <1>4, <3>1
    <3> QED BY <3>1, <3>2, <3>3
  <2> QED BY <1>0, <1>1, <1>3, <2>1, <2>2, <2>3
<1>6. Len(u) = Len(v)
  BY <1>0, <1>1, <1>2, <1>3, <1>4
<1>7. u = v
  BY <1>3, <1>4, <1>5, <1>6, SamePath
<1> QED BY <1>7 DEF u, v, x, y

\* What a list flattens to, from the first part of it
LEMMA FlattensSame ==
  ASSUME NEW S, NEW q \in Seq(Seq(S)), NEW r \in Seq(Seq(S)), NEW g, NEW h,
         Flattens(g, q), Flattens(h, r), Len(q) <= Len(r),
         \A i \in 1 .. Len(q) : q[i] = r[i]
  PROVE  \A i \in 1 .. Len(q) : g[i] = h[i]
<1>1. Len(q) \in Nat /\ Len(r) \in Nat
  OBVIOUS
<1> DEFINE T == {n \in Nat : n \in 1 .. Len(q) => g[n] = h[n]}
<1>2. 0 \in T
  BY <1>1
<1>3. ASSUME NEW n \in T PROVE n + 1 \in T
  <2>1. n \in Nat /\ n + 1 \in Nat
    OBVIOUS
  <2> SUFFICES ASSUME n + 1 \in 1 .. Len(q) PROVE g[n + 1] = h[n + 1]
    BY <2>1
  <2> DEFINE m == n + 1
  <2>2. m \in 1 .. Len(q) /\ m \in 1 .. Len(r) /\ m - 1 = n
    BY <1>1, <2>1
  <2>3. m # 1 => n \in 1 .. Len(q)
    BY <2>1, <2>2
  <2>4. m # 1 => g[n] = h[n]
    BY <2>3
  <2> HIDE DEF m
  <2>5. g[m] = IF m = 1 THEN q[m] ELSE g[m - 1] \o q[m]
    BY <2>2, FlattensIs
  <2>6. h[m] = IF m = 1 THEN r[m] ELSE h[m - 1] \o r[m]
    BY <2>2, FlattensIs
  <2>7. q[m] = r[m]
    BY <2>2
  <2>8. g[m] = h[m]
    BY <2>2, <2>4, <2>5, <2>6, <2>7
  <2> QED BY <2>8 DEF m
<1> HIDE DEF T
<1>4. T = Nat
  <2>1. T \in SUBSET Nat
    BY DEF T
  <2> QED BY <1>2, <1>3, <2>1, Induction
<1>5. ASSUME NEW i \in 1 .. Len(q) PROVE g[i] = h[i]
  <2>1. i \in T
    BY <1>1, <1>4
  <2> QED BY <2>1 DEF T
<1> QED BY <1>5

LEMMA FlattenAppend ==
  ASSUME NEW S, NEW q \in Seq(Seq(S)), NEW x \in Seq(S)
  PROVE  FlattenSeq(Append(q, x)) = FlattenSeq(q) \o x
<1> DEFINE r == Append(q, x)
           n == Len(q)
<1>1. /\ n \in Nat /\ r \in Seq(Seq(S)) /\ Len(r) = n + 1 /\ r[n + 1] = x /\ r # <<>>
      /\ \A i \in 1 .. n : r[i] = q[i]
  BY AppendedIs
<1> HIDE DEF r
<1>2. PICK h : Flattens(h, r) /\ FlattenSeq(r) = h[Len(r)]
  BY <1>1, FlattenSeqIs
<1>3. h[n + 1] = IF n + 1 = 1 THEN r[n + 1] ELSE h[(n + 1) - 1] \o r[n + 1]
  <2>1. n + 1 \in 1 .. Len(r)
    BY <1>1
  <2> QED BY <1>2, <2>1, FlattensIs
<1>4. CASE n = 0
  <2>1. q = <<>> /\ FlattenSeq(q) = q
    BY <1>4 DEF FlattenSeq
  <2>2. FlattenSeq(r) = x
    BY <1>1, <1>2, <1>3, <1>4
  <2> QED BY <2>1, <2>2, ConcatEmpty DEF r
<1>5. CASE n # 0
  <2>0. q # <<>>
    BY <1>5
  <2>1. PICK g : Flattens(g, q) /\ FlattenSeq(q) = g[Len(q)]
    BY <2>0, FlattenSeqIs
  <2>2. Len(q) <= Len(r) /\ n \in 1 .. Len(q) /\ (n + 1) - 1 = n /\ n + 1 # 1
    BY <1>1, <1>5
  <2>3. g[n] = h[n]
    BY <1>1, <1>2, <2>1, <2>2, FlattensSame
  <2>4. FlattenSeq(r) = h[n] \o x
    BY <1>1, <1>2, <1>3, <2>2
  <2> QED BY <2>1, <2>3, <2>4 DEF r
<1> QED BY <1>4, <1>5

-----------------------------------------------------------------------------
(* Paths and their bytes *)

LEMMA TextsAre ==
  /\ HostPathsAssumption
  /\ SEP \in Text /\ NUL \in Text /\ TILDE \in Text /\ SEP \notin Chars
  /\ Chars \cup {TILDE} \subseteq Text
  /\ SEP \notin Chars \cup {TILDE} /\ NUL \notin Chars \cup {TILDE}
  /\ SEP # NUL /\ SEP # TILDE /\ NUL # TILDE
  /\ \A c \in Chars : /\ Bytes[c] \in Seq(Text) /\ Bytes[c] # <<>>
<1>1. \A c \in Chars : Bytes[c] \in Seq(Chars) /\ Bytes[c] # <<>>
  BY HostPathsAssumption DEF HostPathsAssumption
<1>2. ASSUME NEW c \in Chars PROVE Bytes[c] \in Seq(Text)
  <2>1. Bytes[c] \in Seq(Chars) /\ Chars \subseteq Text
    BY <1>1 DEF Text
  <2> DEFINE b == Bytes[c]
  <2> HIDE DEF b
  <2> QED BY <2>1 DEF b
<1> QED BY <1>1, <1>2, HostPathsAssumption DEF HostPathsAssumption, Text

\* Paths of components
PathsOf == Seq(Seq(Chars \cup {TILDE}))

LEMMA ComponentIs ==
  ASSUME NEW c \in Seq(Chars \cup {TILDE})
  PROVE  /\ c \in Seq(Text) /\ <<SEP>> \o c \in Seq(Text)
         /\ \A i \in 1 .. Len(c) : c[i] \in Chars \cup {TILDE}
<1>1. c \in Seq(Text)
  BY TextsAre
<1>2. <<SEP>> \in Seq(Text)
  BY TextsAre
<1>3. <<SEP>> \o c \in Seq(Text)
  BY <1>1, <1>2, ConcatIs
<1> QED BY <1>1, <1>3

LEMMA JoinedAppend ==
  ASSUME NEW p \in PathsOf, NEW c \in Seq(Chars \cup {TILDE})
  PROVE  /\ Joined(Append(p, c)) = Joined(p) \o (<<SEP>> \o c)
         /\ Joined(p) \in Seq(Text)
<1> DEFINE r == Append(p, c)
           n == Len(p)
           q == [i \in DOMAIN p |-> <<SEP>> \o p[i]]
           qr == [i \in DOMAIN r |-> <<SEP>> \o r[i]]
           x == <<SEP>> \o c
<1>1. /\ n \in Nat /\ DOMAIN p = 1 .. n /\ \A i \in 1 .. n : p[i] \in Seq(Chars \cup {TILDE})
  BY DEF PathsOf
<1>2. /\ DOMAIN r = 1 .. n + 1 /\ r[n + 1] = c /\ \A i \in 1 .. n : r[i] = p[i]
  BY <1>1 DEF PathsOf
<1>3. \A i \in 1 .. n : <<SEP>> \o p[i] \in Seq(Text)
  BY <1>1, ComponentIs
<1>4. x \in Seq(Text)
  BY ComponentIs
<1>5. q \in Seq(Seq(Text)) /\ Len(q) = n
  <2>1. q = [i \in 1 .. n |-> <<SEP>> \o p[i]]
    BY <1>1
  <2> HIDE DEF q
  <2> QED BY <1>1, <1>3, <2>1
<1>6. qr = Append(q, x)
  <2>1. Append(q, x) \in Seq(Seq(Text)) /\ Len(Append(q, x)) = n + 1
        /\ Append(q, x)[n + 1] = x /\ \A i \in 1 .. n : Append(q, x)[i] = q[i]
    <3> HIDE DEF q, x
    <3> QED BY <1>4, <1>5, AppendedIs
  <2>2. qr \in Seq(Seq(Text)) /\ Len(qr) = n + 1
    <3>1. qr = [i \in 1 .. n + 1 |-> <<SEP>> \o r[i]]
      BY <1>2
    <3>2. \A i \in 1 .. n + 1 : <<SEP>> \o r[i] \in Seq(Text)
      <4> SUFFICES ASSUME NEW i \in 1 .. n + 1 PROVE <<SEP>> \o r[i] \in Seq(Text)
        OBVIOUS
      <4>1. i = n + 1 \/ i \in 1 .. n
        BY <1>1
      <4> HIDE DEF r
      <4> QED BY <1>2, <1>3, <1>4, <4>1
    <3> HIDE DEF qr, r
    <3> QED BY <1>1, <3>1, <3>2
  <2>3. ASSUME NEW i \in 1 .. n + 1 PROVE qr[i] = Append(q, x)[i]
    <3>1. i = n + 1 \/ i \in 1 .. n
      BY <1>1
    <3>2. qr[i] = <<SEP>> \o r[i]
      BY <1>2
    <3>3. i \in 1 .. n => q[i] = <<SEP>> \o p[i]
      BY <1>1
    <3> HIDE DEF qr, q, r
    <3> QED BY <1>2, <2>1, <3>1, <3>2, <3>3
  <2> HIDE DEF qr, q, x
  <2> DEFINE w == Append(q, x)
  <2>4. w \in Seq(Seq(Text)) /\ Len(w) = Len(qr)
    BY <2>1, <2>2
  <2>5. \A i \in 1 .. Len(qr) : qr[i] = w[i]
    BY <2>2, <2>3
  <2> HIDE DEF w
  <2>6. qr = w
    BY <2>2, <2>4, <2>5, SamePath
  <2> QED BY <2>6 DEF w
<1>7. Joined(r) = FlattenSeq(qr) /\ Joined(p) = FlattenSeq(q)
  BY DEF Joined
<1> HIDE DEF qr, q, r, x
<1>8. FlattenSeq(qr) = FlattenSeq(q) \o x /\ FlattenSeq(q) \in Seq(Text)
  BY <1>4, <1>5, <1>6, FlattenAppend, FlattenSeqType
<1> QED BY <1>7, <1>8 DEF r, x

LEMMA ByteOfIs ==
  ASSUME NEW c \in Text
  PROVE  ByteOf(c) \in Seq(Text) /\ Len(ByteOf(c)) \in Nat \ {0}
<1>1. CASE c \in Chars
  <2> DEFINE b == Bytes[c]
  <2>1. b \in Seq(Text) /\ b # <<>>
    BY <1>1, TextsAre
  <2> HIDE DEF b
  <2>2. Len(b) \in Nat \ {0}
    BY <2>1
  <2> QED BY <1>1, <2>1, <2>2 DEF ByteOf, b
<1>2. CASE c \notin Chars
  BY <1>2 DEF ByteOf
<1> QED BY <1>1, <1>2

LEMMA Utf8Append ==
  ASSUME NEW t \in Seq(Text), NEW c \in Text
  PROVE  Utf8(Append(t, c)) = Utf8(t) \o ByteOf(c)
<1> DEFINE r == Append(t, c)
           n == Len(t)
           q == [i \in DOMAIN t |-> ByteOf(t[i])]
           qr == [i \in DOMAIN r |-> ByteOf(r[i])]
           x == ByteOf(c)
<1>1. /\ n \in Nat /\ DOMAIN t = 1 .. n /\ \A i \in 1 .. n : t[i] \in Text
      /\ DOMAIN r = 1 .. n + 1 /\ r[n + 1] = c /\ \A i \in 1 .. n : r[i] = t[i]
  OBVIOUS
<1>2. x \in Seq(Text) /\ \A i \in 1 .. n : ByteOf(t[i]) \in Seq(Text)
  BY <1>1, ByteOfIs
<1>3. q \in Seq(Seq(Text)) /\ Len(q) = n
  <2>1. q = [i \in 1 .. n |-> ByteOf(t[i])]
    BY <1>1
  <2> HIDE DEF q
  <2> QED BY <1>1, <1>2, <2>1
<1>4. qr = Append(q, x)
  <2>1. Append(q, x) \in Seq(Seq(Text)) /\ Len(Append(q, x)) = n + 1
        /\ Append(q, x)[n + 1] = x /\ \A i \in 1 .. n : Append(q, x)[i] = q[i]
    <3> HIDE DEF q, x
    <3> QED BY <1>2, <1>3, AppendedIs
  <2>2. qr \in Seq(Seq(Text)) /\ Len(qr) = n + 1
    <3>1. qr = [i \in 1 .. n + 1 |-> ByteOf(r[i])]
      BY <1>1
    <3>2. \A i \in 1 .. n + 1 : ByteOf(r[i]) \in Seq(Text)
      <4> SUFFICES ASSUME NEW i \in 1 .. n + 1 PROVE ByteOf(r[i]) \in Seq(Text)
        OBVIOUS
      <4>1. i = n + 1 \/ i \in 1 .. n
        BY <1>1
      <4> HIDE DEF r
      <4> QED BY <1>1, <1>2, <4>1
    <3> HIDE DEF qr, r
    <3> QED BY <1>1, <3>1, <3>2
  <2>3. ASSUME NEW i \in 1 .. n + 1 PROVE qr[i] = Append(q, x)[i]
    <3>1. i = n + 1 \/ i \in 1 .. n
      BY <1>1
    <3>2. qr[i] = ByteOf(r[i])
      BY <1>1
    <3>3. i \in 1 .. n => q[i] = ByteOf(t[i])
      BY <1>1
    <3> HIDE DEF qr, q, r
    <3> QED BY <1>1, <2>1, <3>1, <3>2, <3>3
  <2> HIDE DEF qr, q, x
  <2> DEFINE w == Append(q, x)
  <2>4. w \in Seq(Seq(Text)) /\ Len(w) = Len(qr)
    BY <2>1, <2>2
  <2>5. \A i \in 1 .. Len(qr) : qr[i] = w[i]
    BY <2>2, <2>3
  <2> HIDE DEF w
  <2>6. qr = w
    BY <2>2, <2>4, <2>5, SamePath
  <2> QED BY <2>6 DEF w
<1>5. Utf8(r) = FlattenSeq(qr) /\ Utf8(t) = FlattenSeq(q)
  BY DEF Utf8, ByteOf
<1> HIDE DEF qr, q, r, x
<1>6. FlattenSeq(qr) = FlattenSeq(q) \o x
  BY <1>2, <1>3, <1>4, FlattenAppend
<1> QED BY <1>5, <1>6 DEF r, x

LEMMA TextsAssociate ==
  \A one, two, three \in Seq(Text) : (one \o two) \o three = one \o (two \o three)
BY ConcatAssociates

LEMMA AppendLast ==
  ASSUME NEW x \in Seq(Text), NEW y \in Seq(Text), NEW z \in Text
  PROVE  x \o Append(y, z) = Append(x \o y, z) /\ x \o y \in Seq(Text)
<1> DEFINE w == <<z>>
           v == x \o y
<1>1. w \in Seq(Text) /\ Append(y, z) = y \o w
  OBVIOUS
<1>2. v \in Seq(Text)
  BY ConcatIs
<1> HIDE DEF v
<1>3. Append(v, z) = v \o w
  BY <1>2
<1> HIDE DEF w
<1>4. w \in Seq(Text)
  BY <1>1
<1>5. (x \o y) \o w = x \o (y \o w)
  BY <1>4, TextsAssociate
<1> QED BY <1>1, <1>2, <1>3, <1>5 DEF v

LEMMA Utf8Concat ==
  ASSUME NEW a \in Seq(Text), NEW b \in Seq(Text)
  PROVE  Utf8(a \o b) = Utf8(a) \o Utf8(b)
<1>0. Len(b) \in Nat /\ Utf8(a) \in Seq(Text) /\ Utf8(<<>>) = <<>>
  BY Utf8Empty, Utf8Is, TextsAre
<1> DEFINE T == {n \in Nat : n <= Len(b) => Utf8(a \o Upto(b, n)) = Utf8(a) \o Utf8(Upto(b, n))}
<1>1. 0 \in T
  <2>1. Upto(b, 0) = <<>>
    BY UptoAll
  <2> QED BY <1>0, <2>1, ConcatEmpty
<1>2. ASSUME NEW n \in T PROVE n + 1 \in T
  <2>1. n \in Nat /\ n + 1 \in Nat
    OBVIOUS
  <2> SUFFICES ASSUME n + 1 <= Len(b)
               PROVE  Utf8(a \o Upto(b, n + 1)) = Utf8(a) \o Utf8(Upto(b, n + 1))
    BY <2>1
  <2>2. Utf8(a \o Upto(b, n)) = Utf8(a) \o Utf8(Upto(b, n))
    BY <1>0, <2>1
  <2>3. n \in 0 .. Len(b) - 1 /\ n \in 0 .. Len(b)
    BY <1>0, <2>1
  <2> DEFINE u == Upto(b, n)
             c == b[n + 1]
             w == Upto(b, n + 1)
  <2>4. w = Append(u, c) /\ c \in Text
    BY <2>3, UptoNext
  <2>5. u \in Seq(Text)
    BY <2>3, UptoIs
  <2>6. Utf8(a \o u) = Utf8(a) \o Utf8(u)
    BY <2>2
  <2> HIDE DEF u, c, w
  <2>7. a \o Append(u, c) = Append(a \o u, c) /\ a \o u \in Seq(Text)
    BY <2>4, <2>5, AppendLast
  <2>8. Utf8(Append(a \o u, c)) = Utf8(a \o u) \o ByteOf(c)
    BY <2>4, <2>7, Utf8Append
  <2>9. Utf8(w) = Utf8(u) \o ByteOf(c)
    BY <2>4, <2>5, Utf8Append
  <2>10. Utf8(u) \in Seq(Text) /\ ByteOf(c) \in Seq(Text)
    BY <2>4, <2>5, Utf8Is, ByteOfIs, TextsAre
  <2>11. (Utf8(a) \o Utf8(u)) \o ByteOf(c) = Utf8(a) \o (Utf8(u) \o ByteOf(c))
    BY <1>0, <2>10, TextsAssociate
  <2>12. Utf8(a \o w) = Utf8(a) \o Utf8(w)
    BY <2>4, <2>6, <2>7, <2>8, <2>9, <2>11
  <2> QED BY <2>12 DEF w
<1> HIDE DEF T
<1>3. T = Nat
  <2>1. T \in SUBSET Nat
    BY DEF T
  <2> QED BY <1>1, <1>2, <2>1, Induction
<1>4. Len(b) \in T /\ Len(b) <= Len(b)
  BY <1>0, <1>3
<1>5. Upto(b, Len(b)) = b
  BY UptoAll
<1> QED BY <1>4, <1>5 DEF T

\* A text has as many bytes as characters, or more.
LEMMA Utf8Longer ==
  ASSUME NEW b \in Seq(Text)
  PROVE  Len(Utf8(b)) \in Nat /\ Len(b) <= Len(Utf8(b))
<1>0. Len(b) \in Nat
  OBVIOUS
<1> DEFINE T == {n \in Nat : n <= Len(b) => n <= Len(Utf8(Upto(b, n)))}
<1>1. ASSUME NEW n \in 0 .. Len(b) PROVE Len(Utf8(Upto(b, n))) \in Nat
  <2>1. Upto(b, n) \in Seq(Text)
    BY UptoIs
  <2> DEFINE u == Utf8(Upto(b, n))
  <2>2. u \in Seq(Text)
    BY <2>1, Utf8Is, TextsAre
  <2> HIDE DEF u
  <2>3. Len(u) \in Nat
    BY <2>2
  <2> QED BY <2>3 DEF u
<1>2. 0 \in T
  <2>1. 0 \in 0 .. Len(b)
    BY <1>0
  <2>2. Len(Utf8(Upto(b, 0))) \in Nat
    BY <1>1, <2>1
  <2> QED BY <2>2
<1>3. ASSUME NEW n \in T PROVE n + 1 \in T
  <2>1. n \in Nat /\ n + 1 \in Nat
    OBVIOUS
  <2> SUFFICES ASSUME n + 1 <= Len(b) PROVE n + 1 <= Len(Utf8(Upto(b, n + 1)))
    BY <2>1
  <2>2. n <= Len(Utf8(Upto(b, n)))
    BY <1>0, <2>1
  <2>3. n \in 0 .. Len(b) - 1 /\ n \in 0 .. Len(b)
    BY <1>0, <2>1
  <2> DEFINE u == Upto(b, n)
             c == b[n + 1]
             w == Upto(b, n + 1)
             x == Utf8(u)
             y == ByteOf(c)
  <2>4. w = Append(u, c) /\ c \in Text
    BY <2>3, UptoNext
  <2>5. u \in Seq(Text)
    BY <2>3, UptoIs
  <2> HIDE DEF u, c, w
  <2>6. Utf8(w) = x \o y
    BY <2>4, <2>5, Utf8Append
  <2>7. x \in Seq(Text) /\ y \in Seq(Text) /\ Len(y) \in Nat \ {0}
    BY <2>4, <2>5, Utf8Is, ByteOfIs, TextsAre
  <2>8. n <= Len(x)
    BY <2>2 DEF u
  <2> HIDE DEF x, y
  <2>9. Len(x \o y) = Len(x) + Len(y) /\ Len(x) \in Nat
    BY <2>7, ConcatIs
  <2>10. n + 1 <= Len(Utf8(w))
    BY <2>1, <2>6, <2>7, <2>8, <2>9
  <2> QED BY <2>10 DEF w
<1> HIDE DEF T
<1>4. T = Nat
  <2>1. T \in SUBSET Nat
    BY DEF T
  <2> QED BY <1>2, <1>3, <2>1, Induction
<1>5. Len(b) \in T /\ Len(b) <= Len(b) /\ Len(b) \in 0 .. Len(b)
  BY <1>0, <1>4
<1>6. Upto(b, Len(b)) = b
  BY UptoAll
<1> QED BY <1>1, <1>5, <1>6 DEF T

\* A text for which there is room is converted as a whole.
LEMMA ConvertedFits ==
  ASSUME NEW t \in Seq(Text), NEW room \in Int, Len(Utf8(t)) <= room
  PROVE  Converted(t, room) = [text |-> Utf8(t), written |-> Len(Utf8(t)) + 1]
<1> DEFINE n == Taken(t, room)
           fits == {k \in 0 .. n : Len(Utf8(SubSeq(t, 1, k))) <= room}
<1>1. Len(t) \in Nat /\ Len(Utf8(t)) \in Nat /\ Len(t) <= Len(Utf8(t))
  BY Utf8Longer
<1>2. room \in Nat /\ Len(t) <= room
  BY <1>1
<1>3. n = Len(t)
  <2>1. n \in 0 .. Len(t) /\ n <= room /\ n \in {Len(t), room}
    BY <1>2, TakenIs
  <2> HIDE DEF n
  <2> QED BY <1>1, <1>2, <2>1
<1>4. SubSeq(t, 1, n) = t
  BY <1>3
<1>5. n \in fits
  <2>1. n \in 0 .. n
    BY <1>1, <1>3
  <2>2. Len(Utf8(SubSeq(t, 1, n))) <= room
    BY <1>4
  <2> HIDE DEF n
  <2> QED BY <2>1, <2>2
<1>6. Converted(t, room) =
        IF n \in fits
          THEN [text |-> Utf8(SubSeq(t, 1, n)), written |-> Len(Utf8(SubSeq(t, 1, n))) + 1]
          ELSE [text |-> <<>>, written |-> Len(Utf8(SubSeq(t, 1, Max(fits))))]
  BY DEF Converted, Taken
<1> HIDE DEF n, fits
<1> QED BY <1>4, <1>5, <1>6

-----------------------------------------------------------------------------
(* Where the components of a path are *)

\* The place of the separator before component k + 1, or of the end
Pos(p, k) == Len(Joined(Upto(p, k))) + 1

Whole(p) == Append(Joined(p), NUL)

IsStart(t, u) == Len(t) <= Len(u) /\ \A i \in 1 .. Len(t) : u[i] = t[i]

\* A separator at a and the component c behind it, up to b
Part(w, a, c, b) ==
  /\ a \in Nat \ {0} /\ b \in Nat \ {0} /\ Len(c) \in Nat /\ b = a + 1 + Len(c)
  /\ w[a] = SEP /\ \A i \in 1 .. Len(c) : w[a + i] = c[i]

LEMMA BeginsNext ==
  ASSUME NEW t \in Seq(Text), NEW c \in Seq(Text), NEW u, u = t \o (<<SEP>> \o c)
  PROVE  u \in Seq(Text) /\ IsStart(t, u) /\ Part(u, Len(t) + 1, c, Len(u) + 1)
<1> DEFINE h == <<SEP>>
           x == h \o c
<1>1. h \in Seq(Text) /\ Len(h) = 1 /\ h[1] = SEP
  BY TextsAre
<1> HIDE DEF h
<1>2. /\ x \in Seq(Text) /\ Len(x) = Len(h) + Len(c)
      /\ \A i \in 1 .. Len(h) : x[i] = h[i]
      /\ \A i \in Len(h) + 1 .. Len(h) + Len(c) : x[i] = c[i - Len(h)]
  <2>1. h \in Seq(Text)
    BY <1>1
  <2> QED BY <2>1, ConcatIs
<1>3. u = t \o x
  BY DEF h
<1> HIDE DEF x
<1>4. /\ u \in Seq(Text) /\ Len(u) = Len(t) + Len(x)
      /\ \A i \in 1 .. Len(t) : u[i] = t[i]
      /\ \A i \in Len(t) + 1 .. Len(t) + Len(x) : u[i] = x[i - Len(t)]
  <2>1. x \in Seq(Text)
    BY <1>2
  <2>2. /\ t \o x \in Seq(Text) /\ Len(t \o x) = Len(t) + Len(x)
        /\ \A i \in 1 .. Len(t) : (t \o x)[i] = t[i]
        /\ \A i \in Len(t) + 1 .. Len(t) + Len(x) : (t \o x)[i] = x[i - Len(t)]
    BY <2>1, ConcatIs
  <2> QED BY <1>3, <2>2
<1> DEFINE m == Len(t)
           n == Len(c)
           l == Len(u)
<1>5. m \in Nat /\ n \in Nat /\ Len(h) = 1 /\ Len(x) = 1 + n /\ l = m + 1 + n
  <2>1. Len(t) \in Nat /\ Len(c) \in Nat
    OBVIOUS
  <2> QED BY <1>1, <1>2, <1>4, <2>1
<1>6. /\ x[1] = SEP
      /\ \A i \in 2 .. 1 + n : x[i] = c[i - 1]
      /\ \A i \in m + 1 .. l : u[i] = x[i - m]
  <2>1. 1 \in 1 .. Len(h)
    BY <1>5
  <2>2. x[1] = SEP
    BY <1>1, <1>2, <2>1
  <2>3. \A i \in 2 .. 1 + n : x[i] = c[i - 1]
    BY <1>2, <1>5
  <2>4. m + Len(x) = l
    BY <1>5
  <2>5. \A i \in m + 1 .. l : u[i] = x[i - m]
    BY <1>4, <2>4
  <2> QED BY <2>2, <2>3, <2>5
<1>7. IsStart(t, u)
  BY <1>4, <1>5 DEF IsStart
<1>8. u[m + 1] = SEP
  <2>1. m + 1 \in m + 1 .. l /\ (m + 1) - m = 1
    BY <1>5
  <2> QED BY <1>6, <2>1
<1>9. ASSUME NEW i \in 1 .. n PROVE u[(m + 1) + i] = c[i]
  <2> DEFINE j == (m + 1) + i
             k == i + 1
  <2>1. j \in m + 1 .. l /\ j - m = k /\ k \in 2 .. 1 + n /\ k - 1 = i
    BY <1>5
  <2> HIDE DEF j, k
  <2>2. u[j] = x[k]
    BY <1>6, <2>1
  <2>3. x[k] = c[i]
    BY <1>6, <2>1
  <2> QED BY <2>2, <2>3 DEF j
<1>10. /\ m + 1 \in Nat \ {0} /\ l + 1 \in Nat \ {0} /\ l + 1 = (m + 1) + 1 + n
  BY <1>5
<1>11. Part(u, m + 1, c, l + 1)
  BY <1>5, <1>8, <1>9, <1>10 DEF Part
<1> QED BY <1>4, <1>7, <1>11

LEMMA JoinedType ==
  ASSUME NEW p \in PathsOf
  PROVE  Joined(p) \in Seq(Text) /\ Len(p) \in Nat
<1> DEFINE c == <<TILDE>>
<1>1. c \in Seq(Chars \cup {TILDE})
  OBVIOUS
<1> QED BY <1>1, JoinedAppend DEF PathsOf

LEMMA JoinedUpto ==
  ASSUME NEW p \in PathsOf, NEW k \in 0 .. Len(p)
  PROVE  /\ Upto(p, k) \in PathsOf /\ Len(Upto(p, k)) = k
         /\ Joined(Upto(p, k)) \in Seq(Text) /\ Pos(p, k) \in Nat \ {0}
<1>1. Upto(p, k) \in PathsOf /\ Len(Upto(p, k)) = k
  BY UptoIs DEF PathsOf
<1>2. Joined(Upto(p, k)) \in Seq(Text)
  BY <1>1, JoinedType
<1> DEFINE t == Joined(Upto(p, k))
<1>3. t \in Seq(Text)
  BY <1>2
<1> HIDE DEF t
<1>4. Len(t) + 1 \in Nat \ {0}
  BY <1>3
<1> QED BY <1>1, <1>2, <1>4 DEF Pos, t

LEMMA JoinedNext ==
  ASSUME NEW p \in PathsOf, NEW k \in 0 .. Len(p) - 1,
         NEW t, t = Joined(Upto(p, k)), NEW u, u = Joined(Upto(p, k + 1)),
         NEW c, c = p[k + 1]
  PROVE  /\ c \in Seq(Chars \cup {TILDE}) /\ t \in Seq(Text) /\ u \in Seq(Text)
         /\ IsStart(t, u) /\ Part(u, Len(t) + 1, c, Len(u) + 1)
<1>0. Len(p) \in Nat /\ k \in 0 .. Len(p) /\ k + 1 \in 0 .. Len(p)
  BY DEF PathsOf
<1>1. Upto(p, k + 1) = Append(Upto(p, k), c) /\ c \in Seq(Chars \cup {TILDE})
  BY UptoNext DEF PathsOf
<1>2. Upto(p, k) \in PathsOf /\ t \in Seq(Text)
  BY <1>0, JoinedUpto
<1>3. u = t \o (<<SEP>> \o c)
  <2> DEFINE q == Upto(p, k)
  <2>1. q \in PathsOf
    BY <1>2
  <2> HIDE DEF q
  <2>2. Joined(Append(q, c)) = Joined(q) \o (<<SEP>> \o c)
    BY <1>1, <2>1, JoinedAppend
  <2> QED BY <1>1, <2>2 DEF q
<1>4. c \in Seq(Text)
  BY <1>1, ComponentIs
<1>5. u \in Seq(Text) /\ IsStart(t, u) /\ Part(u, Len(t) + 1, c, Len(u) + 1)
  BY <1>2, <1>3, <1>4, BeginsNext
<1> QED BY <1>1, <1>2, <1>5

LEMMA BeginsOn ==
  ASSUME NEW t \in Seq(Text), NEW u \in Seq(Text), NEW v \in Seq(Text),
         IsStart(t, u), IsStart(u, v)
  PROVE  IsStart(t, v)
<1>1. Len(t) \in Nat /\ Len(u) \in Nat /\ Len(v) \in Nat
  OBVIOUS
<1>2. \A i \in 1 .. Len(t) : i \in 1 .. Len(u)
  BY <1>1 DEF IsStart
<1>3. Len(t) <= Len(v)
  BY <1>1 DEF IsStart
<1>4. \A i \in 1 .. Len(t) : v[i] = t[i]
  BY <1>2 DEF IsStart
<1> QED BY <1>3, <1>4 DEF IsStart

LEMMA JoinedBegins ==
  ASSUME NEW p \in PathsOf, NEW k \in 0 .. Len(p), NEW t, t = Joined(Upto(p, k)),
         NEW m \in k .. Len(p)
  PROVE  IsStart(t, Joined(Upto(p, m)))
<1>0. Len(p) \in Nat /\ t \in Seq(Text)
  BY JoinedUpto DEF PathsOf
<1> DEFINE T == {n \in Nat : k + n <= Len(p) => IsStart(t, Joined(Upto(p, k + n)))}
<1>1. 0 \in T
  <2>1. IsStart(t, t) /\ k + 0 = k
    <3>1. Len(t) \in Nat
      BY <1>0
    <3> QED BY <3>1 DEF IsStart
  <2> QED BY <2>1
<1>2. ASSUME NEW n \in T PROVE n + 1 \in T
  <2>1. n \in Nat /\ n + 1 \in Nat
    OBVIOUS
  <2> SUFFICES ASSUME k + (n + 1) <= Len(p) PROVE IsStart(t, Joined(Upto(p, k + (n + 1))))
    BY <2>1
  <2> DEFINE e == k + n
             u == Joined(Upto(p, e))
             v == Joined(Upto(p, e + 1))
  <2>2. e \in 0 .. Len(p) - 1 /\ k + (n + 1) = e + 1
    BY <1>0, <2>1
  <2>3. IsStart(t, u)
    BY <1>0, <2>1
  <2> HIDE DEF e
  <2>4. u \in Seq(Text) /\ v \in Seq(Text) /\ IsStart(u, v)
    BY <2>2, JoinedNext
  <2> HIDE DEF u, v
  <2>5. IsStart(t, v)
    BY <1>0, <2>3, <2>4, BeginsOn
  <2> QED BY <2>2, <2>5 DEF v
<1> HIDE DEF T
<1>3. T = Nat
  <2>1. T \in SUBSET Nat
    BY DEF T
  <2> QED BY <1>1, <1>2, <2>1, Induction
<1> DEFINE n == m - k
<1>4. n \in Nat /\ k + n = m /\ k + n <= Len(p)
  BY <1>0
<1> HIDE DEF n
<1>5. n \in T
  BY <1>3, <1>4
<1> QED BY <1>4, <1>5 DEF T

LEMMA JoinedEmpty == Joined(<<>>) = <<>>
<1>1. Len([i \in DOMAIN <<>> |-> <<SEP>> \o <<>>[i]]) = 0
      /\ [i \in DOMAIN <<>> |-> <<SEP>> \o <<>>[i]] = <<>>
  OBVIOUS
<1> QED BY <1>1 DEF Joined, FlattenSeq

LEMMA WholeIs ==
  ASSUME NEW p \in PathsOf
  PROVE  /\ Whole(p) \in Seq(Text) /\ Len(p) \in Nat
         /\ Len(Whole(p)) = Pos(p, Len(p)) /\ Whole(p)[Pos(p, Len(p))] = NUL
         /\ Pos(p, 0) = 1
<1>0. Len(p) \in Nat /\ Upto(p, Len(p)) = p /\ Upto(p, 0) = <<>>
  BY UptoAll DEF PathsOf
<1>1. Joined(p) \in Seq(Text)
  BY JoinedType
<1> DEFINE t == Joined(p)
<1>2. t \in Seq(Text) /\ NUL \in Text
  BY <1>1, TextsAre
<1>3. Pos(p, Len(p)) = Len(t) + 1 /\ Whole(p) = Append(t, NUL)
  BY <1>0 DEF Pos, Whole
<1> HIDE DEF t
<1>4. Append(t, NUL) \in Seq(Text) /\ Len(Append(t, NUL)) = Len(t) + 1
      /\ Append(t, NUL)[Len(t) + 1] = NUL
  BY <1>2, AppendedIs
<1>5. Pos(p, 0) = 1
  BY <1>0, JoinedEmpty DEF Pos
<1> QED BY <1>0, <1>3, <1>4, <1>5

\* A path in memory is a separator and a component, again and again.
LEMMA Layout ==
  ASSUME NEW p \in PathsOf, NEW k \in 0 .. Len(p) - 1
  PROVE  /\ p[k + 1] \in Seq(Chars \cup {TILDE})
         /\ Part(Whole(p), Pos(p, k), p[k + 1], Pos(p, k + 1))
<1> DEFINE t == Joined(Upto(p, k))
           u == Joined(Upto(p, k + 1))
           j == Joined(p)
           w == Whole(p)
           c == p[k + 1]
           a == Len(t) + 1
           b == Len(u) + 1
<1>1. /\ c \in Seq(Chars \cup {TILDE}) /\ u \in Seq(Text) /\ Part(u, a, c, b)
  BY JoinedNext
<1>2. IsStart(u, j)
  <2>1. Len(p) \in Nat /\ Upto(p, Len(p)) = p
    BY UptoAll DEF PathsOf
  <2>2. k + 1 \in 0 .. Len(p) /\ Len(p) \in k + 1 .. Len(p)
    BY <2>1
  <2> QED BY <2>1, <2>2, JoinedBegins
<1>3. a = Pos(p, k) /\ b = Pos(p, k + 1)
  BY DEF Pos
<1>4. j \in Seq(Text) /\ w = Append(j, NUL)
  BY JoinedType DEF Whole
<1> DEFINE l == Len(u)
<1>5. b = l + 1
  OBVIOUS
<1>6. Len(u) \in Nat /\ Len(j) \in Nat
  BY <1>1, <1>4
<1> HIDE DEF t, u, j, w, c
<1>7. \A i \in 1 .. l : w[i] = u[i]
  <2>1. \A i \in 1 .. Len(j) : w[i] = j[i]
    BY <1>4, TextsAre, AppendedIs
  <2>2. \A i \in 1 .. l : i \in 1 .. Len(j) /\ j[i] = u[i]
    BY <1>2, <1>6 DEF IsStart
  <2> QED BY <2>1, <2>2
<1> HIDE DEF a, b
<1>8. /\ a \in Nat \ {0} /\ b \in Nat \ {0} /\ Len(c) \in Nat /\ b = a + 1 + Len(c)
      /\ u[a] = SEP /\ \A i \in 1 .. Len(c) : u[a + i] = c[i]
  BY <1>1 DEF Part
<1> HIDE DEF l
<1>9. l \in Nat /\ a \in 1 .. l /\ \A i \in 1 .. Len(c) : a + i \in 1 .. l
  <2>1. l \in Nat
    BY <1>6 DEF l
  <2> QED BY <1>5, <1>8, <2>1
<1>10. w[a] = SEP /\ \A i \in 1 .. Len(c) : w[a + i] = c[i]
  BY <1>7, <1>8, <1>9
<1>11. Part(w, a, c, b)
  BY <1>8, <1>10 DEF Part
<1> QED BY <1>1, <1>3, <1>11 DEF w, c

-----------------------------------------------------------------------------
(* The host's path, component by component *)

HostNext(q, f, n) ==
  IF n = 0 THEN <<>>
  ELSE LET d == Append(f[n - 1], SEP) IN d \o HostName(d, q[n])

LEMMA HostsAre ==
  ASSUME NEW q, Len(q) \in Nat
  PROVE  \A n \in 0 .. Len(q) : Hosts(q)[n] = HostNext(q, Hosts(q), n)
<1> DEFINE Good(g) == g = [n \in 0 .. Len(q) |-> HostNext(q, g, n)]
           Until(g, k) == \A n \in 0 .. k : g[n] = HostNext(q, g, n)
           T == {k \in Nat : \E g : Until(g, k)}
<1>1. ASSUME NEW g, NEW h, NEW n, n = 0 \/ h[n - 1] = g[n - 1]
      PROVE  HostNext(q, h, n) = HostNext(q, g, n)
  BY <1>1 DEF HostNext
<1>2. 0 \in T
  <2> DEFINE g == [n \in {0} |-> <<>>]
  <2>1. g[0] = HostNext(q, g, 0)
    BY DEF HostNext
  <2>2. Until(g, 0)
    BY <2>1
  <2> HIDE DEF Until, g
  <2> QED BY <2>2
<1>3. ASSUME NEW k \in T PROVE k + 1 \in T
  <2>0. k \in Nat
    OBVIOUS
  <2>1. PICK g : Until(g, k)
    OBVIOUS
  <2> DEFINE h == [n \in 0 .. k + 1 |-> IF n = k + 1 THEN HostNext(q, g, n) ELSE g[n]]
  <2>2. ASSUME NEW n \in 0 .. k + 1 PROVE h[n] = HostNext(q, h, n)
    <3>1. n # 0 => n - 1 \in 0 .. k + 1 /\ n - 1 # k + 1
      BY <2>0
    <3>2. n = 0 \/ h[n - 1] = g[n - 1]
      BY <3>1
    <3>3. n # k + 1 => n \in 0 .. k
      BY <2>0
    <3>4. h[n] = IF n = k + 1 THEN HostNext(q, g, n) ELSE g[n]
      OBVIOUS
    <3> HIDE DEF h
    <3>5. HostNext(q, h, n) = HostNext(q, g, n)
      BY <1>1, <3>2
    <3>6. h[n] = HostNext(q, g, n)
      BY <2>1, <3>3, <3>4
    <3> QED BY <3>5, <3>6
  <2>3. Until(h, k + 1)
    <3> HIDE DEF h
    <3> QED BY <2>2
  <2>4. k + 1 \in Nat
    BY <2>0
  <2> HIDE DEF Until, h
  <2> QED BY <2>3, <2>4
<1>4. Len(q) \in T
  <2> HIDE DEF T
  <2>1. T \in SUBSET Nat
    BY DEF T
  <2> QED BY <1>2, <1>3, <2>1, Induction
<1>5. PICK f : Until(f, Len(q))
  BY <1>4
<1> DEFINE w == [n \in 0 .. Len(q) |-> f[n]]
<1>6. Good(w)
  <2>1. ASSUME NEW n \in 0 .. Len(q) PROVE f[n] = HostNext(q, w, n)
    <3>1. n # 0 => n - 1 \in 0 .. Len(q)
      OBVIOUS
    <3>2. n = 0 \/ w[n - 1] = f[n - 1]
      BY <3>1
    <3> HIDE DEF w
    <3>3. HostNext(q, w, n) = HostNext(q, f, n)
      BY <1>1, <3>2
    <3> QED BY <1>5, <3>3
  <2> DEFINE v == w
  <2>2. \A n \in 0 .. Len(q) : f[n] = HostNext(q, v, n)
    BY <2>1
  <2> HIDE DEF v
  <2>3. w = [n \in 0 .. Len(q) |-> HostNext(q, v, n)]
    BY <2>2
  <2> QED BY <2>3 DEF v
<1> DEFINE to == CHOOSE g : Good(g)
<1>7. Hosts(q) = to
  BY Zenon DEF Hosts, HostNext
<1>8. Good(to)
  <2> HIDE DEF Good
  <2> QED BY <1>6, Zenon
<1>9. ASSUME NEW n \in 0 .. Len(q) PROVE to[n] = HostNext(q, to, n)
  <2> DEFINE g == to
  <2>1. g = [k \in 0 .. Len(q) |-> HostNext(q, g, k)]
    BY <1>8
  <2> HIDE DEF g
  <2>2. g[n] = HostNext(q, g, n)
    BY <2>1
  <2> QED BY <2>2 DEF g
<1> HIDE DEF to
<1> QED BY <1>7, <1>9

LEMMA HostNameType ==
  ASSUME ListsAreTexts, NEW d, NEW c \in Seq(Text)
  PROVE  HostName(d, c) \in Seq(Text)
<1> DEFINE list == Lists(d)
           alike == {i \in DOMAIN list : list[i].dos = c}
<1>1. list \in Seq([dos : Seq(Text), host : Seq(Text)])
  BY DEF ListsAreTexts
<1> HIDE DEF list
<1>2. DOMAIN list \subseteq Nat /\ \A i \in DOMAIN list : list[i].host \in Seq(Text)
  <2> DEFINE R == [dos : Seq(Text), host : Seq(Text)]
  <2>1. list \in Seq(R) /\ \A r \in R : r.host \in Seq(Text)
    BY <1>1
  <2> HIDE DEF R
  <2>2. DOMAIN list \subseteq Nat /\ \A i \in DOMAIN list : list[i] \in R
    BY <2>1
  <2> QED BY <2>1, <2>2
<1>3. alike # {} => Min(alike) \in DOMAIN list
  <2>1. alike \in SUBSET Nat /\ alike \subseteq DOMAIN list
    BY <1>2
  <2> HIDE DEF alike
  <2> QED BY <2>1, MinIn
<1>4. Utf8(c) \in Seq(Text)
  BY Utf8Is, TextsAre
<1>5. HostName(d, c) = IF ~Contains(c, TILDE) THEN Utf8(c)
                       ELSE IF alike = {} THEN c ELSE list[Min(alike)].host
  BY DEF HostName, list
<1> HIDE DEF alike
<1> QED BY <1>2, <1>3, <1>4, <1>5

LEMMA HostStep ==
  ASSUME NEW q \in PathsOf, NEW k \in 0 .. Len(q) - 1, NEW d, d = Append(Hosts(q)[k], SEP)
  PROVE  Hosts(q)[0] = <<>> /\ Hosts(q)[k + 1] = d \o HostName(d, q[k + 1])
<1>1. Len(q) \in Nat
  BY DEF PathsOf
<1>2. 0 \in 0 .. Len(q) /\ k + 1 \in 0 .. Len(q) /\ k + 1 # 0 /\ (k + 1) - 1 = k
  BY <1>1
<1>3. Hosts(q)[0] = HostNext(q, Hosts(q), 0)
  BY <1>1, <1>2, HostsAre
<1> DEFINE n == k + 1
           h == Hosts(q)
<1> HIDE DEF n
<1>4. Hosts(q)[n] = HostNext(q, Hosts(q), n)
  BY <1>1, <1>2, HostsAre DEF n
<1>5. n # 0 /\ n - 1 = k
  BY <1>2 DEF n
<1> HIDE DEF h
<1>6. HostNext(q, h, n) = LET e == Append(h[n - 1], SEP) IN e \o HostName(e, q[n])
  BY <1>5 DEF HostNext
<1>7. HostNext(q, h, n) = d \o HostName(d, q[n])
  BY <1>5, <1>6 DEF h
<1>8. Hosts(q)[n] = d \o HostName(d, q[n])
  BY <1>4, <1>7 DEF h
<1>9. Hosts(q)[0] = <<>>
  BY <1>3 DEF HostNext
<1> QED BY <1>8, <1>9 DEF n

LEMMA HostsType ==
  ASSUME ListsAreTexts, NEW q \in PathsOf
  PROVE  Hosts(q)[0] = <<>> /\ \A n \in 0 .. Len(q) : Hosts(q)[n] \in Seq(Text)
<1>0. Len(q) \in Nat
  BY DEF PathsOf
<1>1. Hosts(q)[0] = <<>>
  <2>1. 0 \in 0 .. Len(q)
    BY <1>0
  <2>2. Hosts(q)[0] = HostNext(q, Hosts(q), 0)
    BY <1>0, <2>1, HostsAre
  <2> QED BY <2>2 DEF HostNext
<1> DEFINE T == {n \in Nat : n <= Len(q) => Hosts(q)[n] \in Seq(Text)}
<1>2. 0 \in T
  <2>1. <<>> \in Seq(Text)
    OBVIOUS
  <2>2. Hosts(q)[0] \in Seq(Text)
    BY <1>1, <2>1
  <2> QED BY <2>2
<1>3. ASSUME NEW n \in T PROVE n + 1 \in T
  <2>1. n \in Nat /\ n + 1 \in Nat
    OBVIOUS
  <2> SUFFICES ASSUME n + 1 <= Len(q) PROVE Hosts(q)[n + 1] \in Seq(Text)
    BY <2>1
  <2>2. Hosts(q)[n] \in Seq(Text) /\ n \in 0 .. Len(q) - 1
    BY <1>0, <2>1
  <2> DEFINE t == Hosts(q)[n]
             d == Append(t, SEP)
             c == q[n + 1]
             e == HostName(d, c)
  <2>3. Hosts(q)[n + 1] = d \o e
    BY <2>2, HostStep
  <2>4. t \in Seq(Text)
    BY <2>2
  <2>5. c \in Seq(Text)
    <3>1. n + 1 \in 1 .. Len(q)
      BY <1>0, <2>2
    <3>2. c \in Seq(Chars \cup {TILDE})
      BY <3>1 DEF PathsOf
    <3> QED BY <3>2, ComponentIs
  <2> HIDE DEF t, c
  <2>6. d \in Seq(Text)
    BY <2>4, TextsAre
  <2>7. e \in Seq(Text)
    BY <2>5, HostNameType
  <2> HIDE DEF d, e
  <2> QED BY <2>3, <2>6, <2>7, ConcatIs
<1> HIDE DEF T
<1>4. T = Nat
  <2>1. T \in SUBSET Nat
    BY DEF T
  <2> QED BY <1>2, <1>3, <2>1, Induction
<1>5. ASSUME NEW n \in 0 .. Len(q) PROVE Hosts(q)[n] \in Seq(Text)
  <2>1. n \in T /\ n <= Len(q)
    BY <1>0, <1>4
  <2> QED BY <2>1 DEF T
<1> QED BY <1>1, <1>5

-----------------------------------------------------------------------------
(* A path in DOS's memory *)

InMemory(q, w) ==
  /\ q \in PathsOf /\ q # <<>> /\ w \in Seq(Text) /\ w[Len(w)] = NUL
  /\ IsStart(Whole(q), w)

LEMMA PosGrows ==
  ASSUME NEW q \in PathsOf, NEW k \in 0 .. Len(q), NEW m \in k .. Len(q)
  PROVE  Pos(q, k) \in Nat \ {0} /\ Pos(q, m) \in Nat \ {0} /\ Pos(q, k) <= Pos(q, m)
<1> DEFINE t == Joined(Upto(q, k))
           u == Joined(Upto(q, m))
<1>1. k \in 0 .. Len(q) /\ m \in 0 .. Len(q)
  BY DEF PathsOf
<1>2. t \in Seq(Text) /\ u \in Seq(Text) /\ Pos(q, k) \in Nat \ {0} /\ Pos(q, m) \in Nat \ {0}
  BY <1>1, JoinedUpto
<1>3. IsStart(t, u)
  BY JoinedBegins
<1>4. Pos(q, k) = Len(t) + 1 /\ Pos(q, m) = Len(u) + 1
  BY DEF Pos
<1> HIDE DEF t, u
<1>5. Len(t) \in Nat /\ Len(u) \in Nat /\ Len(t) <= Len(u)
  BY <1>2, <1>3 DEF IsStart
<1> QED BY <1>2, <1>4, <1>5

LEMMA PartBegins ==
  ASSUME NEW v \in Seq(Text), NEW w, IsStart(v, w), NEW a, NEW b, NEW c,
         Part(v, a, c, b), b <= Len(v)
  PROVE  Part(w, a, c, b)
<1>1. Len(v) \in Nat /\ \A i \in 1 .. Len(v) : w[i] = v[i]
  BY DEF IsStart
<1>2. /\ a \in Nat \ {0} /\ b \in Nat \ {0} /\ Len(c) \in Nat /\ b = a + 1 + Len(c)
      /\ v[a] = SEP /\ \A i \in 1 .. Len(c) : v[a + i] = c[i]
  BY DEF Part
<1> DEFINE n == Len(c)
           l == Len(v)
<1>3. a \in 1 .. l /\ \A i \in 1 .. n : a + i \in 1 .. l
  BY <1>1, <1>2
<1>4. w[a] = SEP /\ \A i \in 1 .. n : w[a + i] = c[i]
  BY <1>1, <1>2, <1>3
<1> QED BY <1>2, <1>4 DEF Part

LEMMA Placed ==
  ASSUME NEW q, NEW w, InMemory(q, w), NEW k \in 0 .. Len(q) - 1
  PROVE  /\ q[k + 1] \in Seq(Chars \cup {TILDE})
         /\ Part(w, Pos(q, k), q[k + 1], Pos(q, k + 1))
<1>1. q \in PathsOf /\ IsStart(Whole(q), w)
  BY DEF InMemory
<1>2. /\ q[k + 1] \in Seq(Chars \cup {TILDE})
      /\ Part(Whole(q), Pos(q, k), q[k + 1], Pos(q, k + 1))
  BY <1>1, Layout
<1>3. Whole(q) \in Seq(Text) /\ Len(q) \in Nat /\ Len(Whole(q)) = Pos(q, Len(q))
  BY <1>1, WholeIs
<1>4. Pos(q, k + 1) <= Len(Whole(q))
  <2>1. k + 1 \in 0 .. Len(q) /\ Len(q) \in k + 1 .. Len(q)
    BY <1>3
  <2> QED BY <1>1, <1>3, <2>1, PosGrows
<1> QED BY <1>1, <1>2, <1>3, <1>4, PartBegins

\* No separator, tilde or 0 is in the plain text of a path but as it should.
LEMMA NoEnds ==
  ASSUME NEW q \in PathsOf
  PROVE  Joined(q) \in Seq(Text \ {NUL})
<1> DEFINE S == Text \ {NUL}
           r == [i \in DOMAIN q |-> <<SEP>> \o q[i]]
<1>1. DOMAIN q = 1 .. Len(q) /\ Len(q) \in Nat
  BY DEF PathsOf
<1>2. ASSUME NEW i \in DOMAIN q PROVE <<SEP>> \o q[i] \in Seq(S)
  <2>1. q[i] \in Seq(Chars \cup {TILDE})
    BY DEF PathsOf
  <2>2. Chars \cup {TILDE} \subseteq S /\ SEP \in S
    BY TextsAre
  <2> DEFINE c == q[i]
             h == <<SEP>>
  <2>3. c \in Seq(S)
    BY <2>1, <2>2
  <2>4. h \in Seq(S)
    BY <2>2
  <2> HIDE DEF c, h, S
  <2>5. h \o c \in Seq(S)
    BY <2>3, <2>4, ConcatIs
  <2> QED BY <2>5 DEF c, h
<1>3. r \in Seq(Seq(S))
  <2> DEFINE n == Len(q)
  <2>1. r = [i \in 1 .. n |-> <<SEP>> \o q[i]]
    BY <1>1
  <2>2. \A i \in 1 .. n : <<SEP>> \o q[i] \in Seq(S)
    BY <1>1, <1>2
  <2>3. n \in Nat
    BY <1>1
  <2> HIDE DEF r, n, S
  <2> QED BY <2>1, <2>2, <2>3
<1> HIDE DEF S, r
<1>4. FlattenSeq(r) \in Seq(S)
  BY <1>3, FlattenSeqType
<1> QED BY <1>4 DEF Joined, r, S

LEMMA EndPlaced ==
  ASSUME NEW q, NEW w, InMemory(q, w)
  PROVE  /\ Pos(q, Len(q)) \in 1 .. Len(w) /\ w[Pos(q, Len(q))] = NUL
         /\ \A i \in 1 .. Pos(q, Len(q)) - 1 : w[i] # NUL
<1> DEFINE v == Whole(q)
           j == Joined(q)
<1>1. q \in PathsOf /\ IsStart(v, w) /\ w \in Seq(Text)
  BY DEF InMemory
<1>2. v \in Seq(Text) /\ Len(v) = Pos(q, Len(q)) /\ v[Pos(q, Len(q))] = NUL
  BY <1>1, WholeIs
<1>3. j \in Seq(Text \ {NUL}) /\ j \in Seq(Text) /\ NUL \in Text /\ v = Append(j, NUL)
  BY <1>1, NoEnds, JoinedType, TextsAre DEF Whole
<1> HIDE DEF v, j
<1>4. Len(v) = Len(j) + 1 /\ \A i \in 1 .. Len(j) : v[i] = j[i]
  BY <1>3, AppendedIs
<1>5. Len(v) \in Nat /\ Len(w) \in Nat /\ Len(j) \in Nat
  BY <1>1, <1>2, <1>3
<1>6. Len(v) <= Len(w) /\ \A i \in 1 .. Len(v) : w[i] = v[i]
  BY <1>1 DEF IsStart
<1> DEFINE l == Len(v)
           n == Len(j)
<1>7. l \in Nat /\ n \in Nat /\ l = n + 1 /\ l - 1 = n /\ Pos(q, Len(q)) = l
  BY <1>2, <1>4, <1>5
<1>8. ASSUME NEW i \in 1 .. l - 1 PROVE w[i] # NUL
  <2>1. i \in 1 .. n /\ i \in 1 .. l
    BY <1>7
  <2>2. w[i] = j[i]
    BY <1>4, <1>6, <2>1
  <2>3. j[i] \in Text \ {NUL}
    BY <1>3, <2>1
  <2> QED BY <2>2, <2>3
<1>9. l \in 1 .. Len(w) /\ w[l] = NUL
  <2>1. l \in 1 .. Len(w) /\ l \in 1 .. l
    BY <1>5, <1>6, <1>7
  <2> QED BY <1>2, <1>6, <1>7, <2>1
<1> QED BY <1>7, <1>8, <1>9

\* The text m from a to before b
Spells(w, a, m, b) ==
  /\ a \in Nat \ {0} /\ b \in Nat /\ Len(m) \in Nat /\ b = a + Len(m)
  /\ \A i \in 1 .. Len(m) : w[(a - 1) + i] = m[i]

LEMMA SpellNext ==
  ASSUME NEW w, NEW a, NEW b, NEW e, NEW m \in Seq(Text), NEW c \in Seq(Text),
         Spells(w, a, m, b), Part(w, b, c, e), NEW u, u = m \o (<<SEP>> \o c)
  PROVE  u \in Seq(Text) /\ Spells(w, a, u, e)
<1> DEFINE x == Len(m)
           y == Len(c)
           z == Len(u)
<1>1. u \in Seq(Text) /\ IsStart(m, u) /\ Part(u, x + 1, c, z + 1)
  BY BeginsNext
<1>2. /\ a \in Nat \ {0} /\ x \in Nat /\ b = a + x
      /\ \A i \in 1 .. x : w[(a - 1) + i] = m[i]
  BY DEF Spells
<1>3. /\ e \in Nat /\ y \in Nat /\ e = b + 1 + y /\ w[b] = SEP
      /\ \A i \in 1 .. y : w[b + i] = c[i]
  BY DEF Part
<1>4. /\ z + 1 = (x + 1) + 1 + y /\ u[x + 1] = SEP
      /\ \A i \in 1 .. y : u[(x + 1) + i] = c[i]
  BY <1>1 DEF Part
<1>5. \A i \in 1 .. x : u[i] = m[i]
  BY <1>1 DEF IsStart
<1>6. z \in Nat
  BY <1>1
<1> HIDE DEF x, y, z
<1>7. z = x + 1 + y /\ e = a + z
  BY <1>2, <1>3, <1>4, <1>6
<1>8. ASSUME NEW i \in 1 .. z PROVE w[(a - 1) + i] = u[i]
  <2>1. CASE i \in 1 .. x
    BY <1>2, <1>5, <2>1
  <2>2. CASE i = x + 1
    <3>1. (a - 1) + i = b
      BY <1>2, <2>2
    <3> QED BY <1>3, <1>4, <2>2, <3>1
  <2>3. CASE i > x + 1
    <3> DEFINE j == i - (x + 1)
    <3>1. j \in 1 .. y /\ (a - 1) + i = b + j /\ i = (x + 1) + j
      BY <1>2, <1>3, <1>7, <2>3
    <3> HIDE DEF j
    <3>2. w[b + j] = c[j] /\ u[(x + 1) + j] = c[j]
      BY <1>3, <1>4, <3>1
    <3> QED BY <3>1, <3>2
  <2>4. i \in 1 .. x \/ i = x + 1 \/ i > x + 1
    <3>1. x \in Nat /\ i \in Int /\ i >= 1
      BY <1>2, <1>6
    <3> QED BY <3>1
  <2> QED BY <2>1, <2>2, <2>3, <2>4
<1>9. Spells(w, a, u, e)
  <2>1. /\ a \in Nat \ {0} /\ e \in Nat /\ Len(u) \in Nat /\ e = a + Len(u)
        /\ \A i \in 1 .. Len(u) : w[(a - 1) + i] = u[i]
    BY <1>2, <1>3, <1>6, <1>7, <1>8 DEF z
  <2> QED BY <2>1 DEF Spells
<1> QED BY <1>1, <1>9

\* The equations of the next two lemmas, as they are cited
Regroups(h, f, o, e) == h \o (f \o (o \o e)) = ((h \o f) \o o) \o e
Converts(h, m, o, c) == h \o Utf8(m \o (o \o c)) = ((h \o Utf8(m)) \o o) \o Utf8(c)

LEMMA FourAssociate ==
  ASSUME NEW h \in Seq(Text), NEW f \in Seq(Text), NEW o \in Seq(Text), NEW e \in Seq(Text)
  PROVE  Regroups(h, f, o, e)
<1> DEFINE y == f \o o
<1>1. y \in Seq(Text)
  BY ConcatIs
<1>2. y \o e = f \o (o \o e)
  BY TextsAssociate
<1>3. (h \o f) \o o = h \o y
  BY TextsAssociate
<1> HIDE DEF y
<1>4. (h \o y) \o e = h \o (y \o e)
  BY <1>1, TextsAssociate
<1> QED BY <1>2, <1>3, <1>4 DEF Regroups

LEMMA Utf8Parts ==
  ASSUME NEW h \in Seq(Text), NEW m \in Seq(Text), NEW c \in Seq(Text),
         NEW o \in Seq(Text), Utf8(o) = o
  PROVE  Converts(h, m, o, c)
<1> DEFINE x == o \o c
           f == Utf8(m)
           e == Utf8(c)
<1>1. x \in Seq(Text)
  BY ConcatIs
<1>2. Utf8(x) = o \o e
  BY Utf8Concat
<1> HIDE DEF x
<1>3. Utf8(m \o x) = f \o Utf8(x)
  BY <1>1, Utf8Concat
<1>4. f \in Seq(Text) /\ e \in Seq(Text)
  BY Utf8Is, TextsAre
<1> HIDE DEF f, e
<1>5. Regroups(h, f, o, e)
  BY <1>4, FourAssociate
<1> QED BY <1>2, <1>3, <1>5 DEF Regroups, Converts, x, f, e

\* A plain component leads on from where the text m led.
LeadsOn(h, m, c) ==
  h \o Utf8(m \o (<<SEP>> \o c)) = Append(h \o Utf8(m), SEP) \o Utf8(c)

LEMMA Utf8Plain ==
  ASSUME NEW h \in Seq(Text), NEW m \in Seq(Text), NEW c \in Seq(Text)
  PROVE  LeadsOn(h, m, c)
<1>1. <<SEP>> \in Seq(Text) /\ SEP \in Text /\ <<SEP>> = Append(<<>>, SEP) /\ <<>> \in Seq(Text)
  BY TextsAre
<1>2. Utf8(<<>>) = <<>>
  BY Utf8Empty
<1>3. Utf8(<<SEP>>) = <<SEP>>
  <2>1. Utf8(Append(<<>>, SEP)) = Utf8(<<>>) \o ByteOf(SEP)
    BY <1>1, Utf8Append
  <2>2. ByteOf(SEP) = <<SEP>>
    BY TextsAre DEF ByteOf
  <2>3. <<>> \o <<SEP>> = <<SEP>>
    BY <1>1, ConcatEmpty
  <2> QED BY <1>1, <1>2, <2>1, <2>2, <2>3
<1>4. Utf8(m) \in Seq(Text) /\ Utf8(c) \in Seq(Text)
  BY Utf8Is, TextsAre
<1>5. h \o Utf8(m) \in Seq(Text)
  BY <1>4, ConcatIs
<1>6. Append(h \o Utf8(m), SEP) = (h \o Utf8(m)) \o <<SEP>>
  BY <1>5
<1> DEFINE o == <<SEP>>
<1>7. o \in Seq(Text) /\ Utf8(o) = o
  BY <1>1, <1>3
<1> HIDE DEF o
<1>8. Converts(h, m, o, c)
  BY <1>7, Utf8Parts
<1> QED BY <1>6, <1>8 DEF Converts, LeadsOn, o

-----------------------------------------------------------------------------
(* From one component to the next that has a tilde *)

\* Components k + 1 to n have no tilde.
Plain(q, k, n) == \A i \in k + 1 .. n : ~Contains(q[i], TILDE)

\* m is in memory what is between places k and n, and leads from one to the other.
Between(q, w, k, n, m) ==
  /\ m \in Seq(Text) /\ Spells(w, Pos(q, k), m, Pos(q, n))
  /\ Hosts(q)[n] = Hosts(q)[k] \o Utf8(m)

LEMMA BetweenNext ==
  ASSUME ListsAreTexts, NEW q, NEW w, InMemory(q, w), NEW n \in 0 .. Len(q) - 1,
         NEW k \in 0 .. n, ~Contains(q[n + 1], TILDE), NEW m, Between(q, w, k, n, m)
  PROVE  \E u : Between(q, w, k, n + 1, u)
<1> DEFINE comp == q[n + 1]
           base == Hosts(q)[n]
           start == Hosts(q)[k]
           more == m \o (<<SEP>> \o comp)
<1>1. q \in PathsOf /\ Len(q) \in Nat
  BY DEF InMemory, PathsOf
<1>2. n \in 0 .. Len(q) /\ k \in 0 .. Len(q)
  BY <1>1
<1>3. base \in Seq(Text) /\ start \in Seq(Text)
  BY <1>1, <1>2, HostsType
<1>4. /\ comp \in Seq(Chars \cup {TILDE})
      /\ Part(w, Pos(q, n), comp, Pos(q, n + 1))
  BY Placed
<1>5. Hosts(q)[n + 1] = Append(base, SEP) \o HostName(Append(base, SEP), comp)
  BY <1>1, HostStep
<1>6. HostName(Append(base, SEP), comp) = Utf8(comp)
  BY DEF HostName
<1>7. m \in Seq(Text) /\ Spells(w, Pos(q, k), m, Pos(q, n)) /\ base = start \o Utf8(m)
  BY DEF Between
<1> HIDE DEF comp, base, start
<1>8. comp \in Seq(Text)
  BY <1>4, ComponentIs
<1>9. more \in Seq(Text) /\ Spells(w, Pos(q, k), more, Pos(q, n + 1))
  BY <1>4, <1>7, <1>8, SpellNext
<1> HIDE DEF more
<1>10. start \o Utf8(more) = Append(base, SEP) \o Utf8(comp)
  <2>1. more = m \o (<<SEP>> \o comp)
    BY DEF more
  <2>2. start \in Seq(Text) /\ m \in Seq(Text) /\ comp \in Seq(Text) /\ base = start \o Utf8(m)
    BY <1>3, <1>7, <1>8
  <2>3. /\ start \in Seq(Text) /\ m \in Seq(Text) /\ comp \in Seq(Text)
    BY <2>2
  <2>4. LeadsOn(start, m, comp)
    BY <2>3, Utf8Plain
  <2> QED BY <2>1, <2>2, <2>4 DEF LeadsOn
<1>11. Hosts(q)[n + 1] = start \o Utf8(more)
  BY <1>5, <1>6, <1>10
<1> QED BY <1>9, <1>11 DEF Between, start

LEMMA Middle ==
  ASSUME ListsAreTexts, NEW q, NEW w, InMemory(q, w), NEW k \in 0 .. Len(q),
         NEW n \in k .. Len(q), Plain(q, k, n)
  PROVE  \E m : Between(q, w, k, n, m)
<1>1. q \in PathsOf /\ Len(q) \in Nat
  BY DEF InMemory, PathsOf
<1> DEFINE T == {i \in Nat : k + i <= n => \E m : Between(q, w, k, k + i, m)}
<1>2. 0 \in T
  <2>1. k + 0 = k /\ Pos(q, k) \in Nat \ {0}
    BY <1>1, JoinedUpto
  <2> DEFINE a == Pos(q, k)
             h == Hosts(q)[k]
  <2>2. h \in Seq(Text)
    BY <1>1, HostsType
  <2> HIDE DEF a, h
  <2>3. <<>> \in Seq(Text) /\ Spells(w, a, <<>>, a)
    BY <2>1 DEF Spells, a
  <2>4. Utf8(<<>>) = <<>>
    BY Utf8Empty
  <2>5. h = h \o Utf8(<<>>)
    BY <2>2, <2>4, ConcatEmpty
  <2>6. Between(q, w, k, k, <<>>)
    BY <2>3, <2>5 DEF Between, a, h
  <2> QED BY <2>1, <2>6
<1>3. ASSUME NEW i \in T PROVE i + 1 \in T
  <2>1. i \in Nat /\ i + 1 \in Nat
    OBVIOUS
  <2> SUFFICES ASSUME k + (i + 1) <= n PROVE \E m : Between(q, w, k, k + (i + 1), m)
    BY <2>1
  <2> DEFINE e == k + i
  <2>2. /\ e \in 0 .. Len(q) - 1 /\ k \in 0 .. e /\ k + (i + 1) = e + 1 /\ e <= n
        /\ e + 1 \in k + 1 .. n
    BY <1>1, <2>1
  <2>3. PICK m : Between(q, w, k, e, m)
    BY <2>1, <2>2
  <2>4. ~Contains(q[e + 1], TILDE)
    BY <2>2 DEF Plain
  <2> HIDE DEF e
  <2>5. \E u : Between(q, w, k, e + 1, u)
    BY <2>2, <2>3, <2>4, BetweenNext
  <2> QED BY <2>2, <2>5
<1> HIDE DEF T
<1>4. T = Nat
  <2>1. T \in SUBSET Nat
    BY DEF T
  <2> QED BY <1>2, <1>3, <2>1, Induction
<1> DEFINE e == n - k
<1>5. e \in Nat /\ k + e = n /\ k + e <= n
  BY <1>1
<1> HIDE DEF e
<1>6. e \in T
  BY <1>4, <1>5
<1> QED BY <1>5, <1>6 DEF T

\* Nothing between a and l stops a search for c.
Passes(w, a, l, c) == \A i \in a .. l - 1 : w[i] \notin {c, NUL}

LEMMA PlainBefore ==
  ASSUME NEW q, NEW w, InMemory(q, w), NEW k \in 0 .. Len(q), NEW l \in Nat,
         Passes(w, Pos(q, k), l, TILDE), NEW n \in k .. Len(q), Pos(q, n) <= l
  PROVE  Plain(q, k, n)
<1>1. q \in PathsOf /\ Len(q) \in Nat
  BY DEF InMemory, PathsOf
<1> SUFFICES ASSUME NEW i \in k + 1 .. n, Contains(q[i], TILDE) PROVE FALSE
  BY DEF Plain
<1> DEFINE j == i - 1
           c == q[i]
           a == Pos(q, j)
           b == Pos(q, i)
           z == Pos(q, k)
<1>2. /\ j \in 0 .. Len(q) - 1 /\ j + 1 = i /\ j \in k .. Len(q)
      /\ i \in 0 .. Len(q) /\ n \in i .. Len(q)
  BY <1>1
<1>3. Part(w, a, c, b)
  <2> HIDE DEF j
  <2>1. Part(w, Pos(q, j), q[j + 1], Pos(q, j + 1))
    BY <1>2, Placed
  <2> QED BY <1>2, <2>1
<1>4. /\ z \in Nat \ {0} /\ a \in Nat \ {0} /\ z <= a
  <2> HIDE DEF j
  <2> QED BY <1>1, <1>2, PosGrows
<1>5. b <= Pos(q, n) /\ Pos(q, n) \in Nat
  BY <1>1, <1>2, PosGrows
<1>6. PICK y \in 1 .. Len(c) : c[y] = TILDE
  BY DEF Contains
<1>7. /\ b \in Nat \ {0} /\ Len(c) \in Nat /\ b = a + 1 + Len(c)
      /\ \A x \in 1 .. Len(c) : w[a + x] = c[x]
  BY <1>3 DEF Part
<1>8. w[a + y] = TILDE
  BY <1>6, <1>7
<1> DEFINE x == Len(c)
           p == Pos(q, n)
<1>9. /\ x \in Nat /\ b = a + 1 + x /\ y \in 1 .. x /\ a \in Nat /\ z \in Nat
      /\ z <= a /\ b <= p /\ p <= l /\ p \in Nat
  BY <1>4, <1>5, <1>6, <1>7
<1> HIDE DEF x, a, b, z, p
<1>10. a + y \in z .. l - 1
  BY <1>9
<1> QED BY <1>8, <1>10 DEF Passes, z

\* The component in which a place is
LEMMA InComponent ==
  ASSUME NEW q, NEW w, InMemory(q, w), NEW k \in 0 .. Len(q), NEW l \in Nat,
         Pos(q, k) <= l, l < Pos(q, Len(q))
  PROVE  \E j \in k .. Len(q) - 1 : Pos(q, j) <= l /\ l < Pos(q, j + 1)
<1>1. q \in PathsOf /\ Len(q) \in Nat
  BY DEF InMemory, PathsOf
<1> DEFINE T == {n \in k .. Len(q) : l < Pos(q, n)}
<1>2. T \in SUBSET Nat /\ Len(q) \in T
  BY <1>1
<1> HIDE DEF T
<1>3. PICK n \in T : \A m \in T : n <= m
  BY <1>2, Least
<1>4. n \in k .. Len(q) /\ l < Pos(q, n)
  BY <1>3 DEF T
<1>5. n # k
  <2>1. Pos(q, k) \in Nat
    BY <1>1, JoinedUpto
  <2> QED BY <1>4, <2>1
<1> DEFINE j == n - 1
<1>6. j \in k .. Len(q) - 1 /\ j + 1 = n /\ j \in 0 .. Len(q) /\ j \in k .. Len(q)
      /\ ~ (n <= j)
  BY <1>1, <1>4, <1>5
<1> HIDE DEF j
<1>7. Pos(q, j) \in Nat
  BY <1>1, <1>6, JoinedUpto
<1>8. j \notin T
  BY <1>3, <1>6
<1>9. ~ (l < Pos(q, j))
  BY <1>6, <1>8 DEF T
<1>10. Pos(q, j) <= l
  BY <1>7, <1>9
<1> QED BY <1>4, <1>6, <1>10

LEMMA Scan ==
  ASSUME NEW q, NEW w, InMemory(q, w), NEW k \in 0 .. Len(q),
         NEW l, l = First(w, Pos(q, k), TILDE)
  PROVE  /\ l \in Nat
         /\ \/ l = Pos(q, Len(q)) /\ w[l] = NUL /\ Plain(q, k, Len(q))
            \/ \E j \in k .. Len(q) - 1 :
                 /\ Plain(q, k, j) /\ Contains(q[j + 1], TILDE) /\ w[l] = TILDE
                 /\ Pos(q, j) < l /\ l < Pos(q, j + 1)
<1> DEFINE a == Pos(q, k)
           z == Pos(q, Len(q))
<1>1. q \in PathsOf /\ Len(q) \in Nat /\ w \in Seq(Text) /\ w[Len(w)] = NUL
  BY DEF InMemory, PathsOf
<1>2. z \in 1 .. Len(w) /\ w[z] = NUL /\ \A i \in 1 .. z - 1 : w[i] # NUL
  BY EndPlaced
<1>3. a \in Nat \ {0} /\ z \in Nat \ {0} /\ a <= z /\ Len(w) \in Nat
  <2>1. Len(q) \in k .. Len(q)
    BY <1>1
  <2> QED BY <1>1, <2>1, PosGrows
<1> HIDE DEF a, z
<1>4. a \in 1 .. Len(w)
  BY <1>2, <1>3
<1>5. /\ l \in a .. Len(w) /\ l \in 1 .. Len(w) /\ w[l] \in {TILDE, NUL}
      /\ \A i \in a .. l - 1 : w[i] \notin {TILDE, NUL}
  <2>1. l = First(w, a, TILDE)
    BY DEF a
  <2> QED BY <1>1, <1>4, <2>1, FirstIs
<1>6. l \in Nat /\ a <= l
  BY <1>3, <1>5
<1>7. l <= z
  <2> SUFFICES ASSUME ~ (l <= z) PROVE FALSE
    OBVIOUS
  <2>1. z \in a .. l - 1
    BY <1>3, <1>6
  <2> QED BY <1>2, <1>5, <2>1
<1>8. Passes(w, a, l, TILDE)
  BY <1>5 DEF Passes
<1>9. CASE l = z
  <2>1. Len(q) \in k .. Len(q) /\ z <= l
    BY <1>1, <1>3, <1>9
  <2>2. Plain(q, k, Len(q))
    BY <1>6, <1>8, <2>1, PlainBefore DEF a, z
  <2> QED BY <1>2, <1>6, <1>9, <2>2 DEF z
<1>10. CASE l # z
  <2>1. l < z
    BY <1>3, <1>6, <1>7, <1>10
  <2>2. w[l] = TILDE
    <3>1. l \in 1 .. z - 1
      BY <1>3, <1>6, <2>1
    <3> QED BY <1>2, <1>5, <3>1
  <2>3. PICK j \in k .. Len(q) - 1 : Pos(q, j) <= l /\ l < Pos(q, j + 1)
    BY <1>6, <2>1, InComponent DEF a, z
  <2>4. j \in 0 .. Len(q) - 1 /\ j \in 0 .. Len(q) /\ j \in k .. Len(q)
    BY <1>1
  <2> DEFINE c == q[j + 1]
             x == Pos(q, j)
             y == Pos(q, j + 1)
  <2>5. Part(w, x, c, y)
    BY <2>4, Placed
  <2>6. Plain(q, k, j)
    BY <1>6, <1>8, <2>3, <2>4, PlainBefore DEF a
  <2> HIDE DEF c, x, y
  <2>7. /\ x \in Nat /\ y \in Nat /\ Len(c) \in Nat /\ y = x + 1 + Len(c)
        /\ w[x] = SEP /\ \A i \in 1 .. Len(c) : w[x + i] = c[i]
    BY <2>5 DEF Part
  <2>8. x <= l /\ l < y
    BY <2>3 DEF x, y
  <2>9. x # l
    BY <2>2, <2>7, TextsAre
  <2> DEFINE i == l - x
  <2>10. i \in 1 .. Len(c) /\ l = x + i
    <3> DEFINE n == Len(c)
    <3>1. x \in Nat /\ n \in Nat /\ y = x + 1 + n
      BY <2>7
    <3> HIDE DEF n
    <3>2. i \in 1 .. n /\ l = x + i
      BY <1>6, <2>8, <2>9, <3>1
    <3> QED BY <3>2 DEF n
  <2> HIDE DEF i
  <2>11. Contains(c, TILDE)
    <3>1. c[i] = TILDE
      BY <2>2, <2>7, <2>10
    <3> QED BY <2>10, <3>1 DEF Contains
  <2>12. x < l
    BY <1>6, <2>7, <2>8, <2>9
  <2> QED BY <1>6, <2>2, <2>6, <2>8, <2>11, <2>12 DEF c, x, y
<1> QED BY <1>9, <1>10

-----------------------------------------------------------------------------
(* What a pass finds in memory *)

LEMMA FirstOnly ==
  ASSUME NEW t \in Seq(Text), NEW c, NEW i \in Nat, NEW j \in i .. Len(t),
         t[j] \in {c, NUL}, Passes(t, i, j, c)
  PROVE  First(t, i, c) = j
<1> DEFINE Stops(k) == t[k] \in {c, NUL} /\ \A x \in i .. k - 1 : t[x] \notin {c, NUL}
<1>1. Len(t) \in Nat
  OBVIOUS
<1>2. Stops(j)
  BY DEF Passes
<1>3. ASSUME NEW k \in i .. Len(t), Stops(k) PROVE k = j
  <2>1. CASE k < j
    <3>1. k \in i .. j - 1
      BY <1>1, <2>1
    <3> QED BY <1>2, <1>3, <3>1
  <2>2. CASE j < k
    <3>1. j \in i .. k - 1
      BY <1>1, <2>2
    <3> QED BY <1>2, <1>3, <3>1
  <2> QED BY <1>1, <2>1, <2>2
<1>4. First(t, i, c) = CHOOSE k \in i .. Len(t) : Stops(k)
  BY DEF First
<1> HIDE DEF Stops
<1> QED BY <1>2, <1>3, <1>4

LEMMA SpelledIs ==
  ASSUME NEW w \in Seq(Text), NEW a, NEW b, NEW m \in Seq(Text),
         Spells(w, a, m, b), b <= Len(w)
  PROVE  SubSeq(w, a, b - 1) = m
<1> DEFINE n == Len(m)
           l == Len(w)
           v == SubSeq(w, a, b - 1)
<1>1. /\ a \in Nat \ {0} /\ b \in Nat /\ n \in Nat /\ b = a + n
      /\ \A i \in 1 .. n : w[(a - 1) + i] = m[i]
  BY DEF Spells
<1>2. l \in Nat /\ \A i \in 1 .. l : w[i] \in Text
  OBVIOUS
<1>3. \A i \in a .. b - 1 : i \in 1 .. l
  BY <1>1, <1>2
<1>4. v = [i \in 1 .. n |-> w[i + a - 1]]
  <2>1. (b - 1) - a + 1 = n /\ a \in Int /\ b - 1 \in Int
    BY <1>1
  <2> HIDE DEF n
  <2> QED BY <2>1
<1>5. \A i \in 1 .. n : i + a - 1 = (a - 1) + i /\ (a - 1) + i \in a .. b - 1
  BY <1>1
<1>6. v = [i \in 1 .. n |-> m[i]]
  BY <1>1, <1>4, <1>5
<1>7. m = [i \in 1 .. n |-> m[i]]
  OBVIOUS
<1> QED BY <1>6, <1>7

LEMMA SpellsToo ==
  ASSUME NEW w, NEW v, NEW a, NEW b, NEW m, Spells(w, a, m, b),
         \A i \in a .. b - 1 : v[i] = w[i]
  PROVE  Spells(v, a, m, b)
<1> DEFINE n == Len(m)
<1>1. /\ a \in Nat \ {0} /\ b \in Nat /\ n \in Nat /\ b = a + n
      /\ \A i \in 1 .. n : w[(a - 1) + i] = m[i]
  BY DEF Spells
<1>2. \A i \in 1 .. n : (a - 1) + i \in a .. b - 1
  BY <1>1
<1>3. \A i \in 1 .. n : v[(a - 1) + i] = m[i]
  BY <1>1, <1>2
<1> QED BY <1>1, <1>3 DEF Spells

LEMMA PartSpells ==
  ASSUME NEW w, NEW a, NEW c, NEW b, Part(w, a, c, b)
  PROVE  Spells(w, a + 1, c, b)
<1> DEFINE n == Len(c)
<1>1. /\ a \in Nat \ {0} /\ b \in Nat \ {0} /\ n \in Nat /\ b = a + 1 + n
      /\ \A i \in 1 .. n : w[a + i] = c[i]
  BY DEF Part
<1>2. a + 1 \in Nat \ {0} /\ b = (a + 1) + n /\ (a + 1) - 1 = a
  BY <1>1
<1> HIDE DEF n
<1> DEFINE d == a + 1
<1>3. d \in Nat \ {0} /\ b = d + n /\ d - 1 = a
  BY <1>2
<1> HIDE DEF d
<1>4. \A i \in 1 .. n : w[(d - 1) + i] = c[i]
  BY <1>1, <1>3
<1>5. Spells(w, d, c, b)
  BY <1>1, <1>3, <1>4 DEF Spells, n
<1> QED BY <1>5 DEF d

LEMMA InsidePart ==
  ASSUME NEW w, NEW a, NEW c \in Seq(Chars \cup {TILDE}), NEW b, Part(w, a, c, b),
         NEW i \in a + 1 .. b - 1
  PROVE  w[i] \notin {SEP, NUL}
<1> DEFINE n == Len(c)
           j == i - a
<1>1. /\ a \in Nat \ {0} /\ n \in Nat /\ b = a + 1 + n
      /\ \A k \in 1 .. n : w[a + k] = c[k]
  BY DEF Part
<1>2. j \in 1 .. n /\ i = a + j
  BY <1>1
<1>3. w[i] = c[j]
  <2> HIDE DEF j
  <2> QED BY <1>1, <1>2
<1>4. c[j] \in Chars \cup {TILDE}
  <2> HIDE DEF j
  <2> QED BY <1>2
<1> QED BY <1>3, <1>4, TextsAre

\* The last separator before a tilde is the one before its component.
LEMMA LatestPlaced ==
  ASSUME NEW q, NEW w, InMemory(q, w), NEW k \in 0 .. Len(q), NEW j \in k .. Len(q) - 1,
         NEW l \in Nat, Pos(q, j) < l, l < Pos(q, j + 1)
  PROVE  Latest(w, Pos(q, k), l, SEP) = Pos(q, j)
<1> DEFINE a == Pos(q, k)
           b == Pos(q, j)
           e == Pos(q, j + 1)
           c == q[j + 1]
           T == {i \in a .. l - 1 : w[i] = SEP}
<1>1. q \in PathsOf /\ Len(q) \in Nat
  BY DEF InMemory, PathsOf
<1>2. j \in 0 .. Len(q) - 1 /\ j \in k .. Len(q)
  BY <1>1
<1>3. c \in Seq(Chars \cup {TILDE}) /\ Part(w, b, c, e)
  BY <1>2, Placed
<1>4. a \in Nat \ {0} /\ b \in Nat \ {0} /\ a <= b
  BY <1>1, <1>2, PosGrows
<1>5. w[b] = SEP
  BY <1>3 DEF Part
<1> HIDE DEF c
<1>6. b < l /\ l < e /\ e \in Nat
  BY <1>3 DEF Part
<1>7. Latest(w, a, l, SEP) = IF T = {} THEN a ELSE Max(T)
  BY DEF Latest
<1> HIDE DEF a, b, e
<1>8. b \in T
  BY <1>4, <1>5, <1>6
<1>9. ASSUME NEW i \in T PROVE i <= b
  <2> SUFFICES ASSUME ~ (i <= b) PROVE FALSE
    OBVIOUS
  <2>1. i \in b + 1 .. e - 1 /\ w[i] = SEP
    BY <1>4, <1>6
  <2> QED BY <1>3, <2>1, InsidePart
<1>10. T \in SUBSET (0 .. l) /\ T # {}
  BY <1>4, <1>8
<1> HIDE DEF T
<1>11. Max(T) \in T /\ \A i \in T : Max(T) >= i
  BY <1>10, MaxIn
<1>12. Max(T) = b
  <2> DEFINE x == Max(T)
  <2>1. x \in 0 .. l /\ x <= b /\ x >= b
    BY <1>8, <1>9, <1>10, <1>11
  <2> HIDE DEF x
  <2>2. x = b
    BY <1>4, <2>1
  <2> QED BY <2>2 DEF x
<1> QED BY <1>7, <1>10, <1>12 DEF a, b

\* The first separator or end after a tilde is the one after its component.
LEMMA NextPlaced ==
  ASSUME NEW q, NEW w, InMemory(q, w), NEW j \in 0 .. Len(q) - 1,
         NEW l \in Nat, Pos(q, j) < l, l < Pos(q, j + 1)
  PROVE  First(w, l, SEP) = Pos(q, j + 1) /\ Pos(q, j + 1) \in 1 .. Len(w)
<1> DEFINE b == Pos(q, j)
           e == Pos(q, j + 1)
           c == q[j + 1]
           z == Pos(q, Len(q))
<1>1. q \in PathsOf /\ Len(q) \in Nat /\ w \in Seq(Text)
  BY DEF InMemory, PathsOf
<1>2. c \in Seq(Chars \cup {TILDE}) /\ Part(w, b, c, e)
  BY Placed
<1>3. b \in Nat \ {0} /\ e \in Nat \ {0}
  BY <1>2 DEF Part
<1>4. e <= z /\ z \in 1 .. Len(w) /\ w[z] = NUL
  <2>1. j + 1 \in 0 .. Len(q) /\ Len(q) \in j + 1 .. Len(q)
    BY <1>1
  <2> QED BY <1>1, <2>1, PosGrows, EndPlaced
<1>5. w[e] \in {SEP, NUL}
  <2>1. CASE j + 1 = Len(q)
    BY <1>4, <2>1
  <2>2. CASE j + 1 # Len(q)
    <3> DEFINE i == j + 1
    <3>1. i \in 0 .. Len(q) - 1
      BY <1>1, <2>2
    <3> HIDE DEF i
    <3>2. Part(w, Pos(q, i), q[i + 1], Pos(q, i + 1))
      BY <3>1, Placed
    <3>3. w[Pos(q, i)] = SEP
      BY <3>2 DEF Part
    <3> QED BY <3>3 DEF i
  <2> QED BY <2>1, <2>2
<1>6. b < l /\ l < e
  OBVIOUS
<1> HIDE DEF b, c, e, z
<1>7. Len(w) \in Nat /\ e \in l .. Len(w) /\ e \in 1 .. Len(w)
  BY <1>1, <1>3, <1>4, <1>6
<1>8. ASSUME NEW i \in l .. e - 1 PROVE w[i] \notin {SEP, NUL}
  <2>1. i \in b + 1 .. e - 1
    BY <1>3, <1>6
  <2> QED BY <1>2, <2>1, InsidePart
<1>9. Passes(w, l, e, SEP)
  BY <1>8 DEF Passes
<1>10. First(w, l, SEP) = e
  BY <1>1, <1>5, <1>7, <1>9, FirstOnly
<1> QED BY <1>7, <1>10 DEF e

\* A string up to the next 0, when it is at b
LEMMA StringSpelled ==
  ASSUME NEW t \in Seq(Text), NEW a, NEW b \in 1 .. Len(t), NEW m \in Seq(Text),
         Spells(t, a, m, b), t[b] = NUL, \A i \in a .. b - 1 : t[i] # NUL
  PROVE  String(t, a) = m
<1>1. a \in Nat /\ b \in a .. Len(t) /\ b <= Len(t)
  <2>1. a \in Nat /\ Len(m) \in Nat /\ b = a + Len(m)
    BY DEF Spells
  <2> QED BY <2>1
<1>2. Passes(t, a, b, NUL)
  BY DEF Passes
<1>3. First(t, a, NUL) = b
  BY <1>1, <1>2, FirstOnly
<1>4. SubSeq(t, a, b - 1) = m
  BY <1>1, SpelledIs
<1> QED BY <1>3, <1>4 DEF String

\* What a pass reads with the two separators overwritten, and that it puts them
\* back
LEMMA PassReads ==
  ASSUME ListsAreTexts, NEW q, NEW w, InMemory(q, w), NEW k \in 0 .. Len(q),
         NEW j \in k .. Len(q) - 1, Plain(q, k, j),
         NEW b, b = Pos(q, j), NEW e, e = Pos(q, j + 1), NEW o,
         o = [w EXCEPT ![b] = NUL, ![e] = NUL]
  PROVE  /\ \E m : Between(q, w, k, j, m) /\ String(o, Pos(q, k)) = m
         /\ String(o, b + 1) = q[j + 1]
         /\ Mended(o, b, e, w[e]) = w
<1> DEFINE a == Pos(q, k)
           c == q[j + 1]
           z == Pos(q, Len(q))
<1>1. q \in PathsOf /\ Len(q) \in Nat /\ w \in Seq(Text) /\ Len(w) \in Nat
  BY DEF InMemory, PathsOf
<1>2. j \in 0 .. Len(q) - 1 /\ j \in k .. Len(q) /\ j + 1 \in 0 .. Len(q)
      /\ Len(q) \in j + 1 .. Len(q)
  BY <1>1
<1>3. c \in Seq(Chars \cup {TILDE}) /\ Part(w, b, c, e)
  BY <1>2, Placed
<1>4. a \in Nat \ {0} /\ b \in Nat \ {0} /\ a <= b
  BY <1>1, <1>2, PosGrows
<1>5. e \in Nat \ {0} /\ b < e /\ w[b] = SEP
  <2> DEFINE n == Len(c)
  <2>1. e \in Nat \ {0} /\ n \in Nat /\ e = b + 1 + n /\ w[b] = SEP
    BY <1>3 DEF Part
  <2> HIDE DEF n
  <2> QED BY <1>4, <2>1
<1>6. e <= z /\ z \in 1 .. Len(w) /\ \A i \in 1 .. z - 1 : w[i] # NUL
  BY <1>1, <1>2, PosGrows, EndPlaced
<1>7. PICK m : Between(q, w, k, j, m)
  BY <1>2, Middle
<1>8. m \in Seq(Text) /\ Spells(w, a, m, b)
  BY <1>7 DEF Between
<1> HIDE DEF a, c, z
<1>9. b \in 1 .. Len(w) /\ e \in 1 .. Len(w) /\ b # e /\ z \in Nat
  BY <1>1, <1>4, <1>5, <1>6
<1>10. /\ o \in Seq(Text) /\ Len(o) = Len(w) /\ o[b] = NUL /\ o[e] = NUL
       /\ \A i \in 1 .. Len(w) : i \notin {b, e} => o[i] = w[i]
  BY <1>1, <1>9, TextsAre
<1>11. String(o, a) = m
  <2>1. \A i \in a .. b - 1 : i \in 1 .. Len(w) /\ i \notin {b, e} /\ i \in 1 .. z - 1
    BY <1>4, <1>5, <1>6, <1>9
  <2>2. \A i \in a .. b - 1 : o[i] = w[i] /\ w[i] # NUL
    BY <1>6, <1>10, <2>1
  <2>3. Spells(o, a, m, b)
    BY <1>8, <2>2, SpellsToo
  <2>4. \A i \in a .. b - 1 : o[i] # NUL
    BY <2>2
  <2>5. b \in 1 .. Len(o)
    BY <1>9, <1>10
  <2> QED BY <1>8, <1>10, <2>3, <2>4, <2>5, StringSpelled
<1>12. String(o, b + 1) = c
  <2> DEFINE d == b + 1
  <2>1. Spells(w, d, c, e)
    BY <1>3, PartSpells
  <2>2. \A i \in d .. e - 1 : i \in 1 .. Len(w) /\ i \notin {b, e} /\ i \in 1 .. z - 1
    BY <1>4, <1>5, <1>6, <1>9
  <2> HIDE DEF d
  <2>3. \A i \in d .. e - 1 : o[i] = w[i] /\ w[i] # NUL
    BY <1>6, <1>10, <2>2
  <2>4. Spells(o, d, c, e)
    BY <2>1, <2>3, SpellsToo
  <2>5. \A i \in d .. e - 1 : o[i] # NUL
    BY <2>3
  <2>6. e \in 1 .. Len(o) /\ c \in Seq(Text)
    BY <1>3, <1>9, <1>10, ComponentIs
  <2>7. String(o, d) = c
    BY <1>10, <2>4, <2>5, <2>6, StringSpelled
  <2> QED BY <2>7 DEF d
<1>13. Mended(o, b, e, w[e]) = w
  <2> DEFINE v == [o EXCEPT ![b] = SEP, ![e] = w[e]]
  <2>1. v \in Seq(Text) /\ Len(v) = Len(w)
    BY <1>1, <1>9, <1>10, TextsAre
  <2>2. ASSUME NEW i \in 1 .. Len(w) PROVE v[i] = w[i]
    BY <1>5, <1>9, <1>10
  <2> HIDE DEF v
  <2>3. v = w
    BY <1>1, <2>1, <2>2, SamePath
  <2> QED BY <2>3 DEF v, Mended
<1> QED BY <1>7, <1>11, <1>12, <1>13 DEF a, c

-----------------------------------------------------------------------------
(* Room *)

\* With room enough a directory is copied, no name of it is too long, and the
\* name that is asked for is found or kept.
HasRoom(q, room, j, d) ==
  /\ Len(Hosts(q)[j]) <= room /\ Len(d) <= room
  /\ \A i \in DOMAIN Lists(d) : Len(Lists(d)[i].host) <= room - Len(d)
  /\ Len(q[j + 1]) + 2 <= room - Len(d)
  /\ Len(Hosts(q)[j + 1]) <= room

LEMMA HostNameFits ==
  ASSUME ListsAreTexts, NEW d, NEW c \in Seq(Text), NEW n \in Int,
         \A i \in DOMAIN Lists(d) : Len(Lists(d)[i].host) <= n,
         Len(Utf8(c)) + 2 <= n
  PROVE  Len(HostName(d, c)) <= n /\ Len(c) + 2 <= n
<1> DEFINE list == Lists(d)
           alike == {i \in DOMAIN list : list[i].dos = c}
<1>1. Len(Utf8(c)) \in Nat /\ Len(c) \in Nat /\ Len(c) <= Len(Utf8(c))
  BY Utf8Longer
<1>2. Len(c) + 2 <= n /\ Len(c) <= n /\ Len(Utf8(c)) <= n
  <2> DEFINE x == Len(Utf8(c))
             y == Len(c)
  <2>1. x \in Nat /\ y \in Nat /\ y <= x /\ x + 2 <= n
    BY <1>1
  <2> HIDE DEF x, y
  <2>2. y + 2 <= n /\ y <= n /\ x <= n
    BY <2>1
  <2> QED BY <2>2 DEF x, y
<1>3. alike # {} => Min(alike) \in DOMAIN list
  <2>1. DOMAIN list \subseteq Nat
    <3>1. list \in Seq([dos : Seq(Text), host : Seq(Text)])
      BY DEF ListsAreTexts
    <3> DEFINE R == [dos : Seq(Text), host : Seq(Text)]
    <3>2. list \in Seq(R)
      BY <3>1
    <3> HIDE DEF list, R
    <3> QED BY <3>2
  <2>2. alike \in SUBSET Nat /\ alike \subseteq DOMAIN list
    BY <2>1
  <2> HIDE DEF alike
  <2> QED BY <2>2, MinIn
<1>4. HostName(d, c) = IF ~Contains(c, TILDE) THEN Utf8(c)
                       ELSE IF alike = {} THEN c ELSE list[Min(alike)].host
  BY DEF HostName
<1>5. alike # {} => Len(list[Min(alike)].host) <= n
  <2> HIDE DEF alike
  <2> QED BY <1>3
<1> HIDE DEF alike, list
<1>6. \/ HostName(d, c) = Utf8(c) \/ HostName(d, c) = c
      \/ alike # {} /\ HostName(d, c) = list[Min(alike)].host
  BY <1>4
<1>7. Len(HostName(d, c)) <= n
  BY <1>2, <1>5, <1>6
<1> QED BY <1>2, <1>7

LEMMA RoomFits ==
  ASSUME ListsAreTexts, NEW q \in PathsOf, NEW room \in Nat, RoomEnough(q, room),
         NEW j \in 0 .. Len(q) - 1, NEW d, d = Append(Hosts(q)[j], SEP)
  PROVE  HasRoom(q, room, j, d)
<1> DEFINE h == Hosts(q)[j]
           i == j + 1
           c == q[i]
           e == HostName(d, c)
           u == Utf8(c)
<1>1. Len(q) \in Nat /\ j \in 0 .. Len(q) /\ i \in 1 .. Len(q) /\ i - 1 = j /\ DOMAIN q = 1 .. Len(q)
  BY DEF PathsOf
<1>2. h \in Seq(Text)
  BY <1>1, HostsType
<1>3. Hosts(q)[i] = d \o e
  BY HostStep
<1>4. c \in Seq(Text)
  <2>1. c \in Seq(Chars \cup {TILDE})
    BY <1>1 DEF PathsOf
  <2> QED BY <2>1, ComponentIs
<1> HIDE DEF i
<1>5. /\ \A x \in DOMAIN Lists(d) : Len(d) + Len(Lists(d)[x].host) <= room
      /\ Len(d) + Len(u) + 2 <= room
  BY <1>1 DEF RoomEnough
<1> HIDE DEF c
<1>6. u \in Seq(Text) /\ e \in Seq(Text)
  BY <1>4, Utf8Is, HostNameType, TextsAre
<1>7. d \in Seq(Text) /\ Len(d) = Len(h) + 1 /\ Len(h) \in Nat
  <2> HIDE DEF h
  <2>1. Append(h, SEP) \in Seq(Text) /\ Len(Append(h, SEP)) = Len(h) + 1
    BY <1>2, TextsAre, AppendedIs
  <2>2. d = Append(h, SEP)
    BY DEF h
  <2> QED BY <1>2, <2>1, <2>2
<1>8. ASSUME NEW x \in DOMAIN Lists(d)
      PROVE  Len(Lists(d)[x].host) \in Nat
  <2> DEFINE list == Lists(d)
             R == [dos : Seq(Text), host : Seq(Text)]
  <2>1. list \in Seq(R) /\ \A y \in R : y.host \in Seq(Text)
    BY DEF ListsAreTexts
  <2> HIDE DEF R
  <2>2. x \in DOMAIN list
    OBVIOUS
  <2> HIDE DEF list
  <2>3. list[x] \in R
    BY <2>1, <2>2
  <2> DEFINE f == list[x].host
  <2>4. f \in Seq(Text)
    BY <2>1, <2>3
  <2> HIDE DEF f
  <2>5. Len(f) \in Nat
    BY <2>4
  <2> QED BY <2>5 DEF f, list
<1> HIDE DEF h, u
<1> DEFINE n == room - Len(d)
           l == Len(d)
<1>9. n \in Int /\ l \in Nat /\ l + n = room
  BY <1>7
<1>10. \A x \in DOMAIN Lists(d) : Len(Lists(d)[x].host) <= n
  <2> SUFFICES ASSUME NEW x \in DOMAIN Lists(d) PROVE Len(Lists(d)[x].host) <= n
    OBVIOUS
  <2> DEFINE y == Len(Lists(d)[x].host)
  <2>1. y \in Nat /\ l + y <= room
    BY <1>5, <1>8
  <2> HIDE DEF y, n, l
  <2>2. y <= n
    BY <1>9, <2>1
  <2> QED BY <2>2 DEF y
<1>11. Len(u) \in Nat /\ Len(u) + 2 <= n
  <2>1. Len(u) \in Nat /\ l + Len(u) + 2 <= room
    BY <1>5, <1>6
  <2> HIDE DEF n, l
  <2> QED BY <1>9, <2>1
<1>12. Len(e) <= n /\ Len(c) + 2 <= n
  <2> HIDE DEF n, l
  <2> QED BY <1>4, <1>9, <1>10, <1>11, HostNameFits DEF u
<1> HIDE DEF e
<1>13. Len(d \o e) = l + Len(e) /\ Len(e) \in Nat
  <2>1. d \in Seq(Text) /\ e \in Seq(Text)
    BY <1>6, <1>7
  <2>2. Len(d \o e) = Len(d) + Len(e)
    BY <2>1, ConcatIs
  <2> QED BY <2>1, <2>2
<1>14. Len(d \o e) <= room /\ l <= room /\ Len(h) <= room
  <2>1. l = Len(h) + 1 /\ Len(h) \in Nat
    BY <1>7
  <2> HIDE DEF n, l
  <2> QED BY <1>9, <1>11, <1>12, <1>13, <2>1
<1> QED BY <1>3, <1>10, <1>12, <1>14 DEF HasRoom, h, c, i

\* The name that find_real_name gives when nothing is in its way
LEMMA RealFinds ==
  ASSUME ListsAreTexts, NEW d, NEW c \in Seq(Text), NEW n \in Int, Contains(c, TILDE),
         \A i \in DOMAIN Lists(d) : Len(Lists(d)[i].host) <= n,
         Len(c) + 2 <= n
  PROVE  Real(d, c, n).fits /\ Real(d, c, n).name = HostName(d, c)
<1> DEFINE list == Lists(d)
           TooLong(i) == Len(list[i].host) > n
           stops == {i \in DOMAIN list : TooLong(i) \/ list[i].dos = c}
           copied == {i \in DOMAIN list : \A j \in stops : i <= j}
           fits == IF stops = {} THEN Len(c) + 2 <= n ELSE ~TooLong(Min(stops))
           name == IF stops = {} THEN c ELSE list[Min(stops)].host
           W == {1} \cup {Len(list[i].host) + 1 : i \in {k \in copied : ~TooLong(k)}}
                    \cup (IF fits THEN {Len(name) + 1} ELSE {})
           alike == {i \in DOMAIN list : list[i].dos = c}
<1>1. Real(d, c, n) = [name |-> IF fits THEN name ELSE <<>>,
                       fits |-> fits, written |-> Max(W)]
  BY DEF Real
<1>2. \A i \in DOMAIN list : i \in Nat /\ list[i].host \in Seq(Text) /\ Len(list[i].host) \in Nat
  <2> SUFFICES ASSUME NEW i \in DOMAIN list
               PROVE  i \in Nat /\ list[i].host \in Seq(Text) /\ Len(list[i].host) \in Nat
    OBVIOUS
  <2> DEFINE R == [dos : Seq(Text), host : Seq(Text)]
  <2>1. list \in Seq(R) /\ \A y \in R : y.host \in Seq(Text)
    BY DEF ListsAreTexts
  <2> HIDE DEF R, list
  <2>3. list[i] \in R /\ i \in Nat
    BY <2>1
  <2> DEFINE f == list[i].host
  <2>4. f \in Seq(Text)
    BY <2>1, <2>3
  <2> HIDE DEF f
  <2>5. Len(f) \in Nat
    BY <2>4
  <2> QED BY <2>3, <2>4, <2>5 DEF f
<1>3. \A i \in DOMAIN list : ~ TooLong(i)
  BY <1>2
<1>4. stops = alike
  BY <1>3
<1>5. alike # {} => Min(alike) \in DOMAIN list
  <2>1. alike \in SUBSET Nat /\ alike \subseteq DOMAIN list
    BY <1>2
  <2> HIDE DEF alike
  <2> QED BY <2>1, MinIn
<1>6. fits = TRUE
  <2>1. CASE stops = {}
    BY <2>1
  <2>2. CASE stops # {}
    <3>1. ~ TooLong(Min(stops))
      <4> HIDE DEF TooLong, stops, alike
      <4> QED BY <1>3, <1>4, <1>5, <2>2
    <3> HIDE DEF TooLong, stops
    <3> QED BY <2>2, <3>1
  <2> QED BY <2>1, <2>2
<1>7. HostName(d, c) = IF alike = {} THEN c ELSE list[Min(alike)].host
  BY DEF HostName
<1>8. name = HostName(d, c)
  <2> HIDE DEF stops, alike
  <2> QED BY <1>4, <1>7
<1> HIDE DEF fits, name, W
<1> QED BY <1>1, <1>6, <1>8

-----------------------------------------------------------------------------
(* The path that is wanted, in memory *)

LEMMA CallIs ==
  ASSUME NEW g \in Calls
  PROVE  /\ g.path \in PathsOf /\ g.path # <<>> /\ g.count \in Nat /\ g.buflen \in Nat
         /\ Len(g.path) \in Nat \ {0} /\ DOMAIN g.path = 1 .. Len(g.path)
<1>1. /\ g.path \in PathsOf /\ g.path # <<>> /\ g.count \in Nat /\ g.buflen \in Nat
  BY HostPathsAssumption DEF HostPathsAssumption, PathsOf
<1> DEFINE p == g.path
<1>2. p \in PathsOf /\ p # <<>>
  BY <1>1
<1> HIDE DEF p
<1>3. Len(p) \in Nat \ {0} /\ DOMAIN p = 1 .. Len(p)
  BY <1>2 DEF PathsOf
<1> QED BY <1>1, <1>3 DEF p

\* The whole path v of a call, and w, where it may be cut
Cuts(g, v, w, l) ==
  /\ v \in Seq(Text) /\ w \in Seq(Text) /\ l \in Nat
  /\ Len(v) = l + 1 /\ Len(w) = l + 1 /\ v[l + 1] = NUL /\ w[l + 1] = NUL
  /\ \A i \in 1 .. l : v[i] = Joined(g.path)[i]
  /\ \A i \in 1 .. l + 1 :
       w[i] = IF g.count < g.buflen /\ i = g.count + 1 THEN NUL ELSE v[i]
  /\ Uncut(w, g) = v

LEMMA CutIs ==
  ASSUME NEW g \in Calls, NEW v, v = Whole(g.path), NEW w, w = Cut(v, g),
         NEW l, l = Len(Joined(g.path))
  PROVE  Cuts(g, v, w, l)
<1> DEFINE p == g.path
           j == Joined(p)
           C(i) == g.count < g.buflen /\ i = g.count + 1
<1>1. j \in Seq(Text) /\ v = Append(j, NUL)
  BY CallIs, JoinedType DEF Whole
<1>2. w = [i \in DOMAIN v |-> IF C(i) THEN NUL ELSE v[i]]
  BY DEF Cut
<1>3. Uncut(w, g) = [i \in DOMAIN w |-> IF C(i) THEN Append(j, NUL)[i] ELSE w[i]]
  BY DEF Uncut
<1>4. l = Len(j)
  OBVIOUS
<1> HIDE DEF j, C
<1>5. /\ v \in Seq(Text) /\ Len(v) = l + 1 /\ v[l + 1] = NUL /\ l \in Nat
      /\ \A i \in 1 .. l : v[i] = j[i]
  BY <1>1, <1>4, TextsAre, AppendedIs
<1>6. DOMAIN v = 1 .. l + 1 /\ l + 1 \in 1 .. l + 1 /\ l + 1 \in Nat
  BY <1>5
<1>7. \A i \in 1 .. l + 1 : w[i] = IF C(i) THEN NUL ELSE v[i]
  BY <1>2, <1>6
<1>8. w \in Seq(Text) /\ Len(w) = l + 1 /\ DOMAIN w = 1 .. l + 1
  <2> DEFINE n == l + 1
  <2>1. w = [i \in 1 .. n |-> w[i]] /\ n \in Nat
    BY <1>2, <1>6
  <2>2. \A i \in 1 .. n : w[i] \in Text
    <3>1. \A i \in 1 .. n : v[i] \in Text
      BY <1>5
    <3> QED BY <1>7, <3>1, TextsAre
  <2> HIDE DEF n
  <2>3. w \in Seq(Text) /\ Len(w) = n /\ DOMAIN w = 1 .. n
    BY <2>1, <2>2
  <2> QED BY <2>3 DEF n
<1>9. w[l + 1] = NUL
  BY <1>5, <1>6, <1>7
<1>10. Uncut(w, g) = v
  <2>1. Uncut(w, g) = [i \in 1 .. l + 1 |-> v[i]]
    BY <1>1, <1>3, <1>7, <1>8
  <2>2. v = [i \in 1 .. l + 1 |-> v[i]]
    BY <1>5, <1>6
  <2> QED BY <2>1, <2>2
<1> QED BY <1>5, <1>7, <1>8, <1>9, <1>10 DEF Cuts, j, C

LEMMA AllWanted ==
  ASSUME NEW g \in Calls, Wanted(g) = g.path,
         g.count < g.buflen => Len(Joined(g.path)) <= g.count
  PROVE  InMemory(Wanted(g), Cut(Whole(g.path), g))
<1> DEFINE v == Whole(g.path)
           w == Cut(v, g)
           l == Len(Joined(g.path))
<1>1. /\ v \in Seq(Text) /\ w \in Seq(Text) /\ l \in Nat
      /\ Len(v) = l + 1 /\ Len(w) = l + 1 /\ v[l + 1] = NUL /\ w[l + 1] = NUL
      /\ \A i \in 1 .. l + 1 :
           w[i] = IF g.count < g.buflen /\ i = g.count + 1 THEN NUL ELSE v[i]
  <2>1. Cuts(g, v, w, l)
    BY CutIs
  <2> HIDE DEF v, w, l
  <2> QED BY <2>1 DEF Cuts
<1>2. g.count \in Nat /\ g.path \in PathsOf /\ g.path # <<>>
  BY CallIs
<1>3. g.count < g.buflen => l <= g.count
  OBVIOUS
<1> HIDE DEF v, w, l
<1>4. ASSUME NEW i \in 1 .. l + 1 PROVE w[i] = v[i]
  <2>1. CASE i = l + 1
    BY <1>1, <2>1
  <2>2. CASE i # l + 1
    <3>1. ~ (g.count < g.buflen /\ i = g.count + 1)
      BY <1>1, <1>2, <1>3, <2>2
    <3> QED BY <1>1, <3>1
  <2> QED BY <2>1, <2>2
<1>5. IsStart(v, w)
  <2>1. Len(v) <= Len(w)
    BY <1>1
  <2> QED BY <1>1, <1>4, <2>1 DEF IsStart
<1>6. InMemory(g.path, w)
  BY <1>1, <1>2, <1>5 DEF InMemory, v
<1> QED BY <1>6 DEF v, w

LEMMA PartWanted ==
  ASSUME NEW g \in Calls, NEW n \in 1 .. Len(g.path) - 1, Wanted(g) = Upto(g.path, n),
         g.count < g.buflen, Len(Joined(Wanted(g))) = g.count
  PROVE  InMemory(Wanted(g), Cut(Whole(g.path), g))
<1> DEFINE p == g.path
           q == Wanted(g)
           v == Whole(p)
           w == Cut(v, g)
           l == Len(Joined(p))
           m == g.count
           u == Whole(q)
<1>1. /\ v \in Seq(Text) /\ w \in Seq(Text) /\ l \in Nat
      /\ Len(v) = l + 1 /\ Len(w) = l + 1 /\ w[l + 1] = NUL
      /\ \A i \in 1 .. l : v[i] = Joined(p)[i]
      /\ \A i \in 1 .. l + 1 : w[i] = IF i = m + 1 THEN NUL ELSE v[i]
  <2>1. Cuts(g, v, w, l)
    BY CutIs
  <2> HIDE DEF v, w, l
  <2> QED BY <2>1 DEF Cuts
<1>2. m \in Nat /\ p \in PathsOf /\ Len(p) \in Nat
  BY CallIs
<1>3. q \in PathsOf /\ q # <<>> /\ Joined(q) \in Seq(Text)
  <2>1. n \in 0 .. Len(p)
    BY <1>2
  <2>2. Upto(p, n) \in PathsOf /\ Len(Upto(p, n)) = n /\ Joined(Upto(p, n)) \in Seq(Text)
    BY <1>2, <2>1, JoinedUpto
  <2>3. Upto(p, n) # <<>>
    BY <2>2
  <2> QED BY <2>2, <2>3
<1>4. IsStart(Joined(q), Joined(p))
  <2>1. Upto(p, Len(p)) = p
    BY <1>2, UptoAll DEF PathsOf
  <2>2. n \in 0 .. Len(p) /\ Len(p) \in n .. Len(p)
    BY <1>2
  <2>3. IsStart(Joined(Upto(p, n)), Joined(Upto(p, Len(p))))
    BY <1>2, <2>2, JoinedBegins
  <2> QED BY <2>1, <2>3
<1>5. u = Append(Joined(q), NUL) /\ Len(Joined(q)) = m
  BY DEF Whole
<1> DEFINE j == Joined(q)
<1> HIDE DEF q, v, w, l, m, u, p
<1>6. /\ Len(u) = m + 1 /\ u[m + 1] = NUL /\ \A i \in 1 .. m : u[i] = j[i]
  <2>1. j \in Seq(Text) /\ u = Append(j, NUL) /\ Len(j) = m
    BY <1>3, <1>5
  <2> HIDE DEF j
  <2> QED BY <2>1, TextsAre, AppendedIs
<1>7. m <= l /\ \A i \in 1 .. m : Joined(p)[i] = j[i]
  BY <1>4, <1>5 DEF IsStart, l
<1>8. \A i \in 1 .. m + 1 : w[i] = u[i]
  <2> SUFFICES ASSUME NEW i \in 1 .. m + 1 PROVE w[i] = u[i]
    OBVIOUS
  <2>1. CASE i = m + 1
    <3>1. i \in 1 .. l + 1
      BY <1>1, <1>2, <1>7, <2>1
    <3> QED BY <1>1, <1>6, <2>1, <3>1
  <2>2. CASE i # m + 1
    <3>1. i \in 1 .. m /\ i \in 1 .. l /\ i \in 1 .. l + 1
      BY <1>1, <1>2, <1>7, <2>2
    <3> QED BY <1>1, <1>6, <1>7, <2>2, <3>1
  <2> QED BY <2>1, <2>2
<1>9. IsStart(u, w)
  <2>1. Len(u) <= Len(w)
    BY <1>1, <1>2, <1>6, <1>7
  <2> QED BY <1>6, <1>8, <2>1 DEF IsStart
<1>10. InMemory(q, w)
  BY <1>1, <1>3, <1>9 DEF InMemory, u
<1> QED BY <1>10 DEF q, w, v, p

LEMMA WantedInMemory ==
  ASSUME NEW g \in Calls, Wanted(g) # <<>>
  PROVE  InMemory(Wanted(g), Cut(Whole(g.path), g))
<1> DEFINE p == g.path
           T == {0} \cup {i \in DOMAIN p : Len(Joined(SubSeq(p, 1, i))) <= g.count}
           n == Max(T)
<1>0. /\ p \in PathsOf /\ p # <<>> /\ g.count \in Nat /\ g.buflen \in Nat
      /\ Len(p) \in Nat \ {0} /\ DOMAIN p = 1 .. Len(p)
  BY CallIs
<1>1. Wanted(g) = IF g.count < g.buflen THEN Upto(p, n) ELSE p
  BY DEF Wanted, Upto
<1>2. CASE ~ (g.count < g.buflen)
  BY <1>1, <1>2, AllWanted
<1>3. CASE g.count < g.buflen
  <2>1. n \in T /\ n \in 0 .. Len(p)
    <3>1. T \in SUBSET (0 .. Len(p)) /\ T # {} /\ Len(p) \in Nat
      BY <1>0
    <3> HIDE DEF T, p
    <3> QED BY <3>1, MaxIn
  <2>2. n # 0 => Len(Joined(Upto(p, n))) <= g.count
    BY <2>1 DEF Upto
  <2> HIDE DEF n, p
  <2>3. Wanted(g) = Upto(p, n)
    BY <1>1, <1>3
  <2>4. Upto(p, Len(p)) = p /\ Upto(p, 0) = <<>>
    BY <1>0, UptoAll DEF PathsOf
  <2>5. n # 0
    BY <2>3, <2>4
  <2>6. CASE n = Len(p)
    <3>1. Wanted(g) = p /\ Len(Joined(p)) <= g.count
      BY <1>0, <2>2, <2>3, <2>4, <2>5, <2>6
    <3> QED BY <3>1, AllWanted DEF p
  <2>7. CASE n # Len(p)
    <3>1. n \in 1 .. Len(p) - 1
      <4>1. n \in 0 .. Len(p) /\ Len(p) \in Nat
        BY <1>0, <2>1
      <4> QED BY <2>5, <2>7, <4>1
    <3>2. Upto(p, n) # p
      <4>1. Len(Upto(p, n)) = n
        BY <1>0, <2>1, JoinedUpto
      <4> QED BY <2>7, <4>1
    <3>3. Len(Joined(Wanted(g))) = g.count
      BY <1>3, <2>3, <3>2, CountsAssumption DEF CountsAssumption, p
    <3> QED BY <1>3, <2>3, <3>1, <3>3, PartWanted DEF p
  <2> QED BY <2>6, <2>7
<1> QED BY <1>2, <1>3

-----------------------------------------------------------------------------
(* The path is translated as a whole *)

\* The rest from place a ends the host's path, with h for what is before it.
Ends(q, w, a, room, h) ==
  h \o Converted(String(w, a), room - Len(h)).text = HostOf(q)

LEMMA RestEnds ==
  ASSUME ListsAreTexts, NEW q, NEW w, InMemory(q, w), NEW k \in 0 .. Len(q),
         NEW room \in Nat, RoomEnough(q, room), NEW a, a = Pos(q, k),
         NEW h, h = Hosts(q)[k], w[First(w, a, TILDE)] = NUL
  PROVE  Ends(q, w, a, room, h)
<1> DEFINE z == Pos(q, Len(q))
           f == Hosts(q)[Len(q)]
<1>1. q \in PathsOf /\ q # <<>> /\ Len(q) \in Nat /\ w \in Seq(Text)
  BY DEF InMemory, PathsOf
<1>2. Len(q) \in Nat \ {0}
  BY <1>1 DEF PathsOf
<1>3. Plain(q, k, Len(q))
  BY Scan, TextsAre
<1>4. Len(q) \in k .. Len(q) /\ Len(q) \in 0 .. Len(q)
  BY <1>1
<1>5. PICK m : Between(q, w, k, Len(q), m)
  BY <1>3, <1>4, Middle
<1>6. m \in Seq(Text) /\ Spells(w, a, m, z) /\ f = h \o Utf8(m)
  BY <1>5 DEF Between
<1>7. /\ z \in 1 .. Len(w) /\ w[z] = NUL /\ \A i \in 1 .. z - 1 : w[i] # NUL
  BY EndPlaced
<1>8. a \in Nat \ {0}
  BY <1>1, JoinedUpto
<1>9. h \in Seq(Text) /\ Len(h) \in Nat
  <2>1. h \in Seq(Text)
    BY <1>1, HostsType
  <2> QED BY <2>1
<1>10. Len(f) <= room
  <2> DEFINE j == Len(q) - 1
  <2>1. j \in 0 .. Len(q) - 1 /\ j + 1 = Len(q)
    BY <1>2
  <2> HIDE DEF j
  <2>2. HasRoom(q, room, j, Append(Hosts(q)[j], SEP))
    BY <1>1, <2>1, RoomFits
  <2>3. Len(Hosts(q)[j + 1]) <= room
    BY <2>2 DEF HasRoom
  <2> QED BY <2>1, <2>3
<1> HIDE DEF z, f
<1>11. String(w, a) = m
  <2>1. \A i \in a .. z - 1 : i \in 1 .. z - 1
    BY <1>7, <1>8
  <2>2. \A i \in a .. z - 1 : w[i] # NUL
    BY <1>7, <2>1
  <2> QED BY <1>1, <1>6, <1>7, <2>2, StringSpelled
<1> DEFINE u == Utf8(m)
<1>12. u \in Seq(Text)
  BY <1>6, Utf8Is, TextsAre
<1>13. Len(u) <= room - Len(h)
  <2>1. f = h \o u
    BY <1>6
  <2> HIDE DEF u
  <2>2. Len(h \o u) = Len(h) + Len(u)
    BY <1>9, <1>12, ConcatIs
  <2>3. Len(u) \in Nat
    BY <1>12
  <2> QED BY <1>9, <1>10, <2>1, <2>2, <2>3
<1>14. Converted(m, room - Len(h)) = [text |-> u, written |-> Len(u) + 1]
  <2>1. room - Len(h) \in Int
    BY <1>9
  <2> QED BY <1>6, <1>13, <2>1, ConvertedFits
<1>15. Converted(m, room - Len(h)).text = u
  BY <1>14
<1> QED BY <1>6, <1>11, <1>15 DEF Ends, HostOf, f

\* What the loop keeps: the translated part leads to the directories so far, and
\* the memory is as it was at the start.
Reached(q, w, x, h) ==
  \E k \in 0 .. Len(q) : x = Pos(q, k) /\ h = Hosts(q)[k]

RoomFor(g) == Wanted(g) # <<>> /\ RoomEnough(Wanted(g), g.buflen)

WholeInv ==
  /\ call \in Calls /\ at \in {"loop", "done"}
  /\ RoomFor(call) =>
       /\ at = "loop" => /\ src = Cut(Whole(call.path), call)
                         /\ Reached(Wanted(call), src, s, dst)
       /\ at = "done" => /\ dst = HostOf(Wanted(call))
                         /\ src = Whole(call.path)

LEMMA CalledWhole ==
  ASSUME ListsAreTexts, Called PROVE WholeInv
<1>1. /\ call \in Calls /\ src = Cut(Whole(call.path), call)
      /\ s = 1 /\ dst = <<>> /\ at = "loop"
  BY DEF Called, Whole
<1>2. ASSUME RoomFor(call) PROVE Reached(Wanted(call), src, s, dst)
  <2> DEFINE q == Wanted(call)
  <2>1. q \in PathsOf
    BY <1>1, <1>2, WantedInMemory DEF InMemory, RoomFor
  <2> HIDE DEF q
  <2>2. Len(q) \in Nat /\ Pos(q, 0) = 1 /\ Hosts(q)[0] = <<>>
    BY <2>1, WholeIs, HostsType
  <2>3. 0 \in 0 .. Len(q)
    BY <2>2
  <2> QED BY <1>1, <2>2, <2>3 DEF Reached, q
<1> QED BY <1>1, <1>2 DEF WholeInv

LEMMA RestWhole ==
  ASSUME ListsAreTexts, WholeInv, Rest PROVE WholeInv'
<1>1. /\ at = "loop" /\ src[First(src, s, TILDE)] = NUL
      /\ dst' = dst \o Converted(String(src, s), call.buflen - Len(dst)).text
      /\ src' = Uncut(src, call) /\ at' = "done" /\ call' = call
  BY DEF Rest
<1>2. call \in Calls
  BY DEF WholeInv
<1>3. ASSUME RoomFor(call)
      PROVE  dst' = HostOf(Wanted(call)) /\ src' = Whole(call.path)
  <2> DEFINE q == Wanted(call)
             w == Cut(Whole(call.path), call)
  <2>1. src = w /\ Reached(q, src, s, dst)
    BY <1>1, <1>3 DEF WholeInv
  <2>2. InMemory(q, w) /\ RoomEnough(q, call.buflen)
    BY <1>2, <1>3, WantedInMemory DEF RoomFor
  <2>3. call.buflen \in Nat
    BY <1>2, CallIs
  <2>4. Uncut(w, call) = Whole(call.path)
    BY <1>2, CutIs DEF Cuts
  <2> HIDE DEF q, w
  <2>5. PICK k \in 0 .. Len(q) : s = Pos(q, k) /\ dst = Hosts(q)[k]
    BY <2>1 DEF Reached
  <2>6. dst' = HostOf(q)
    <3> DEFINE limit == call.buflen
    <3>1. /\ InMemory(q, src) /\ limit \in Nat /\ RoomEnough(q, limit)
          /\ src[First(src, s, TILDE)] = NUL
      BY <1>1, <2>1, <2>2, <2>3
    <3> HIDE DEF limit
    <3>2. Ends(q, src, s, limit, dst)
      BY <2>5, <3>1, RestEnds
    <3> QED BY <1>1, <3>2 DEF Ends, limit
  <2> QED BY <1>1, <2>1, <2>4, <2>6 DEF q
<1>4. RoomFor(call') => dst' = HostOf(Wanted(call')) /\ src' = Whole(call'.path)
  BY <1>1, <1>3
<1> QED BY <1>1, <1>2, <1>4 DEF WholeInv

LEMMA PassWhole ==
  ASSUME ListsAreTexts, WholeInv, Pass PROVE WholeInv'
<1> DEFINE tl == First(src, s, TILDE)
           ps == Latest(src, s, tl, SEP)
           ns == First(src, tl, SEP)
           open == [src EXCEPT ![ps] = NUL, ![ns] = NUL]
           before == Converted(String(open, s), call.buflen - Len(dst))
           dir == Append(dst \o before.text, SEP)
           real == Real(dir, String(open, ps + 1), call.buflen - Len(dir))
<1>1. /\ at = "loop" /\ src[tl] = TILDE /\ call' = call /\ at' \in {"loop", "done"}
      /\ \/ Len(dir) > call.buflen
         \/ Len(dir) <= call.buflen /\ ~real.fits
         \/ /\ dst' = dir \o real.name
            /\ src' = Mended(open, ps, ns, src[ns]) /\ s' = ns /\ at' = at
  <2>1. at = "loop" /\ src[tl] = TILDE /\ call' = call
    BY DEF Pass
  <2>2. \/ Len(dir) > call.buflen /\ at' = "done"
        \/ Len(dir) <= call.buflen /\ ~real.fits /\ at' = "done"
        \/ /\ dst' = dir \o real.name
           /\ src' = Mended(open, ps, ns, src[ns]) /\ s' = ns /\ at' = at
    BY DEF Pass
  <2> HIDE DEF tl, ps, ns, open, before, dir, real
  <2> QED BY <2>1, <2>2
<1>2. call \in Calls
  BY DEF WholeInv
<1>3. ASSUME RoomFor(call)
      PROVE  /\ at' = "loop" /\ src' = Cut(Whole(call.path), call)
             /\ Reached(Wanted(call), src', s', dst')
  <2> DEFINE q == Wanted(call)
             w == Cut(Whole(call.path), call)
             room == call.buflen
  <2>1. src = w /\ Reached(q, src, s, dst)
    BY <1>1, <1>3 DEF WholeInv
  <2>2. InMemory(q, w) /\ RoomEnough(q, room) /\ room \in Nat
    BY <1>2, <1>3, WantedInMemory, CallIs DEF RoomFor
  <2> HIDE DEF q, w, room
  <2>3. q \in PathsOf /\ Len(q) \in Nat /\ InMemory(q, src)
    BY <2>1, <2>2 DEF InMemory, PathsOf
  <2>4. PICK k \in 0 .. Len(q) : s = Pos(q, k) /\ dst = Hosts(q)[k]
    BY <2>1 DEF Reached
  <2>5. /\ tl \in Nat
        /\ \E j \in k .. Len(q) - 1 :
             /\ Plain(q, k, j) /\ Contains(q[j + 1], TILDE)
             /\ Pos(q, j) < tl /\ tl < Pos(q, j + 1)
    <3> HIDE DEF ps, ns, open, before, dir, real
    <3>1. tl = First(src, Pos(q, k), TILDE)
      BY <2>4
    <3> HIDE DEF tl
    <3>2. src[tl] = TILDE /\ TILDE # NUL
      BY <1>1, TextsAre
    <3> QED BY <2>3, <3>1, <3>2, Scan
  <2> HIDE DEF tl
  <2>6. PICK j \in k .. Len(q) - 1 :
             /\ Plain(q, k, j) /\ Contains(q[j + 1], TILDE)
             /\ Pos(q, j) < tl /\ tl < Pos(q, j + 1)
    BY <2>5
  <2>7. j \in 0 .. Len(q) - 1 /\ j \in 0 .. Len(q) /\ j + 1 \in 0 .. Len(q)
        /\ j + 1 \in 1 .. Len(q)
    BY <2>3
  <2>8. ps = Pos(q, j)
    BY <2>3, <2>4, <2>5, <2>6, LatestPlaced
  <2>9. ns = Pos(q, j + 1)
    BY <2>3, <2>5, <2>6, <2>7, NextPlaced
  <2> HIDE DEF ps, ns
  <2>10. /\ \E m : Between(q, src, k, j, m) /\ String(open, s) = m
         /\ String(open, ps + 1) = q[j + 1]
         /\ Mended(open, ps, ns, src[ns]) = src
    BY <2>3, <2>4, <2>6, <2>8, <2>9, PassReads
  <2> HIDE DEF open
  <2> DEFINE m == String(open, s)
             c == q[j + 1]
             g == Hosts(q)[j]
             d == Append(g, SEP)
             u == Utf8(m)
  <2>11. m \in Seq(Text) /\ g = dst \o Utf8(m)
    BY <2>4, <2>10 DEF Between
  <2>12. HasRoom(q, room, j, d)
    BY <2>2, <2>3, <2>7, RoomFits
  <2>13. g \in Seq(Text) /\ dst \in Seq(Text)
    BY <2>3, <2>4, <2>7, HostsType
  <2>14. u \in Seq(Text)
    BY <2>11, Utf8Is, TextsAre
  <2>15. c \in Seq(Text) /\ Contains(c, TILDE)
    <3>1. c \in Seq(Chars \cup {TILDE})
      BY <2>3, <2>7 DEF PathsOf
    <3> QED BY <2>6, <3>1, ComponentIs
  <2>16. Len(g) <= room /\ Len(d) <= room
    BY <2>12 DEF HasRoom
  <2>17. before = [text |-> u, written |-> Len(u) + 1]
    <3> DEFINE a == Len(dst)
               b == Len(u)
    <3>1. a \in Nat /\ b \in Nat
      <4> HIDE DEF u
      <4> QED BY <2>13, <2>14
    <3>2. Len(g) = a + b
      <4>1. g = dst \o u
        BY <2>11
      <4> HIDE DEF u, g
      <4> QED BY <2>13, <2>14, <4>1, ConcatIs
    <3> HIDE DEF a, b
    <3>3. b <= room - a
      BY <2>2, <2>16, <3>1, <3>2
    <3>4. Len(u) <= room - Len(dst)
      BY <3>3 DEF a, b
    <3>5. room - Len(dst) \in Int /\ m \in Seq(Text)
      BY <2>2, <2>11, <3>1 DEF a
    <3> HIDE DEF m
    <3>6. Converted(m, room - Len(dst)) = [text |-> u, written |-> Len(u) + 1]
      BY <3>4, <3>5, ConvertedFits
    <3> QED BY <3>6 DEF room, m
  <2>18. before.text = u
    <3> HIDE DEF before, u
    <3> QED BY <2>17
  <2> HIDE DEF before
  <2>19. dir = d
    BY <2>11, <2>18
  <2> HIDE DEF dir, m, u
  <2>20. real.fits /\ real.name = HostName(d, c)
    <3> DEFINE n == room - Len(d)
    <3>1. real = Real(d, c, n)
      BY <2>10, <2>19 DEF room
    <3>2. /\ \A i \in DOMAIN Lists(d) : Len(Lists(d)[i].host) <= n
          /\ Len(c) + 2 <= n
      BY <2>12 DEF HasRoom
    <3>3. n \in Int
      <4>1. d \in Seq(Text)
        <5> HIDE DEF g
        <5> QED BY <2>13, TextsAre, AppendedIs
      <4>2. Len(d) \in Nat
        <5> HIDE DEF d
        <5> QED BY <4>1
      <4> QED BY <2>2, <4>2
    <3> HIDE DEF n, real, c, d, g
    <3>4. Real(d, c, n).fits /\ Real(d, c, n).name = HostName(d, c)
      BY <2>15, <3>2, <3>3, RealFinds
    <3> QED BY <3>1, <3>4
  <2> HIDE DEF real
  <2>21. ~ (Len(dir) > call.buflen)
    <3>1. Len(dir) \in Nat
      <4>1. d \in Seq(Text)
        <5> HIDE DEF g
        <5> QED BY <2>13, TextsAre, AppendedIs
      <4> HIDE DEF d
      <4> QED BY <2>19, <4>1
    <3>2. Len(dir) <= call.buflen
      BY <2>16, <2>19 DEF room
    <3> QED BY <2>2, <3>1, <3>2 DEF room
  <2>22. /\ dst' = d \o HostName(d, c) /\ src' = src /\ s' = ns /\ at' = at
    BY <1>1, <2>10, <2>19, <2>20, <2>21
  <2>23. dst' = Hosts(q)[j + 1]
    BY <2>3, <2>7, <2>22, HostStep
  <2>24. Reached(q, src', s', dst')
    BY <2>7, <2>9, <2>22, <2>23 DEF Reached
  <2> QED BY <1>1, <2>1, <2>22, <2>24 DEF q, w
<1>4. /\ at' = "loop" \/ ~RoomFor(call)
      /\ RoomFor(call') => /\ at' = "loop" /\ src' = Cut(Whole(call'.path), call')
                           /\ Reached(Wanted(call'), src', s', dst')
  <2> HIDE DEF tl, ps, ns, open, before, dir, real
  <2> QED BY <1>1, <1>3
<1>5. call' \in Calls /\ at' \in {"loop", "done"}
  BY <1>1, <1>2
<1> HIDE DEF tl, ps, ns, open, before, dir, real
<1> QED BY <1>4, <1>5 DEF WholeInv

\* A path for which there is room is translated as a whole, and DOS has its
\* path back, for any characters, bytes, calls and lists of names (lfn.h:349-434).
THEOREM WholePaths ==
  ASSUME ListsAreTexts PROVE Translation => []PathsAreWhole
<1>1. Called => WholeInv
  BY CalledWhole
<1>2. WholeInv /\ [Translate]_pathvars => WholeInv'
  <2>1. CASE UNCHANGED pathvars
    BY <2>1 DEF pathvars, WholeInv
  <2>2. CASE Translate
    BY <2>2, RestWhole, PassWhole DEF Translate
  <2> QED BY <2>1, <2>2
<1>3. WholeInv => PathsAreWhole
  BY DEF WholeInv, PathsAreWhole, RoomFor, Whole
<1> QED BY <1>1, <1>2, <1>3, PTL DEF Translation

=============================================================================
