----------------------------- MODULE VbsfMounts -----------------------------
(***************************************************************************)
(* VBSF.EXE, the program that installs the redirector and mounts folders   *)
(* (sfmain.c).  It works on three tables that must agree: the drives of    *)
(* DOS (the flags of each CDS), the drives of the resident data, and the   *)
(* folders the host has mapped for this client.                            *)
(*                                                                         *)
(* A command is a sequence of steps, one per drive or folder it handles;   *)
(* within a step DOS and the user get no turn.  The host may refuse any    *)
(* call of HostFaults; the program goes on after most of them.  Open files *)
(* are in Redirector.                                                      *)
(***************************************************************************)
EXTENDS Naturals, FiniteSets

CONSTANTS
  NumDrives,   \* NUM_DRIVES; drive 0 is A:
  LastDrive,   \* lol->last_drive, the number of drives that DOS has
  OtherDrives, \* drives that exist when VBSF is started
  Roots,       \* the shared folders of the host
  Automounts,  \* those the host marks for automounting
  Points,      \* Points[r]: the mount point of r as a drive, or NIL
  NIL,         \* SHFL_ROOT_NIL, no client, no drive
  HostFaults,  \* calls the host or the VDS may refuse, see AllFaults
  Commands     \* commands the user gives besides "install"

ConfigureFaults == {"buffer", "hello", "connect", "utf8"}
ReleaseFaults == {"disconnect", "unlock"}
AllFaults ==
  ConfigureFaults \cup {"query", "info", "map", "unmap"} \cup ReleaseFaults
AllCommands == {"mount", "unmount", "rescan", "uninstall"}

AllDrives == 0 .. NumDrives - 1

ASSUME VbsfMountsAssumption ==
  /\ NumDrives \in Nat /\ LastDrive \in 0 .. NumDrives
  /\ OtherDrives \subseteq 0 .. LastDrive - 1
  /\ Automounts \subseteq Roots /\ IsFiniteSet(Roots)
  /\ NIL \notin Roots \cup AllDrives
  /\ Points \in [Roots -> AllDrives \cup {NIL}]
  /\ HostFaults \subseteq AllFaults
  /\ Commands \subseteq AllCommands

VARIABLES
  cds,     \* lol->cds[d].flags: "none", "other" or "net" (set by mount)
  roots,   \* data->drives[d].root
  state,   \* where the data is: "absent", "loading" or "resident"
  int2f,   \* whose handler DOS calls: "prev", "ours", "hooked" (not ours first)
  mapped,  \* mapped[r]: how often the host has r mapped for the client
  client,  \* the host has the client of this driver connected
  locked,  \* the VirtualBox buffer of this driver is locked for DMA
  refused, \* what the last command was refused of ending or setting up
  cmd      \* the command at work: what it does, to what, and its error

vars == <<cds, roots, state, int2f, mapped, client, locked, refused, cmd>>

Steps == {"idle", "configure", "unmounting", "query", "automounting", "keep"}
Idle == [for |-> "none", step |-> "idle", todo |-> {}, err |-> FALSE]

TypeOK ==
  /\ cds \in [AllDrives -> {"none", "other", "net"}]
  /\ roots \in [AllDrives -> Roots \cup {NIL}]
  /\ state \in {"absent", "loading", "resident"}
  /\ int2f \in {"prev", "ours", "hooked"}
  /\ mapped \in [Roots -> Nat]
  /\ client \in BOOLEAN /\ locked \in BOOLEAN /\ refused \subseteq AllFaults
  /\ cmd \in [for : {"none", "install", "rescan", "uninstall"}, step : Steps,
              todo : SUBSET (AllDrives \cup Roots), err : BOOLEAN]

-----------------------------------------------------------------------------
IsIdle == cmd.step = "idle"
May(c) == IsIdle /\ state = "resident" /\ c \in Commands
Refuses(call) == call \in HostFaults
GoTo(step, todo) == cmd' = [cmd EXCEPT !.step = step, !.todo = todo]
Mounted(d) == roots[d] # NIL

\* The checks of mount: DOS has the letter, and nobody uses it.
Mountable(d) == d < LastDrive /\ ~Mounted(d) /\ cds[d] = "none"

\* mount and mount_shfl, when the host maps the folder.
MountOn(d, r) ==
  /\ mapped' = [mapped EXCEPT ![r] = @ + 1]
  /\ roots' = [roots EXCEPT ![d] = r]
  /\ cds' = [cds EXCEPT ![d] = "net"]

\* unmount and unmount_shfl, when the host unmaps the folder.
UnmountOn(d) ==
  /\ mapped' = [mapped EXCEPT ![roots[d]] = @ - 1]
  /\ roots' = [roots EXCEPT ![d] = NIL]
  /\ cds' = [cds EXCEPT ![d] = "none"]

-----------------------------------------------------------------------------
(* The commands that are one step *)

Mount(d, r) ==
  /\ May("mount") /\ Mountable(d)
  /\ MountOn(d, r)
  /\ UNCHANGED <<state, int2f, client, locked, refused, cmd>>

Unmount(d) ==
  /\ May("unmount") /\ d < LastDrive /\ Mounted(d)
  /\ UnmountOn(d)
  /\ UNCHANGED <<state, int2f, client, locked, refused, cmd>>

-----------------------------------------------------------------------------
(* install: configure_driver, automount, install_driver *)

\* A new program with a buffer and a client of its own: what an earlier one
\* left on the host stays there, and nobody knows of it any more.
Install ==
  /\ IsIdle /\ state = "absent"
  /\ state' = "loading"
  /\ cmd' = [Idle EXCEPT !.for = "install", !.step = "configure"]
  /\ locked' = FALSE /\ client' = FALSE /\ mapped' = [r \in Roots |-> 0]
  /\ refused' = {}
  /\ UNCHANGED <<cds, roots, int2f>>

\* configure_driver: the buffer is locked, the client connected.
Configure ==
  /\ cmd.step = "configure"
  /\ locked' = TRUE /\ client' = TRUE
  /\ GoTo("query", {})
  /\ UNCHANGED <<cds, roots, state, int2f, mapped, refused>>

\* configure_driver fails at a call; what it did before stays as it is, and the
\* program ends without a driver.
ConfigureFails(call) ==
  /\ cmd.step = "configure" /\ Refuses(call) /\ call \in ConfigureFaults
  /\ locked' = (locked \/ call # "buffer")
  /\ client' = (client \/ call = "utf8")
  /\ refused' = refused \cup {call}
  /\ state' = "absent" /\ cmd' = Idle
  /\ UNCHANGED <<cds, roots, int2f, mapped>>

\* Mutant: automounting is tried again until something is mounted.
KeepMutant ==
  /\ cmd.step = "keep"
  /\ IF \E d \in AllDrives : Mounted(d)
       THEN state' = "resident" /\ int2f' = "ours" /\ cmd' = Idle
       ELSE GoTo("query", {}) /\ UNCHANGED <<state, int2f>>
  /\ UNCHANGED <<cds, roots, mapped, client, locked, refused>>

\* install_driver.  Errors of automount are not fatal.
Keep ==
  /\ cmd.step = "keep"
  /\ state' = "resident" /\ int2f' = "ours" /\ cmd' = Idle
  /\ UNCHANGED <<cds, roots, mapped, client, locked, refused>>

-----------------------------------------------------------------------------
(* automount, for install and rescan *)

\* When the last folder is handled.
AfterAutomount == IF cmd.for = "install" THEN GoTo("keep", {}) ELSE cmd' = Idle

\* The host lists the folders to mount, which its user may add and remove, or
\* automount fails.
QueryMappings ==
  /\ cmd.step = "query"
  /\ \/ \E list \in SUBSET Automounts : GoTo("automounting", list)
     \/ Refuses("query") /\ AfterAutomount
  /\ UNCHANGED <<cds, roots, state, int2f, mapped, client, locked, refused>>

\* find_free_drive_letter: the first without flags.  What it reads past the
\* end of the table is for no drive that mount accepts.
IsFreeLetter(d) ==
  d < LastDrive /\ cds[d] = "none" /\ \A e \in 0 .. d - 1 : cds[e] # "none"

\* The drive that automount chooses for r.
Letter(r, d) == IF Points[r] = NIL THEN IsFreeLetter(d) ELSE d = Points[r]

\* One folder of the list: mounted, or passed over when the drive is taken,
\* there is none, or the host refuses.
Automount(r) ==
  /\ cmd.step = "automounting" /\ r \in cmd.todo
  /\ GoTo("automounting", cmd.todo \ {r})
  /\ \/ \E d \in AllDrives : Letter(r, d) /\ Mountable(d) /\ MountOn(d, r)
     \/ /\ \/ ~\E d \in AllDrives : Letter(r, d) /\ Mountable(d)
           \/ Refuses("info") \/ Refuses("map")
        /\ UNCHANGED <<cds, roots, mapped>>
  /\ UNCHANGED <<state, int2f, client, locked, refused>>

AutomountEnd ==
  /\ cmd.step = "automounting" /\ cmd.todo = {}
  /\ AfterAutomount
  /\ UNCHANGED <<cds, roots, state, int2f, mapped, client, locked, refused>>

-----------------------------------------------------------------------------
(* rescan and uninstall: unmount_all, then the rest *)

Rescan ==
  /\ May("rescan")
  /\ cmd' = [for |-> "rescan", step |-> "unmounting", todo |-> AllDrives,
             err |-> FALSE]
  /\ refused' = {}
  /\ UNCHANGED <<cds, roots, state, int2f, mapped, client, locked>>

\* check_if_driver_uninstallable comes first: nothing is unmounted when
\* somebody has hooked int 2Fh after us.
Uninstall ==
  /\ May("uninstall") /\ int2f = "ours"
  /\ cmd' = [for |-> "uninstall", step |-> "unmounting", todo |-> AllDrives,
             err |-> FALSE]
  /\ refused' = {}
  /\ UNCHANGED <<cds, roots, state, int2f, mapped, client, locked>>

\* unmount_all comes to drive d.
IsNext(d) ==
  cmd.step = "unmounting" /\ d \in cmd.todo /\ \A e \in cmd.todo : d <= e

UnmountNext(d) ==
  /\ IsNext(d) /\ Mounted(d)
  /\ UnmountOn(d)
  /\ GoTo("unmounting", cmd.todo \ {d})
  /\ UNCHANGED <<state, int2f, client, locked, refused>>

\* Mutant: the drive is free although the host has its folder still mapped.
PassOverMutant(d) ==
  /\ IsNext(d) /\ (Mounted(d) => Refuses("unmap"))
  /\ cmd' = [cmd EXCEPT !.todo = @ \ {d}, !.err = @ \/ Mounted(d)]
  /\ refused' = IF Mounted(d) THEN refused \cup {"unmap"} ELSE refused
  /\ roots' = [roots EXCEPT ![d] = NIL]
  /\ UNCHANGED <<cds, mapped, state, int2f, client, locked>>

\* Nothing to unmount, or the host refuses; the loop goes on either way.
PassOver(d) ==
  /\ IsNext(d) /\ (Mounted(d) => Refuses("unmap"))
  /\ cmd' = [cmd EXCEPT !.todo = @ \ {d}, !.err = @ \/ Mounted(d)]
  /\ refused' = IF Mounted(d) THEN refused \cup {"unmap"} ELSE refused
  /\ UNCHANGED <<cds, roots, mapped, state, int2f, client, locked>>

\* rescan gives up when a drive is still mounted.
RescanGoesOn ==
  /\ cmd.step = "unmounting" /\ cmd.todo = {} /\ cmd.for = "rescan"
  /\ IF cmd.err THEN cmd' = Idle ELSE GoTo("query", {})
  /\ UNCHANGED <<cds, roots, state, int2f, mapped, client, locked, refused>>

\* Mutant: unconfigure_driver gives up after an error of unmount_all, and the
\* driver is removed all the same.
RemoveDriverMutant ==
  /\ cmd.step = "unmounting" /\ cmd.todo = {} /\ cmd.for = "uninstall"
  /\ state' = "absent" /\ int2f' = "prev" /\ cmd' = Idle
  /\ roots' = [d \in AllDrives |-> NIL]
  /\ locked' = cmd.err /\ client' = cmd.err
  /\ mapped' = [r \in Roots |-> IF cmd.err THEN mapped[r] ELSE 0]
  /\ UNCHANGED <<cds, refused>>

\* unconfigure_driver, which ignores the errors of unmount_all, of the
\* disconnecting and of the VDS, and uninstall_driver.  The table of drives is
\* gone with the data, and the host forgets the folders of a client that is gone.
RemoveDriver ==
  /\ cmd.step = "unmounting" /\ cmd.todo = {} /\ cmd.for = "uninstall"
  /\ state' = "absent" /\ int2f' = "prev" /\ cmd' = Idle
  /\ roots' = [d \in AllDrives |-> NIL]
  /\ \E errors \in SUBSET (ReleaseFaults \cap HostFaults) :
       /\ client' = ("disconnect" \in errors)
       /\ mapped' = [r \in Roots |-> IF client' THEN mapped[r] ELSE 0]
       /\ locked' = ("unlock" \in errors)
       /\ refused' = refused \cup errors
  /\ UNCHANGED cds

-----------------------------------------------------------------------------
\* Another program takes int 2Fh over, or gives it back.
OtherHooks ==
  /\ IsIdle /\ int2f \in {"ours", "hooked"}
  /\ int2f' = IF int2f = "ours" THEN "hooked" ELSE "ours"
  /\ UNCHANGED <<cds, roots, state, mapped, client, locked, refused, cmd>>

Init ==
  /\ cds = [d \in AllDrives |-> IF d \in OtherDrives THEN "other" ELSE "none"]
  /\ roots = [d \in AllDrives |-> NIL]
  /\ state = "absent" /\ int2f = "prev"
  /\ mapped = [r \in Roots |-> 0]
  /\ client = FALSE /\ locked = FALSE /\ refused = {}
  /\ cmd = Idle

\* What goes on by itself once a command was given.
Continue ==
  \/ Configure \/ (\E call \in AllFaults : ConfigureFails(call)) \/ Keep
  \/ QueryMappings \/ AutomountEnd
  \/ RescanGoesOn \/ RemoveDriver
  \/ \E r \in Roots : Automount(r)
  \/ \E d \in AllDrives : UnmountNext(d) \/ PassOver(d)

Next ==
  \/ Continue
  \/ Install \/ Rescan \/ Uninstall \/ OtherHooks
  \/ \E d \in AllDrives : Unmount(d) \/ \E r \in Roots : Mount(d, r)

\* A program that is running goes on: DOS runs nothing else, and the host
\* answers every call.
Spec == Init /\ [][Next]_vars /\ WF_vars(Continue)

-----------------------------------------------------------------------------
\* At every step, also between two drives of one command, each drive of the
\* driver is one that DOS sends to it, and the host has each folder mapped once
\* for every drive it is mounted on.
TablesAgree ==
  /\ \A d \in AllDrives : Mounted(d) => cds[d] = "net"
  /\ state # "absent" =>
       \A r \in Roots : mapped[r] = Cardinality({d \in AllDrives : roots[d] = r})

\* A drive that DOS shows but nobody serves.
Orphan(d) == cds[d] = "net" /\ ~Mounted(d)

\* DOS is left with a drive that nobody serves in one case only: an uninstall
\* during which the host refused to unmap it.
OrphansComeFromErrors ==
  [][\A d \in AllDrives : ~Orphan(d) /\ Orphan(d)'
       => cmd.for = "uninstall" /\ cmd.err]_vars

\* The program takes no drive that another one made, not with any order of the
\* folders and any choice of mount points, and gives none back.
OtherDrivesAreSafe == [][\A d \in AllDrives : cds[d] = "other" <=>
                           cds'[d] = "other"]_vars

\* When the driver is gone, DOS has no handler of it, and what it leaves behind
\* has its cause in the command that ended it: a locked buffer, an installation
\* that failed later or an unlock that was refused; a client, an installation
\* that failed at its last call or a disconnect that was refused; a folder, a
\* host that refused to unmap it and to let the client go.
NothingStays ==
  state = "absent" =>
    /\ int2f = "prev"
    /\ locked => refused \cap {"hello", "connect", "utf8", "unlock"} # {}
    /\ client => refused \cap {"utf8", "disconnect"} # {}
    /\ \A r \in Roots : mapped[r] > 0 => {"unmap", "disconnect"} \subseteq refused

\* Every command ends, whatever the host refuses.
CommandsEnd == []<>IsIdle
=============================================================================
