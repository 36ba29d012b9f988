---------------------------- MODULE VmwareMouse ----------------------------
(***************************************************************************)
(* How VBMOUSE takes the mouse from VMware or qemu (vmware.h,              *)
(* handle_ps2_packet and set_absolute in mousetsr.c,                       *)
(* set_vmware_integration in mousmain.c).  The host puts four words for    *)
(* each movement into a queue behind the backdoor port and sends a PS/2    *)
(* packet, which means nothing itself, to wake the driver.                 *)
(*                                                                         *)
(* As in VbComm, the mouse interrupt and int 33h are one step each, and    *)
(* VBMOUSE.EXE, which works on the same queue, takes one step for each     *)
(* call of the backdoor and each change of the flag.                       *)
(***************************************************************************)
EXTENDS Naturals, SequencesExt

CONSTANTS
  Woken,     \* int 33h is also called while VBMOUSE.EXE runs, by a program
             \* that some interrupt wakes
  Room,      \* words that the queue of the host has room for
  MaxSignals \* bound: packets under way

ASSUME VmwareMouseAssumption ==
  Woken \in BOOLEAN /\ Room \in Nat /\ MaxSignals \in Nat

VARIABLES
  vmwavail,  \* the flag that tells the resident part to use the backdoor
  backdoor,  \* the host: on, and its queue of words
  signals,   \* PS/2 packets under way
  step,      \* the step VBMOUSE.EXE is at, or "rest"
  found,     \* data_avail of vmware_abspointer_data_clear in VBMOUSE.EXE
  kept,      \* vmwavail in a state that a program has saved, if it has
  behind,    \* history: what has left movements in the queue without a packet
  restored,  \* history: a saved state was loaded since the last reset
  spoilt     \* history: a read that asked for too much, or got a mixture

vmvars == <<vmwavail, backdoor, signals, step, found, kept,
            behind, restored, spoilt>>

Movement == <<1, 2, 3, 4>>  \* status, x, y and z
VERSION == 0                \* what the host answers when it is enabled
SIZE == 4                   \* VMWARE_ABSPOINTER_DATA_PACKET_SIZE

VmTypeOK ==
  /\ vmwavail \in BOOLEAN
  /\ backdoor \in [on : BOOLEAN, queue : Seq(0 .. 4)]
  /\ signals \in 0 .. MaxSignals
  /\ step \in {"rest", "enable", "look", "drop", "grant", "forgo"}
  /\ found \in Nat
  /\ kept \subseteq BOOLEAN
  /\ behind \subseteq {"lost", "off", "enabling"}
  /\ restored \in BOOLEAN
  /\ spoilt \in BOOLEAN

\* After install: configure_driver has switched the backdoor on, if it is there.
Installed ==
  /\ vmwavail \in BOOLEAN
  /\ backdoor = [on |-> vmwavail, queue |-> <<>>]
  /\ signals = 0 /\ step = "rest" /\ found = 0 /\ kept = {}
  /\ behind = {} /\ restored = FALSE /\ spoilt = FALSE

-----------------------------------------------------------------------------
(* The host *)

\* The mouse is moved: the packet may be merged with one that is under way.
HostMoves ==
  /\ \/ signals < MaxSignals /\ signals' = signals + 1 /\ UNCHANGED behind
     \/ backdoor.on /\ behind' = behind \cup {"lost"} /\ UNCHANGED signals
  /\ IF backdoor.on
       THEN /\ Len(backdoor.queue) + SIZE <= Room
            /\ backdoor' = [backdoor EXCEPT !.queue = @ \o Movement]
       ELSE UNCHANGED backdoor
  /\ UNCHANGED <<vmwavail, step, found, kept, restored, spoilt>>

\* A packet is lost, or dropped by the driver because its bytes came late.
LosePacket ==
  /\ signals > 0 /\ signals' = signals - 1
  /\ behind' = IF backdoor.queue = <<>> THEN behind ELSE behind \cup {"lost"}
  /\ UNCHANGED <<vmwavail, backdoor, step, found, kept, restored, spoilt>>

\* The queue when the host is switched off: it may forget what is in it.
Kept == {backdoor.queue, <<>>}

\* vmware_abspointer_status, as far as the amount of data goes
Available == IF backdoor.on THEN Len(backdoor.queue) ELSE 0

\* vmware_abspointer_data: "qemu disconnects us if we read more than we can"
Rest(n) == SubSeq(backdoor.queue, n + 1, Len(backdoor.queue))

-----------------------------------------------------------------------------
(* The resident part *)

\* Mutant: a packet is left in the queue.
EnoughMutant == Available > SIZE

Enough == Available >= SIZE

\* handle_ps2_packet, with the backdoor: a packet without data is garbage.
Packet ==
  /\ signals > 0 /\ signals' = signals - 1
  /\ vmwavail
  /\ IF Enough
       THEN /\ backdoor' = [backdoor EXCEPT !.queue = Rest(SIZE)]
            /\ spoilt' = (spoilt \/ ~IsPrefix(Movement, backdoor.queue))
       ELSE UNCHANGED <<backdoor, spoilt>>
  /\ UNCHANGED <<vmwavail, step, found, kept, behind, restored>>

\* handle_ps2_packet, without it: the packet is taken for a movement.
PlainMotion ==
  /\ signals > 0 /\ signals' = signals - 1
  /\ ~vmwavail
  /\ behind' = IF backdoor.queue = <<>> THEN behind
               ELSE behind \cup {IF step = "rest" THEN "off" ELSE "enabling"}
  /\ UNCHANGED <<vmwavail, backdoor, step, found, kept, restored, spoilt>>

Calls == step = "rest" \/ Woken

\* reset_mouse_hardware with set_absolute(true): the mouse is reset, which
\* switches the backdoor off; then it is enabled again and its queue cleared.
ResetHardware ==
  /\ Calls
  /\ signals' = 0
  /\ \E queue \in Kept :
       backdoor' = [on |-> vmwavail, queue |-> IF vmwavail THEN <<>> ELSE queue]
  /\ behind' = IF vmwavail THEN {} ELSE behind
  /\ restored' = FALSE
  /\ UNCHANGED <<vmwavail, step, found, kept, spoilt>>

\* INT33_SAVE_MOUSE_STATUS
SaveStatus ==
  /\ Calls
  /\ kept' = {vmwavail}
  /\ UNCHANGED <<vmwavail, backdoor, signals, step, found, behind, restored, spoilt>>

\* INT33_LOAD_MOUSE_STATUS, whatever has become of the host
LoadStatus ==
  /\ Calls
  /\ vmwavail' \in kept
  /\ restored' = TRUE
  /\ UNCHANGED <<backdoor, signals, step, found, kept, behind, spoilt>>

-----------------------------------------------------------------------------
(* VBMOUSE.EXE: set_vmware_integration *)

\* From one step to the next, with the rest of the host and the driver as it is
Proceeds(from, to) ==
  /\ step = from /\ step' = to
  /\ UNCHANGED <<signals, kept, restored>>

\* integ on, with VirtualBox not there
IntegOn ==
  /\ Proceeds("rest", "enable")
  /\ vmwavail' = FALSE
  /\ UNCHANGED <<backdoor, found, behind, spoilt>>

\* vmware_get_version and VMWARE_ABSPOINTER_CMD_ENABLE
EnableBackdoor ==
  /\ Proceeds("enable", "look")
  /\ backdoor' = [on |-> TRUE, queue |-> Append(backdoor.queue, VERSION)]
  /\ UNCHANGED <<vmwavail, found, behind, spoilt>>

\* There is no VMware, or its status is an error.
EnableRefused ==
  /\ Proceeds("enable", "rest")
  /\ \E queue \in Kept : backdoor' = [on |-> FALSE, queue |-> queue]
  /\ UNCHANGED <<vmwavail, found, behind, spoilt>>

\* vmware_abspointer_data_clear: the amount, until it is 0
Look ==
  /\ Proceeds("look", IF Available = 0 THEN "grant" ELSE "drop")
  /\ found' = Available
  /\ behind' = IF Available = 0 THEN {} ELSE behind
  /\ UNCHANGED <<vmwavail, backdoor, spoilt>>

\* Mutant: a whole packet is read, whatever there is.
DropMutant ==
  /\ Proceeds("drop", "look")
  /\ backdoor' = [backdoor EXCEPT !.queue = Rest(SIZE)]
  /\ spoilt' = (spoilt \/ SIZE > Available)
  /\ UNCHANGED <<vmwavail, found, behind>>

\* vmware_abspointer_data_clear: as much of it as a packet
Drop ==
  LET n == IF found < SIZE THEN found ELSE SIZE
  IN  /\ Proceeds("drop", "look")
      /\ backdoor' = [backdoor EXCEPT !.queue = Rest(n)]
      /\ spoilt' = (spoilt \/ n > Available)
      /\ UNCHANGED <<vmwavail, found, behind>>

Grant ==
  /\ Proceeds("grant", "rest")
  /\ vmwavail' = TRUE
  /\ UNCHANGED <<backdoor, found, behind, spoilt>>

\* integ off, uninstall: REQUEST_RELATIVE and DISABLE ...
IntegOff ==
  /\ vmwavail /\ Proceeds("rest", "forgo")
  /\ \E queue \in Kept : backdoor' = [on |-> FALSE, queue |-> queue]
  /\ UNCHANGED <<vmwavail, found, behind, spoilt>>

\* Mutant: the flag stays.
ForgoMutant ==
  /\ Proceeds("forgo", "rest")
  /\ UNCHANGED <<vmwavail, backdoor, found, behind, spoilt>>

\* ... and then the flag
Forgo ==
  /\ Proceeds("forgo", "rest")
  /\ vmwavail' = FALSE
  /\ UNCHANGED <<backdoor, found, behind, spoilt>>

Switches ==
  IntegOn \/ EnableBackdoor \/ EnableRefused \/ Look \/ Drop \/ Grant
  \/ IntegOff \/ Forgo

Works ==
  \/ HostMoves \/ LosePacket \/ Packet \/ PlainMotion
  \/ ResetHardware \/ SaveStatus \/ LoadStatus \/ Switches

Backdoor == Installed /\ [][Works]_vmvars

-----------------------------------------------------------------------------
(* Properties *)

\* The driver never asks for more words than there are, which would cut it off
\* (vmware.h:145-146), and what it takes for a movement is one: although
\* interrupt and program read the same queue, and enabling leaves a word in it.
MovementsAreWhole == ~Woken => ~spoilt

\* No movement stays in the queue when its packet was handled.  A packet that
\* was lost leaves one, and so does one that comes between the last look of
\* `integ on` and its end; the pointer then lags behind until the next reset.
PointerIsCurrent ==
  ~Woken /\ vmwavail /\ behind = {} =>
    Available <= SIZE * signals

\* While the driver takes movements from the queue only, the host is enabled, or
\* the mouse would stand still; but a saved state may bring the flag back after
\* `integ off`, until the next reset.
HostIsAwake ==
  ~Woken /\ step = "rest" /\ vmwavail /\ ~restored => backdoor.on

=============================================================================
