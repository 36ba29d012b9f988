------------------------------ MODULE DosFile ------------------------------
(***************************************************************************)
(* What DOS promises a program about the files it has open: where the next *)
(* read or write goes, where the end of the file is when the program seeks *)
(* from it, and which date the file has in the end.  The redirector keeps  *)
(* copies of the size and date in each SFT; this module has none, a file   *)
(* has one size and one date.                                              *)
(***************************************************************************)
EXTENDS Integers

CONSTANTS
  Files, Sfts,
  NIL,        \* no file
  Times,      \* dates that programs set
  Now,        \* the date of a file that was just written
  MaxBytes,   \* most bytes in one call
  Positions,  \* positions that programs seek to
  Offsets,    \* distances from the end that programs seek to
  HostFaults  \* calls that the host may refuse

VARIABLES
  size, time,  \* of each file
  open,        \* open[s]: the file of s, or NIL
  alone,       \* alone[s]: s denies others to write
  pos,         \* pos[s]: the position of s
  pending      \* pending[s]: a date set and not yet stored, or NIL

vars == <<size, time, open, alone, pos, pending>>

Size(s) == size[open[s]]
IsOpen(s) == open[s] # NIL

Init ==
  /\ size \in [Files -> Nat]
  /\ time = [f \in Files |-> Now]
  /\ open = [s \in Sfts |-> NIL]
  /\ alone = [s \in Sfts |-> FALSE]
  /\ pos = [s \in Sfts |-> 0]
  /\ pending = [s \in Sfts |-> NIL]

\* Opening a file starts at its beginning, and may empty it.
Open(s) ==
  /\ ~IsOpen(s)
  /\ \E f \in Files, a \in BOOLEAN :
       /\ open' = [open EXCEPT ![s] = f]
       /\ alone' = [alone EXCEPT ![s] = a]
       /\ \/ UNCHANGED <<size, time>>
          \/ /\ size' = [size EXCEPT ![f] = 0]
             /\ time' = [time EXCEPT ![f] = Now]
  /\ UNCHANGED <<pos, pending>>

\* A read stops at the end of the file.
Read(s) ==
  /\ IsOpen(s) /\ pos[s] <= Size(s)
  /\ \E n \in 1 .. MaxBytes :
       pos' = [pos EXCEPT ![s] = IF @ + n <= Size(s) THEN @ + n ELSE Size(s)]
  /\ UNCHANGED <<size, time, open, alone, pending>>

\* A write starts at the position, lengthens the file if need be, and makes a
\* date that was set before it void.
Write(s) ==
  /\ IsOpen(s)
  /\ \E n \in 1 .. MaxBytes :
       /\ pos' = [pos EXCEPT ![s] = @ + n]
       /\ size' = [size EXCEPT ![open[s]] = IF @ < pos[s] + n THEN pos[s] + n
                                                              ELSE @]
  /\ time' = [time EXCEPT ![open[s]] = Now]
  /\ pending' = [pending EXCEPT ![s] = NIL]
  /\ UNCHANGED <<open, alone>>

\* A write of no bytes cuts or extends the file to the position.
Truncate(s) ==
  /\ IsOpen(s)
  /\ size' = [size EXCEPT ![open[s]] = pos[s]]
  /\ time' = [time EXCEPT ![open[s]] = Now]
  /\ pending' = [pending EXCEPT ![s] = NIL]
  /\ UNCHANGED <<open, alone, pos>>

WriteRefused(s) ==
  /\ IsOpen(s) /\ "write" \in HostFaults
  /\ pending' = [pending EXCEPT ![s] = NIL]
  /\ UNCHANGED <<size, time, open, alone, pos>>

Seek(s) ==
  /\ IsOpen(s)
  /\ \E p \in Positions : pos' = [pos EXCEPT ![s] = p]
  /\ UNCHANGED <<size, time, open, alone, pending>>

\* Seeking from the end goes by the true size; past the end it may lengthen
\* the file, and never shortens it.
SeekEnd(s) ==
  /\ IsOpen(s)
  /\ \E k \in Offsets :
       /\ Size(s) + k >= 0
       /\ pos' = [pos EXCEPT ![s] = Size(s) + k]
       /\ \/ UNCHANGED <<size, time>>
          \/ /\ k > 0
             /\ size' = [size EXCEPT ![open[s]] = @ + k]
             /\ time' = [time EXCEPT ![open[s]] = Now]
  /\ UNCHANGED <<open, alone, pending>>

SetTime(s) ==
  /\ IsOpen(s)
  /\ \E t \in Times : pending' = [pending EXCEPT ![s] = t]
  /\ UNCHANGED <<size, time, open, alone, pos>>

\* A date that was set is stored.
Flush(s) ==
  /\ IsOpen(s) /\ pending[s] # NIL
  /\ time' = [time EXCEPT ![open[s]] = pending[s]]
  /\ pending' = [pending EXCEPT ![s] = NIL]
  /\ UNCHANGED <<size, open, alone, pos>>

\* Closing stores a date that was set, unless the host refuses it.
Close(s) ==
  /\ IsOpen(s)
  /\ \/ pending[s] = NIL /\ UNCHANGED time
     \/ pending[s] # NIL /\ time' = [time EXCEPT ![open[s]] = pending[s]]
     \/ "info" \in HostFaults /\ UNCHANGED time
  /\ open' = [open EXCEPT ![s] = NIL]
  /\ alone' = [alone EXCEPT ![s] = FALSE]
  /\ pos' = [pos EXCEPT ![s] = 0]
  /\ pending' = [pending EXCEPT ![s] = NIL]
  /\ UNCHANGED size

\* A file that nobody has denied to others is changed elsewhere.
Elsewhere(f) ==
  /\ \A s \in Sfts : open[s] = f => ~alone[s]
  /\ size'[f] \in Nat
  /\ size' = [size EXCEPT ![f] = size'[f]]
  /\ time' = [time EXCEPT ![f] = Now]
  /\ UNCHANGED <<open, alone, pos, pending>>

Next ==
  \/ \E f \in Files : Elsewhere(f)
  \/ \E s \in Sfts : \/ Open(s) \/ Read(s) \/ Write(s) \/ Truncate(s)
                     \/ WriteRefused(s) \/ Seek(s) \/ SeekEnd(s)
                     \/ SetTime(s) \/ Flush(s) \/ Close(s)

Spec == Init /\ [][Next]_vars
=============================================================================
