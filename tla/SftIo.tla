------------------------------- MODULE SftIo -------------------------------
(***************************************************************************)
(* Reading, writing and seeking through an SFT (sftsr.c).  The SFT caches  *)
(* the size and the date of its file; DOS itself reads and changes both,   *)
(* so they must agree with the host whenever DOS relies on them.           *)
(*                                                                         *)
(* DOS seeks from the end with the cached size, except on files opened in  *)
(* a sharing mode that lets others write, where it asks the redirector.    *)
(* An SFT is alone if it was opened in one of the other modes.             *)
(*                                                                         *)
(* Slots and handles are in Redirector; here an SFT names its file.  What  *)
(* the bytes are, attributes, and the "clean" flag, which the redirector   *)
(* only writes, are left out.                                              *)
(***************************************************************************)
EXTENDS Integers

CONSTANTS
  OffsetLimit,  \* 2^32: a size or position in an SFT has 32 bits
  Files, Sfts,
  NIL,          \* no file
  Times,        \* dates that programs set (function 5701h)
  Now,          \* the date the host gives to a file that was just written
  MaxBytes,     \* bound: most bytes in one call
  Positions,    \* positions that programs seek to
  Offsets,      \* distances from the end that programs seek to
  HostSizes,    \* sizes that files get outside of this machine
  HostFaults,   \* calls the host may refuse: "info", "write", "size"
  Habits        \* see AllHabits

(***************************************************************************)
(* What programs may do beyond the obvious:                                *)
(*  past_limit      write or seek past the largest 32-bit position         *)
(*  compat_sharing  open a file in a mode that neither denies others to    *)
(*                  write nor allows it, while it is open                  *)
(***************************************************************************)
AllHabits == {"past_limit", "compat_sharing"}

ASSUME SftIoAssumption ==
  /\ OffsetLimit \in Nat \ {0}
  /\ NIL \notin Files \cup Times \cup {Now}
  /\ MaxBytes \in Nat
  /\ Positions \subseteq 0 .. OffsetLimit - 1
  /\ Offsets \subseteq Int
  /\ HostSizes \subseteq Nat
  /\ HostFaults \subseteq {"info", "write", "size"}
  /\ Habits \subseteq AllHabits

VARIABLES
  host,  \* the files, as the host has them
  sft    \* the SFTs

vars == <<host, sft>>

TypeOK ==
  /\ host \in [Files -> [size : Nat, time : Times \cup {Now}]]
  /\ sft \in [Sfts -> [file : Files \cup {NIL}, alone : BOOLEAN,
                       f_size : 0 .. OffsetLimit - 1,
                       f_pos : 0 .. OffsetLimit - 1,
                       f_time : Times \cup {Now}, time_set : BOOLEAN]]

-----------------------------------------------------------------------------
IsOpen(s) == sft[s].file # NIL
HostSize(s) == host[sft[s].file].size

\* What is kept of a number in a 32-bit field.
Wrap(n) == n % OffsetLimit

\* Programs that respect the limit of a file size.
Within(n) == n < OffsetLimit \/ "past_limit" \in Habits

SetHost(f, n, t) == host' = [host EXCEPT ![f] = [size |-> n, time |-> t]]

-----------------------------------------------------------------------------
(* Opening *)

\* The host honours the sharing modes it is told; mode 0 tells it none.
MayShare(f, alone) ==
  \A t \in Sfts : sft[t].file = f =>
    (~alone /\ ~sft[t].alone) \/ "compat_sharing" \in Habits

\* handle_create_open_ex with a result that is not an error, the size and the
\* date from map_shfl_info_to_dossft.  A file that is replaced is emptied.
Open(s, f, alone, replace) ==
  /\ ~IsOpen(s) /\ MayShare(f, alone)
  /\ IF replace THEN SetHost(f, 0, Now) ELSE UNCHANGED host
  /\ sft' = [sft EXCEPT ![s] =
               [file |-> f, alone |-> alone, f_pos |-> 0, time_set |-> FALSE,
                f_size |-> Wrap(host'[f].size), f_time |-> host'[f].time]]

-----------------------------------------------------------------------------
(* Reading and writing *)

\* handle_read of n bytes.
Read(s, n) ==
  /\ IsOpen(s) /\ sft[s].f_pos <= HostSize(s)
  /\ LET end == IF sft[s].f_pos + n <= HostSize(s) THEN sft[s].f_pos + n
                                                   ELSE HostSize(s)
     IN  Within(end) /\ sft' = [sft EXCEPT ![s].f_pos = Wrap(end)]
  /\ UNCHANGED host

\* handle_write that the host answers with n bytes, not all perhaps of those
\* it was given.  A date that was set is void.
Write(s, n) ==
  LET end == sft[s].f_pos + n
  IN  /\ IsOpen(s) /\ Within(end)
      /\ SetHost(sft[s].file, IF HostSize(s) < end THEN end ELSE HostSize(s),
                 Now)
      /\ sft' = [sft EXCEPT
                   ![s].time_set = FALSE,
                   ![s].f_pos = Wrap(end),
                   ![s].f_size = IF @ < Wrap(end) THEN Wrap(end) ELSE @]

\* Mutant: a shorter file keeps its size in the SFT.
TruncateMutant(s) ==
  /\ IsOpen(s)
  /\ SetHost(sft[s].file, sft[s].f_pos, Now)
  /\ sft' = [sft EXCEPT
               ![s].time_set = FALSE,
               ![s].f_size = IF @ < sft[s].f_pos THEN sft[s].f_pos ELSE @]

\* handle_write of no bytes: the file ends at the position.
Truncate(s) ==
  /\ IsOpen(s)
  /\ SetHost(sft[s].file, sft[s].f_pos, Now)
  /\ sft' = [sft EXCEPT ![s].time_set = FALSE, ![s].f_size = sft[s].f_pos]

\* handle_write that the host refuses: the date is void all the same.
WriteRefused(s) ==
  /\ IsOpen(s) /\ "write" \in HostFaults
  /\ sft' = [sft EXCEPT ![s].time_set = FALSE]
  /\ UNCHANGED host

-----------------------------------------------------------------------------
(* Seeking *)

\* DOS seeks from the start, or from the position.
Seek(s, p) ==
  /\ IsOpen(s)
  /\ sft' = [sft EXCEPT ![s].f_pos = p]
  /\ UNCHANGED host

\* DOS seeks from the end without asking the redirector.
SeekEndCached(s, k) ==
  /\ IsOpen(s) /\ sft[s].alone
  /\ sft[s].f_size + k \in 0 .. OffsetLimit - 1
  /\ sft' = [sft EXCEPT ![s].f_pos = sft[s].f_size + k]
  /\ UNCHANGED host

\* Mutant: the size is the one the SFT had.
SeekEndMutant(s, k) ==
  LET end == sft[s].f_size + k
  IN  /\ IsOpen(s) /\ Within(end) /\ end >= 0
      /\ IF k > 0 THEN SetHost(sft[s].file, Wrap(end), Now) ELSE UNCHANGED host
      /\ sft' = [sft EXCEPT ![s].f_pos = Wrap(end),
                            ![s].f_size = IF k > 0 THEN Wrap(end) ELSE @]

\* handle_seek_end: with the size the host has now, and past the end the file
\* is made longer.
SeekEnd(s, k) ==
  LET end == HostSize(s) + k
  IN  /\ IsOpen(s) /\ HostSize(s) < OffsetLimit
      /\ Within(end) /\ end >= 0
      /\ IF k > 0 THEN SetHost(sft[s].file, Wrap(end), Now) ELSE UNCHANGED host
      /\ sft' = [sft EXCEPT ![s].f_pos = Wrap(end),
                            ![s].f_size = IF k > 0 THEN Wrap(end)
                                                   ELSE HostSize(s)]

\* handle_seek_end that fails after it asked for the size: the position would
\* be before the start, or the host does not make the file longer.
SeekEndRefused(s, k) ==
  /\ IsOpen(s) /\ HostSize(s) < OffsetLimit
  /\ HostSize(s) + k < 0 \/ (k > 0 /\ "size" \in HostFaults)
  /\ sft' = [sft EXCEPT ![s].f_size = HostSize(s)]
  /\ UNCHANGED host

-----------------------------------------------------------------------------
(* Dates, and closing *)

\* DOS: a program sets the date of an open file.
SetTime(s, t) ==
  /\ IsOpen(s)
  /\ sft' = [sft EXCEPT ![s].f_time = t, ![s].time_set = TRUE]
  /\ UNCHANGED host

\* What flush_sft_metadata may make of an SFT and of the date of its file.  If
\* the host returns what it knows of the file the SFT takes that over.
Flushed(s) ==
  LET asis == [sft |-> sft[s], time |-> host[sft[s].file].time]
  IN  IF ~sft[s].time_set THEN {asis}
      ELSE {[sft |-> [sft[s] EXCEPT !.time_set = FALSE, !.f_size = n],
             time |-> sft[s].f_time] : n \in {sft[s].f_size, Wrap(HostSize(s))}}
           \cup (IF "info" \in HostFaults THEN {asis} ELSE {})

\* handle_commit, and handle_close while the SFT has more handles.
Commit(s) ==
  /\ IsOpen(s)
  /\ \E now \in Flushed(s) :
       /\ SetHost(sft[s].file, HostSize(s), now.time)
       /\ sft' = [sft EXCEPT ![s] = now.sft]

\* handle_close of the last handle; a date that could not be stored is lost.
Close(s) ==
  /\ IsOpen(s)
  /\ \E now \in Flushed(s) :
       /\ SetHost(sft[s].file, HostSize(s), now.time)
       /\ sft' = [sft EXCEPT ![s] = [now.sft EXCEPT !.file = NIL]]

\* Another machine or program changes a file that nobody denies to it.
Elsewhere(f, n) ==
  /\ MayShare(f, FALSE)
  /\ SetHost(f, n, Now)
  /\ UNCHANGED sft

-----------------------------------------------------------------------------
Init ==
  /\ host \in [Files -> [size : HostSizes, time : {Now}]]
  /\ sft = [s \in Sfts |-> [file |-> NIL, alone |-> FALSE, f_size |-> 0,
                            f_pos |-> 0, f_time |-> Now, time_set |-> FALSE]]

SftNext(s) ==
  \/ \E f \in Files, alone, replace \in BOOLEAN : Open(s, f, alone, replace)
  \/ \E n \in 1 .. MaxBytes : Read(s, n) \/ Write(s, n)
  \/ Truncate(s) \/ WriteRefused(s)
  \/ \E p \in Positions : Seek(s, p)
  \/ \E k \in Offsets : SeekEndCached(s, k) \/ SeekEnd(s, k)
                        \/ SeekEndRefused(s, k)
  \/ \E t \in Times : SetTime(s, t)
  \/ Commit(s) \/ Close(s)

Next ==
  \/ \E s \in Sfts : SftNext(s)
  \/ \E f \in Files, n \in HostSizes : Elsewhere(f, n)

Spec == Init /\ [][Next]_vars

-----------------------------------------------------------------------------
\* Programs that keep to sizes that DOS can represent, and share files only in
\* the modes meant for it.
Tame == Habits = {} /\ HostSizes \subseteq 0 .. OffsetLimit - 1

\* While an SFT is alone on its file, the size in it is the size on the host:
\* writing, cutting, seeking and storing a date each keep the copy right, also
\* when the host refuses or does part of the work.  DOS seeks with the copy.
CachedSizesAreTrue ==
  \A s \in Sfts : IsOpen(s) /\ sft[s].alone => sft[s].f_size = HostSize(s)

\* What a program sees of SFTs and host in the terms of DosFile.
seenSize == [f \in Files |-> host[f].size]
seenTime == [f \in Files |-> host[f].time]
seenOpen == [s \in Sfts |-> sft[s].file]
seenAlone == [s \in Sfts |-> IsOpen(s) /\ sft[s].alone]
seenPos == [s \in Sfts |-> IF IsOpen(s) THEN sft[s].f_pos ELSE 0]
seenPending ==
  [s \in Sfts |-> IF IsOpen(s) /\ sft[s].time_set THEN sft[s].f_time ELSE NIL]

Promise == INSTANCE DosFile WITH
  size <- seenSize, time <- seenTime, open <- seenOpen, alone <- seenAlone,
  pos <- seenPos, pending <- seenPending

\* The redirector keeps the promises of DosFile to programs that share files
\* in the modes meant for it and keep below the limit of a file size: position,
\* end of file and date behave as if there were no copies in the SFTs.
KeepsPromise == Promise!Spec
=============================================================================
