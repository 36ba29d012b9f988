---------------------------- MODULE SftIoProofs ----------------------------
(***************************************************************************)
(* Proofs about SftIo: types always, and for tame programs the truth of    *)
(* the cached sizes and the implementation of DosFile.                     *)
(***************************************************************************)
EXTENDS SftIo, TLAPS

-----------------------------------------------------------------------------
(* Numbers in 32 bits *)

\* A wrapped number fits.
LEMMA WrapFits ==
  ASSUME NEW n \in Int
  PROVE  Wrap(n) \in 0 .. OffsetLimit - 1
  BY SftIoAssumption DEF Wrap

\* A number that fits is not changed.
LEMMA WrapSame ==
  ASSUME NEW n \in 0 .. OffsetLimit - 1
  PROVE  Wrap(n) = n
  BY SftIoAssumption DEF Wrap

-----------------------------------------------------------------------------
(* Types *)

\* What TypeOK says of one entry, and of one file.
Entry == [file : Files \cup {NIL}, alone : BOOLEAN,
          f_size : 0 .. OffsetLimit - 1, f_pos : 0 .. OffsetLimit - 1,
          f_time : Times \cup {Now}, time_set : BOOLEAN]
File == [size : Nat, time : Times \cup {Now}]

LEMMA OpenSft ==
  ASSUME TypeOK, NEW s \in Sfts, IsOpen(s)
  PROVE  /\ sft[s] \in Entry /\ sft[s].file \in Files
         /\ host[sft[s].file] \in File /\ HostSize(s) \in Nat
BY DEF TypeOK, IsOpen, HostSize, Entry, File

LEMMA SetHostType ==
  ASSUME TypeOK, NEW f \in Files, NEW n \in Nat,
         NEW t \in Times \cup {Now}, SetHost(f, n, t)
  PROVE  host' \in [Files -> File]
BY DEF TypeOK, SetHost, File

\* Whatever flush_sft_metadata does, it leaves the file, the sharing mode and
\* the position of the SFT alone.
LEMMA FlushedKeeps ==
  ASSUME TypeOK, NEW s \in Sfts, IsOpen(s), NEW now \in Flushed(s)
  PROVE  /\ now.sft \in Entry
         /\ now.time \in Times \cup {Now}
         /\ now.sft.file = sft[s].file /\ now.sft.alone = sft[s].alone
         /\ now.sft.f_pos = sft[s].f_pos
         /\ now.sft.f_size \in {sft[s].f_size, Wrap(HostSize(s))}
<1>1. sft[s] \in Entry /\ sft[s].file \in Files
      /\ host[sft[s].file] \in File /\ HostSize(s) \in Nat
  BY OpenSft
<1>2. Wrap(HostSize(s)) \in 0 .. OffsetLimit - 1
  BY <1>1, WrapFits
<1>. DEFINE stored(n) ==
       [sft |-> [sft[s] EXCEPT !.time_set = FALSE, !.f_size = n],
        time |-> sft[s].f_time]
<1>3. \/ now = [sft |-> sft[s], time |-> host[sft[s].file].time]
      \/ \E n \in {sft[s].f_size, Wrap(HostSize(s))} : now = stored(n)
  BY DEF Flushed
<1>4. CASE now = [sft |-> sft[s], time |-> host[sft[s].file].time]
  BY <1>1, <1>4 DEF Entry, File
<1>5. ASSUME NEW n \in {sft[s].f_size, Wrap(HostSize(s))}, now = stored(n)
      PROVE  /\ now.sft \in Entry
             /\ now.time \in Times \cup {Now}
             /\ now.sft.file = sft[s].file /\ now.sft.alone = sft[s].alone
             /\ now.sft.f_pos = sft[s].f_pos
             /\ now.sft.f_size = n
  <2>1. n \in 0 .. OffsetLimit - 1
    BY <1>1, <1>2 DEF Entry
  <2>. QED BY <1>1, <1>5, <2>1 DEF Entry
<1>. QED
  BY <1>3, <1>4, <1>5

LEMMA TypeStep ==
  ASSUME TypeOK, Next
  PROVE  TypeOK'
<1>. SUFFICES host' \in [Files -> File] /\ sft' \in [Sfts -> Entry]
  BY DEF TypeOK, File, Entry
<1>. USE DEF Entry
<1>0. host \in [Files -> File] /\ sft \in [Sfts -> Entry]
  BY DEF TypeOK, File
<1>1. ASSUME NEW s \in Sfts, NEW f \in Files, NEW alone \in BOOLEAN,
             NEW replace \in BOOLEAN, Open(s, f, alone, replace)
      PROVE  host' \in [Files -> File] /\ sft' \in [Sfts -> Entry]
  <2>1. host' \in [Files -> File]
    BY <1>0, <1>1 DEF Open, SetHost, File
  <2>2. Wrap(host'[f].size) \in 0 .. OffsetLimit - 1
    BY <2>1, WrapFits DEF File
  <2>3. 0 \in 0 .. OffsetLimit - 1
    BY SftIoAssumption
  <2>. QED
    BY <1>0, <1>1, <2>1, <2>2, <2>3 DEF Open, File
<1>2. ASSUME NEW s \in Sfts, NEW n \in 1 .. MaxBytes,
             Read(s, n) \/ Write(s, n)
      PROVE  host' \in [Files -> File] /\ sft' \in [Sfts -> Entry]
  <2>0. IsOpen(s)
    BY <1>2 DEF Read, Write
  <2>1. sft[s] \in Entry /\ sft[s].file \in Files /\ HostSize(s) \in Nat
    BY <2>0, OpenSft
  <2>2. sft[s].f_pos \in Nat /\ sft[s].f_pos + n \in Nat
    BY <2>1
  <2>3. /\ Wrap(sft[s].f_pos + n) \in 0 .. OffsetLimit - 1
        /\ Wrap(HostSize(s)) \in 0 .. OffsetLimit - 1
    BY <2>1, <2>2, WrapFits
  <2>4. CASE Read(s, n)
    BY <1>0, <2>1, <2>3, <2>4 DEF Read
  <2>5. CASE Write(s, n)
    <3>1. host' \in [Files -> File]
      BY <2>1, <2>2, <2>5, SetHostType DEF Write
    <3>2. sft' \in [Sfts -> Entry]
      BY <1>0, <2>1, <2>3, <2>5 DEF Write
    <3>. QED BY <3>1, <3>2
  <2>. QED BY <1>2, <2>4, <2>5
<1>3. ASSUME NEW s \in Sfts, Truncate(s) \/ WriteRefused(s)
      PROVE  host' \in [Files -> File] /\ sft' \in [Sfts -> Entry]
  <2>0. IsOpen(s)
    BY <1>3 DEF Truncate, WriteRefused
  <2>1. sft[s] \in Entry /\ sft[s].file \in Files /\ sft[s].f_pos \in Nat
    BY <2>0, OpenSft
  <2>2. CASE Truncate(s)
    <3>1. host' \in [Files -> File]
      BY <2>1, <2>2, SetHostType DEF Truncate
    <3>2. sft' \in [Sfts -> Entry]
      BY <1>0, <2>1, <2>2 DEF Truncate
    <3>. QED BY <3>1, <3>2
  <2>3. CASE WriteRefused(s)
    BY <1>0, <2>1, <2>3 DEF WriteRefused
  <2>. QED BY <1>3, <2>2, <2>3
<1>4. ASSUME NEW s \in Sfts, NEW p \in Positions, Seek(s, p)
      PROVE  host' \in [Files -> File] /\ sft' \in [Sfts -> Entry]
  BY <1>0, <1>4, SftIoAssumption DEF Seek
<1>5. ASSUME NEW s \in Sfts, NEW k \in Offsets,
             SeekEndCached(s, k) \/ SeekEnd(s, k) \/ SeekEndRefused(s, k)
      PROVE  host' \in [Files -> File] /\ sft' \in [Sfts -> Entry]
  <2>0. IsOpen(s)
    BY <1>5 DEF SeekEndCached, SeekEnd, SeekEndRefused
  <2>1. sft[s] \in Entry /\ sft[s].file \in Files /\ HostSize(s) \in Nat
    BY <2>0, OpenSft
  <2>2. k \in Int
    BY SftIoAssumption
  <2>3. Wrap(HostSize(s) + k) \in 0 .. OffsetLimit - 1
    BY <2>1, <2>2, WrapFits
  <2>4. CASE SeekEndCached(s, k)
    BY <1>0, <2>1, <2>2, <2>4 DEF SeekEndCached
  <2>5. CASE SeekEnd(s, k)
    <3>1. host' \in [Files -> File]
      BY <1>0, <2>1, <2>3, <2>5, SetHostType DEF SeekEnd
    <3>2. HostSize(s) \in 0 .. OffsetLimit - 1
      BY <2>1, <2>5, SftIoAssumption DEF SeekEnd
    <3>3. sft' \in [Sfts -> Entry]
      BY <1>0, <2>1, <2>3, <2>5, <3>2 DEF SeekEnd
    <3>. QED BY <3>1, <3>3
  <2>6. CASE SeekEndRefused(s, k)
    <3>1. HostSize(s) \in 0 .. OffsetLimit - 1
      BY <2>1, <2>6, SftIoAssumption DEF SeekEndRefused
    <3>. QED BY <1>0, <2>1, <2>6, <3>1 DEF SeekEndRefused
  <2>. QED BY <1>5, <2>4, <2>5, <2>6
<1>6. ASSUME NEW s \in Sfts, NEW t \in Times, SetTime(s, t)
      PROVE  host' \in [Files -> File] /\ sft' \in [Sfts -> Entry]
  BY <1>0, <1>6 DEF SetTime
<1>7. ASSUME NEW s \in Sfts, Commit(s) \/ Close(s)
      PROVE  host' \in [Files -> File] /\ sft' \in [Sfts -> Entry]
  <2>0. IsOpen(s)
    BY <1>7 DEF Commit, Close
  <2>1. sft[s].file \in Files /\ HostSize(s) \in Nat
    BY <2>0, OpenSft
  <2>2. PICK now \in Flushed(s) :
          /\ SetHost(sft[s].file, HostSize(s), now.time)
          /\ \/ sft' = [sft EXCEPT ![s] = now.sft]
             \/ sft' = [sft EXCEPT ![s] = [now.sft EXCEPT !.file = NIL]]
    BY <1>7 DEF Commit, Close
  <2>3. now.sft \in Entry /\ now.time \in Times \cup {Now}
    BY <2>0, FlushedKeeps
  <2>. QED BY <1>0, <2>1, <2>2, <2>3, SetHostType
<1>8. ASSUME NEW f \in Files, NEW n \in HostSizes, Elsewhere(f, n)
      PROVE  host' \in [Files -> File] /\ sft' \in [Sfts -> Entry]
  BY <1>0, <1>8, SetHostType, SftIoAssumption DEF Elsewhere
<1>. QED
  BY <1>1, <1>2, <1>3, <1>4, <1>5, <1>6, <1>7, <1>8 DEF Next, SftNext

LEMMA InitType == ASSUME Init PROVE TypeOK
<1>1. host \in [Files -> [size : Nat, time : Times \cup {Now}]]
  BY SftIoAssumption DEF Init
<1>2. 0 \in 0 .. OffsetLimit - 1
  BY SftIoAssumption
<1>. QED BY <1>1, <1>2 DEF Init, TypeOK

\* Sizes and positions of an SFT always fit in 32 bits, and the records of
\* both sides keep their shape, whatever programs and host do.
THEOREM TypeCorrect == Spec => []TypeOK
<1>1. Init => TypeOK
  BY InitType
<1>2. TypeOK /\ [Next]_vars => TypeOK'
  <2>1. CASE Next
    BY <2>1, TypeStep
  <2>2. CASE UNCHANGED vars
    BY <2>2 DEF vars, TypeOK
  <2>. QED BY <2>1, <2>2
<1>. QED BY <1>1, <1>2, PTL DEF Spec

-----------------------------------------------------------------------------
(* Cached sizes *)

SizesFit == \A f \in Files : host[f].size < OffsetLimit

\* An SFT that is alone on its file really is.
Exclusive ==
  \A s, t \in Sfts : s # t /\ IsOpen(s) /\ sft[s].alone =>
    sft[t].file # sft[s].file

\* The inductive invariant for tame programs.
TameInv == TypeOK /\ SizesFit /\ Exclusive /\ CachedSizesAreTrue

\* The step changes no SFT but s, and no file but the one of s.
OnlyTouches(s) ==
  /\ \A t \in Sfts \ {s} : sft'[t] = sft[t]
  /\ \A f \in Files \ {sft[s].file} : host'[f] = host[f]

\* What an action on an open SFT owes the invariant.
OwnStep(s) ==
  /\ IsOpen(s) /\ OnlyTouches(s)
  /\ sft'[s].file \in {sft[s].file, NIL}
  /\ sft'[s].alone = sft[s].alone
  /\ host'[sft[s].file].size < OffsetLimit
  /\ sft[s].alone => sft'[s].f_size = host'[sft[s].file].size

LEMMA OwnStepKeeps ==
  ASSUME TameInv, TypeOK', NEW s \in Sfts, OwnStep(s)
  PROVE  TameInv'
<1>1. sft[s].file \in Files
  BY OpenSft DEF TameInv, OwnStep
<1>2. SizesFit'
  BY <1>1 DEF TameInv, SizesFit, OwnStep, OnlyTouches
<1>3. Exclusive'
  BY <1>1 DEF TameInv, Exclusive, OwnStep, OnlyTouches, IsOpen
<1>4. CachedSizesAreTrue'
  <2>. SUFFICES ASSUME NEW t \in Sfts, IsOpen(t)', sft'[t].alone
                PROVE  sft'[t].f_size = host'[sft'[t].file].size
    BY DEF CachedSizesAreTrue, HostSize
  <2>1. CASE t = s
    BY <2>1 DEF OwnStep, IsOpen
  <2>2. CASE t # s
    <3>1. sft'[t] = sft[t] /\ IsOpen(t)
      BY <2>2 DEF OwnStep, OnlyTouches, IsOpen
    <3>2. sft[t].file \in Files \ {sft[s].file}
      BY <2>2, <3>1, OpenSft DEF TameInv, Exclusive
    <3>. QED
      BY <3>1, <3>2 DEF TameInv, CachedSizesAreTrue, HostSize, OwnStep,
                        OnlyTouches
  <2>. QED BY <2>1, <2>2
<1>. QED BY <1>2, <1>3, <1>4 DEF TameInv

LEMMA TameWithin == ASSUME Tame, NEW n, Within(n) PROVE n < OffsetLimit
BY DEF Tame, Within

LEMMA TameSize ==
  ASSUME TameInv, NEW s \in Sfts, IsOpen(s)
  PROVE  /\ sft[s] \in Entry /\ sft[s].file \in Files
         /\ HostSize(s) \in 0 .. OffsetLimit - 1
         /\ Wrap(HostSize(s)) = HostSize(s)
         /\ sft[s].alone => sft[s].f_size = HostSize(s)
<1>1. sft[s] \in Entry /\ sft[s].file \in Files /\ HostSize(s) \in Nat
  BY OpenSft DEF TameInv
<1>2. HostSize(s) \in 0 .. OffsetLimit - 1
  BY <1>1, SftIoAssumption DEF TameInv, SizesFit, HostSize
<1>. QED BY <1>1, <1>2, WrapSame DEF TameInv, CachedSizesAreTrue

LEMMA Domains ==
  ASSUME TypeOK
  PROVE  sft \in [Sfts -> Entry] /\ host \in [Files -> File]
BY DEF TypeOK, Entry, File

LEMMA ReadOwn ==
  ASSUME Tame, TameInv, NEW s \in Sfts, NEW n \in 1 .. MaxBytes, Read(s, n)
  PROVE  OwnStep(s)
<1>1. /\ IsOpen(s) /\ UNCHANGED host
      /\ sft[s] \in Entry /\ HostSize(s) < OffsetLimit
      /\ sft[s].alone => sft[s].f_size = HostSize(s)
  BY TameSize, SftIoAssumption DEF Read
<1>2. PICK p : sft' = [sft EXCEPT ![s] = [sft[s] EXCEPT !.f_pos = p]]
  BY DEF Read
<1>3. /\ OnlyTouches(s) /\ sft'[s] = [sft[s] EXCEPT !.f_pos = p]
      /\ host'[sft[s].file].size = HostSize(s)
  BY <1>1, <1>2, Domains DEF TameInv, OnlyTouches, HostSize
<1>. QED BY <1>1, <1>3 DEF OwnStep, Entry

\* Where a write ends is a position that fits.
LEMMA WriteEnd ==
  ASSUME Tame, TameInv, NEW s \in Sfts, NEW n \in 1 .. MaxBytes, Write(s, n)
  PROVE  /\ sft[s].f_pos + n \in 0 .. OffsetLimit - 1
         /\ Wrap(sft[s].f_pos + n) = sft[s].f_pos + n
<1>1. sft[s].f_pos + n \in Nat /\ sft[s].f_pos + n < OffsetLimit
  BY TameSize, TameWithin, SftIoAssumption DEF Write, Entry
<1>. QED BY <1>1, WrapSame, SftIoAssumption

LEMMA WriteOwn ==
  ASSUME Tame, TameInv, NEW s \in Sfts, NEW n \in 1 .. MaxBytes, Write(s, n)
  PROVE  OwnStep(s)
<1>. DEFINE end == sft[s].f_pos + n
            longer == IF HostSize(s) < end THEN end ELSE HostSize(s)
<1>1. /\ IsOpen(s)
      /\ end \in 0 .. OffsetLimit - 1 /\ Wrap(end) = end
  BY WriteEnd DEF Write
<1>2. /\ sft[s] \in Entry /\ sft[s].file \in Files
      /\ HostSize(s) \in 0 .. OffsetLimit - 1
      /\ sft[s].alone => sft[s].f_size = HostSize(s)
  BY <1>1, TameSize
<1>. DEFINE e == [sft[s] EXCEPT !.time_set = FALSE, !.f_pos = end,
                                !.f_size = IF @ < end THEN end ELSE @]
<1>3. sft' = [sft EXCEPT ![s] = e]
  BY <1>1 DEF Write
<1>4. /\ OnlyTouches(s) /\ sft'[s] = e
      /\ host'[sft[s].file] = [size |-> longer, time |-> Now]
  BY <1>1, <1>3, Domains, TameSize DEF Write, SetHost, TameInv, OnlyTouches
<1>5. longer < OffsetLimit
  BY <1>1, <1>2, SftIoAssumption
<1>6. /\ e.file = sft[s].file /\ e.alone = sft[s].alone
      /\ sft[s].alone => e.f_size = longer
  BY <1>2 DEF Entry
<1>. QED BY <1>1, <1>4, <1>5, <1>6 DEF OwnStep

LEMMA TruncateOwn ==
  ASSUME Tame, TameInv, NEW s \in Sfts, Truncate(s) \/ WriteRefused(s)
  PROVE  OwnStep(s)
<1>1. IsOpen(s)
  BY DEF Truncate, WriteRefused
<1>2. /\ sft[s] \in Entry /\ sft[s].file \in Files
      /\ HostSize(s) \in 0 .. OffsetLimit - 1
      /\ sft[s].alone => sft[s].f_size = HostSize(s)
  BY <1>1, TameSize
<1>3. CASE Truncate(s)
  <2>. DEFINE e == [sft[s] EXCEPT !.time_set = FALSE, !.f_size = sft[s].f_pos]
  <2>1. /\ OnlyTouches(s) /\ sft'[s] = e
        /\ host'[sft[s].file] = [size |-> sft[s].f_pos, time |-> Now]
    BY <1>1, <1>3, <1>2, Domains
    DEF Truncate, SetHost, TameInv, OnlyTouches
  <2>2. /\ e.file = sft[s].file /\ e.alone = sft[s].alone
        /\ e.f_size = sft[s].f_pos /\ sft[s].f_pos < OffsetLimit
    BY <1>2, SftIoAssumption DEF Entry
  <2>. QED BY <1>1, <2>1, <2>2 DEF OwnStep
<1>4. CASE WriteRefused(s)
  <2>. DEFINE e == [sft[s] EXCEPT !.time_set = FALSE]
  <2>1. OnlyTouches(s) /\ sft'[s] = e /\ host'[sft[s].file].size = HostSize(s)
    BY <1>1, <1>4, <1>2, Domains
    DEF WriteRefused, TameInv, OnlyTouches, HostSize
  <2>2. /\ e.file = sft[s].file /\ e.alone = sft[s].alone
        /\ e.f_size = sft[s].f_size /\ HostSize(s) < OffsetLimit
    BY <1>2, SftIoAssumption DEF Entry
  <2>. QED BY <1>1, <1>2, <2>1, <2>2 DEF OwnStep
<1>. QED BY <1>3, <1>4

LEMMA SeekOwn ==
  ASSUME Tame, TameInv, NEW s \in Sfts,
         \/ \E p \in Positions : Seek(s, p)
         \/ \E k \in Offsets : SeekEndCached(s, k)
         \/ \E t \in Times : SetTime(s, t)
  PROVE  OwnStep(s)
<1>0. IsOpen(s) /\ UNCHANGED host
  BY DEF Seek, SeekEndCached, SetTime
<1>1. /\ IsOpen(s) /\ UNCHANGED host
      /\ sft[s] \in Entry /\ HostSize(s) < OffsetLimit
      /\ sft[s].alone => sft[s].f_size = HostSize(s)
  BY <1>0, TameSize, SftIoAssumption
<1>2. PICK e : /\ sft' = [sft EXCEPT ![s] = e]
               /\ \/ \E p \in Int : e = [sft[s] EXCEPT !.f_pos = p]
                  \/ \E t \in Times : e = [sft[s] EXCEPT !.f_time = t,
                                                        !.time_set = TRUE]
  <2>1. ASSUME NEW p \in Positions, Seek(s, p)
        PROVE  /\ p \in Int
               /\ sft' = [sft EXCEPT ![s] = [sft[s] EXCEPT !.f_pos = p]]
    BY <2>1, SftIoAssumption DEF Seek
  <2>2. ASSUME NEW k \in Offsets, SeekEndCached(s, k)
        PROVE  /\ sft[s].f_size + k \in Int
               /\ sft' = [sft EXCEPT ![s] =
                            [sft[s] EXCEPT !.f_pos = sft[s].f_size + k]]
    BY <2>2 DEF SeekEndCached
  <2>3. ASSUME NEW t \in Times, SetTime(s, t)
        PROVE  sft' = [sft EXCEPT ![s] = [sft[s] EXCEPT !.f_time = t,
                                                        !.time_set = TRUE]]
    BY <2>3 DEF SetTime
  <2>. QED BY <2>1, <2>2, <2>3
<1>3. /\ e.file = sft[s].file /\ e.alone = sft[s].alone
      /\ e.f_size = sft[s].f_size
  BY <1>1, <1>2 DEF Entry
<1>4. OnlyTouches(s) /\ sft'[s] = e /\ host'[sft[s].file].size = HostSize(s)
  BY <1>1, <1>2, Domains DEF TameInv, OnlyTouches, HostSize
<1>. QED BY <1>1, <1>3, <1>4 DEF OwnStep

\* Where a seek from the end goes is a position that fits.
LEMMA SeekEndEnd ==
  ASSUME Tame, TameInv, NEW s \in Sfts, NEW k \in Offsets, SeekEnd(s, k)
  PROVE  /\ HostSize(s) + k \in 0 .. OffsetLimit - 1
         /\ Wrap(HostSize(s) + k) = HostSize(s) + k
<1>1. k \in Int /\ HostSize(s) \in Nat
  BY TameSize, SftIoAssumption DEF SeekEnd
<1>2. HostSize(s) + k >= 0 /\ HostSize(s) + k < OffsetLimit
  BY TameWithin DEF SeekEnd
<1>3. HostSize(s) + k \in 0 .. OffsetLimit - 1
  BY <1>1, <1>2, SftIoAssumption
<1>. QED BY <1>3, WrapSame

LEMMA SeekEndOwn ==
  ASSUME Tame, TameInv, NEW s \in Sfts, NEW k \in Offsets, SeekEnd(s, k)
  PROVE  OwnStep(s)
<1>. DEFINE end == HostSize(s) + k
            e == [sft[s] EXCEPT !.f_pos = end,
                                !.f_size = IF k > 0 THEN end ELSE HostSize(s)]
<1>1. /\ IsOpen(s) /\ sft[s] \in Entry /\ sft[s].file \in Files
      /\ HostSize(s) \in 0 .. OffsetLimit - 1
      /\ end \in 0 .. OffsetLimit - 1 /\ Wrap(end) = end
  BY SeekEndEnd, TameSize DEF SeekEnd
<1>2. sft' = [sft EXCEPT ![s] = e]
  BY <1>1 DEF SeekEnd
<1>3. e.file = sft[s].file /\ e.alone = sft[s].alone
  BY <1>1 DEF Entry
<1>4. CASE k > 0
  <2>0. host' = [host EXCEPT ![sft[s].file] = [size |-> end, time |-> Now]]
    BY <1>1, <1>4 DEF SeekEnd, SetHost
  <2>1. /\ OnlyTouches(s) /\ sft'[s] = e
        /\ host'[sft[s].file] = [size |-> end, time |-> Now]
    BY <1>1, <1>2, <2>0, Domains DEF TameInv, OnlyTouches
  <2>2. e.f_size = end
    BY <1>1, <1>4 DEF Entry
  <2>. QED BY <1>1, <1>3, <2>1, <2>2, SftIoAssumption DEF OwnStep
<1>5. CASE ~(k > 0)
  <2>1. OnlyTouches(s) /\ sft'[s] = e /\ host'[sft[s].file].size = HostSize(s)
    BY <1>1, <1>2, <1>5, Domains
    DEF SeekEnd, TameInv, OnlyTouches, HostSize
  <2>2. e.f_size = HostSize(s)
    BY <1>1, <1>5 DEF Entry
  <2>. QED BY <1>1, <1>3, <2>1, <2>2, SftIoAssumption DEF OwnStep
<1>. QED BY <1>4, <1>5

LEMMA SeekEndRefusedOwn ==
  ASSUME Tame, TameInv, NEW s \in Sfts, NEW k \in Offsets,
         SeekEndRefused(s, k)
  PROVE  OwnStep(s)
<1>. DEFINE e == [sft[s] EXCEPT !.f_size = HostSize(s)]
<1>1. /\ IsOpen(s) /\ sft[s] \in Entry /\ HostSize(s) < OffsetLimit
      /\ sft' = [sft EXCEPT ![s] = e] /\ UNCHANGED host
  BY TameSize DEF SeekEndRefused
<1>2. /\ e.file = sft[s].file /\ e.alone = sft[s].alone
      /\ e.f_size = HostSize(s)
  BY <1>1 DEF Entry
<1>3. OnlyTouches(s) /\ sft'[s] = e /\ host'[sft[s].file].size = HostSize(s)
  BY <1>1, Domains DEF TameInv, OnlyTouches, HostSize
<1>. QED BY <1>1, <1>2, <1>3 DEF OwnStep

LEMMA CloseOwn ==
  ASSUME Tame, TameInv, NEW s \in Sfts, Commit(s) \/ Close(s)
  PROVE  OwnStep(s)
<1>1. IsOpen(s)
  BY DEF Commit, Close
<1>2. /\ HostSize(s) \in 0 .. OffsetLimit - 1
      /\ Wrap(HostSize(s)) = HostSize(s)
      /\ sft[s].alone => sft[s].f_size = HostSize(s)
  BY <1>1, TameSize
<1>3. PICK now \in Flushed(s) :
        /\ SetHost(sft[s].file, HostSize(s), now.time)
        /\ \/ sft' = [sft EXCEPT ![s] = now.sft]
           \/ sft' = [sft EXCEPT ![s] = [now.sft EXCEPT !.file = NIL]]
  BY DEF Commit, Close
<1>4. /\ now.sft \in Entry
      /\ now.sft.file = sft[s].file /\ now.sft.alone = sft[s].alone
      /\ sft[s].alone => now.sft.f_size = HostSize(s)
  BY <1>1, <1>2, FlushedKeeps DEF TameInv
<1>5. PICK e \in {now.sft, [now.sft EXCEPT !.file = NIL]} :
        sft' = [sft EXCEPT ![s] = e]
  BY <1>3
<1>6. /\ e.file \in {sft[s].file, NIL} /\ e.alone = sft[s].alone
      /\ sft[s].alone => e.f_size = HostSize(s)
  BY <1>4, <1>5 DEF Entry
<1>7. /\ OnlyTouches(s) /\ sft'[s] = e
      /\ host'[sft[s].file].size = HostSize(s)
  BY <1>1, <1>3, <1>5, Domains, TameSize DEF SetHost, TameInv, OnlyTouches
<1>. QED BY <1>1, <1>2, <1>6, <1>7, SftIoAssumption DEF OwnStep

LEMMA OpenKeeps ==
  ASSUME Tame, TameInv, TypeOK', NEW s \in Sfts, NEW f \in Files,
         NEW alone \in BOOLEAN, NEW replace \in BOOLEAN,
         Open(s, f, alone, replace)
  PROVE  TameInv'
<1>1. /\ host \in [Files -> File] /\ sft \in [Sfts -> Entry]
      /\ host' \in [Files -> File] /\ sft' \in [Sfts -> Entry]
  BY DEF TameInv, TypeOK, File, Entry
<1>2. /\ \A g \in Files \ {f} : host'[g] = host[g]
      /\ host'[f].size \in 0 .. OffsetLimit - 1
  BY <1>1, SftIoAssumption DEF Open, SetHost, TameInv, SizesFit, File
<1>3. /\ \A t \in Sfts \ {s} : sft'[t] = sft[t]
      /\ sft'[s].file = f /\ sft'[s].alone = alone
      /\ sft'[s].f_size = host'[f].size
  BY <1>1, <1>2, WrapSame DEF Open
\* No other SFT of the file is alone, nor is s alone if there is another.
<1>4. \A t \in Sfts : sft[t].file = f => ~alone /\ ~sft[t].alone
  BY DEF Open, MayShare, Tame
<1>5. SizesFit'
  BY <1>2, SftIoAssumption DEF SizesFit, TameInv
<1>6. Exclusive'
  BY <1>3, <1>4 DEF Exclusive, TameInv, IsOpen
<1>7. CachedSizesAreTrue'
  <2>. SUFFICES ASSUME NEW t \in Sfts, IsOpen(t)', sft'[t].alone
                PROVE  sft'[t].f_size = host'[sft'[t].file].size
    BY DEF CachedSizesAreTrue, HostSize
  <2>1. CASE t = s
    BY <2>1, <1>3
  <2>2. CASE t # s
    <3>1. sft'[t] = sft[t] /\ IsOpen(t)
      BY <2>2, <1>3 DEF IsOpen
    <3>2. sft[t].file \in Files \ {f}
      BY <3>1, <1>4, OpenSft DEF TameInv
    <3>. QED
      BY <3>1, <3>2, <1>2 DEF TameInv, CachedSizesAreTrue, HostSize
  <2>. QED BY <2>1, <2>2
<1>. QED BY <1>5, <1>6, <1>7 DEF TameInv

LEMMA ElsewhereKeeps ==
  ASSUME Tame, TameInv, TypeOK', NEW f \in Files, NEW n \in HostSizes,
         Elsewhere(f, n)
  PROVE  TameInv'
<1>1. host \in [Files -> File] /\ UNCHANGED sft
  BY DEF TameInv, TypeOK, File, Elsewhere
<1>2. /\ \A g \in Files \ {f} : host'[g] = host[g]
      /\ host'[f].size = n /\ n < OffsetLimit
  BY <1>1, SftIoAssumption DEF Elsewhere, SetHost, Tame
<1>3. \A t \in Sfts : sft[t].file = f => ~sft[t].alone
  BY DEF Elsewhere, MayShare, Tame
<1>4. SizesFit' /\ Exclusive'
  BY <1>1, <1>2 DEF TameInv, SizesFit, Exclusive, IsOpen
<1>5. CachedSizesAreTrue'
  <2>. SUFFICES ASSUME NEW t \in Sfts, IsOpen(t)', sft'[t].alone
                PROVE  sft'[t].f_size = host'[sft'[t].file].size
    BY DEF CachedSizesAreTrue, HostSize
  <2>1. sft'[t] = sft[t] /\ IsOpen(t)
    BY <1>1 DEF IsOpen
  <2>2. sft[t].file \in Files \ {f}
    BY <2>1, <1>3, OpenSft DEF TameInv
  <2>. QED
    BY <2>1, <2>2, <1>2 DEF TameInv, CachedSizesAreTrue, HostSize
<1>. QED BY <1>4, <1>5 DEF TameInv

LEMMA TameStep ==
  ASSUME Tame, TameInv, Next
  PROVE  TameInv'
<1>0. TypeOK'
  BY TypeStep DEF TameInv
<1>1. ASSUME NEW s \in Sfts, SftNext(s) PROVE TameInv'
  <2>1. ASSUME NEW f \in Files, NEW alone \in BOOLEAN,
               NEW replace \in BOOLEAN, Open(s, f, alone, replace)
        PROVE  TameInv'
    BY <1>0, <2>1, OpenKeeps
  <2>2. ASSUME NEW n \in 1 .. MaxBytes, Read(s, n) \/ Write(s, n)
        PROVE  OwnStep(s)
    BY <2>2, ReadOwn, WriteOwn
  <2>3. ASSUME NEW k \in Offsets, SeekEnd(s, k) \/ SeekEndRefused(s, k)
        PROVE  OwnStep(s)
    BY <2>3, SeekEndOwn, SeekEndRefusedOwn
  <2>4. ASSUME Truncate(s) \/ WriteRefused(s) PROVE OwnStep(s)
    BY <2>4, TruncateOwn
  <2>5. ASSUME \/ \E p \in Positions : Seek(s, p)
               \/ \E k \in Offsets : SeekEndCached(s, k)
               \/ \E t \in Times : SetTime(s, t)
        PROVE  OwnStep(s)
    BY <2>5, SeekOwn
  <2>6. ASSUME Commit(s) \/ Close(s) PROVE OwnStep(s)
    BY <2>6, CloseOwn
  <2>. QED
    BY <1>0, <1>1, <2>6, <2>5, <2>4, <2>3, <2>2, <2>1, OwnStepKeeps DEF SftNext
<1>2. ASSUME NEW f \in Files, NEW n \in HostSizes, Elsewhere(f, n)
      PROVE  TameInv'
  BY <1>0, <1>2, ElsewhereKeeps
<1>. QED BY <1>1, <1>2 DEF Next

THEOREM TameInvariance == ASSUME Tame PROVE Spec => []TameInv
<1>1. Init => TypeOK
  BY InitType
<1>2. ASSUME Tame, Init PROVE TameInv
  <2>1. \A f \in Files : host[f].size \in HostSizes
    BY <1>2 DEF Init
  <2>4. ASSUME NEW n \in HostSizes PROVE n < OffsetLimit
    BY <1>2, SftIoAssumption DEF Tame
  <2>3. SizesFit
    BY <2>1, <2>4 DEF SizesFit
  <2>2. \A s \in Sfts : ~IsOpen(s)
    BY <1>2 DEF Init, IsOpen
  <2>. QED BY <1>1, <1>2, <2>2, <2>3 DEF TameInv, Exclusive, CachedSizesAreTrue
<1>3. ASSUME Tame, TameInv, [Next]_vars PROVE TameInv'
  <2>1. CASE Next
    BY <1>3, <2>1, TameStep
  <2>2. CASE UNCHANGED vars
    BY <1>3, <2>2 DEF vars, TameInv, TypeOK, SizesFit, Exclusive,
                      CachedSizesAreTrue, IsOpen, HostSize
  <2>. QED BY <1>3, <2>1, <2>2
<1>. QED BY <1>2, <1>3, PTL DEF Spec

\* With tame programs DOS may seek by the size in an SFT that is alone.
THEOREM CachedSizesStayTrue == ASSUME Tame PROVE Spec => []CachedSizesAreTrue
BY TameInvariance, PTL DEF TameInv

-----------------------------------------------------------------------------
(* Refinement *)

LEMMA Seen ==
  ASSUME NEW s \in Sfts, IsOpen(s), sft[s].file \in Files
  PROVE  /\ seenOpen[s] = sft[s].file /\ Promise!IsOpen(s)
         /\ seenPos[s] = sft[s].f_pos
         /\ seenPending[s] = IF sft[s].time_set THEN sft[s].f_time ELSE NIL
         /\ seenTime[sft[s].file] = host[sft[s].file].time
         /\ seenSize[sft[s].file] = HostSize(s)
         /\ Promise!Size(s) = HostSize(s)
BY DEF seenOpen, seenPos, seenPending, seenSize, seenTime, HostSize, IsOpen,
       Promise!IsOpen, Promise!Size

\* What a step that touches s alone changes of what is seen of s and its file.
LEMMA SeenStep ==
  ASSUME NEW s \in Sfts, IsOpen(s), sft[s].file \in Files, OnlyTouches(s),
         sft'[s].file = sft[s].file
  PROVE  /\ \A p : sft'[s].f_pos = p => seenPos' = [seenPos EXCEPT ![s] = p]
         /\ ~sft'[s].time_set => seenPending' = [seenPending EXCEPT ![s] = NIL]
         /\ \A t : sft'[s].time_set /\ sft'[s].f_time = t
              => seenPending' = [seenPending EXCEPT ![s] = t]
         /\ \A n : host'[sft[s].file].size = n
              => seenSize' = [seenSize EXCEPT ![sft[s].file] = n]
         /\ \A t : host'[sft[s].file].time = t
              => seenTime' = [seenTime EXCEPT ![sft[s].file] = t]
BY DEF seenPos, seenPending, seenSize, seenTime, OnlyTouches, IsOpen

\* What is not changed at s is not changed.
LEMMA SeenSame ==
  ASSUME NEW s \in Sfts, IsOpen(s), sft[s].file \in Files, OnlyTouches(s),
         sft'[s].file = sft[s].file, sft'[s].alone = sft[s].alone
  PROVE  /\ UNCHANGED <<seenOpen, seenAlone>>
         /\ sft'[s].f_pos = sft[s].f_pos => UNCHANGED seenPos
         /\ sft'[s].f_time = sft[s].f_time /\ sft'[s].time_set = sft[s].time_set
              => UNCHANGED seenPending
         /\ host'[sft[s].file].size = HostSize(s) => UNCHANGED seenSize
         /\ host'[sft[s].file].time = host[sft[s].file].time
              => UNCHANGED seenTime
BY DEF seenOpen, seenAlone, seenPos, seenPending, seenSize, seenTime,
       OnlyTouches, IsOpen, HostSize

LEMMA ReadRefines ==
  ASSUME Tame, TameInv, NEW s \in Sfts, NEW n \in 1 .. MaxBytes, Read(s, n)
  PROVE  Promise!Read(s)
<1>. DEFINE end == IF sft[s].f_pos + n <= HostSize(s) THEN sft[s].f_pos + n
                                                      ELSE HostSize(s)
            e == [sft[s] EXCEPT !.f_pos = end]
<1>1. /\ IsOpen(s) /\ UNCHANGED host /\ sft[s].f_pos <= HostSize(s)
      /\ sft[s] \in Entry /\ sft[s].file \in Files
      /\ HostSize(s) \in 0 .. OffsetLimit - 1
  BY TameSize DEF Read
<1>2. end \in 0 .. OffsetLimit - 1
  BY <1>1, SftIoAssumption DEF Entry
<1>3. sft' = [sft EXCEPT ![s] = e]
  BY <1>2, WrapSame DEF Read
<1>4. /\ OnlyTouches(s) /\ sft'[s] = e
      /\ host'[sft[s].file] = host[sft[s].file]
  BY <1>1, <1>3, Domains DEF TameInv, OnlyTouches
<1>5. /\ e.file = sft[s].file /\ e.alone = sft[s].alone /\ e.f_pos = end
      /\ e.f_time = sft[s].f_time /\ e.time_set = sft[s].time_set
  BY <1>1 DEF Entry
<1>6. UNCHANGED <<seenSize, seenTime, seenOpen, seenAlone, seenPending>>
  BY <1>1, <1>4, <1>5, SeenSame DEF HostSize
<1>. HIDE DEF end, e
<1>7. seenPos' = [seenPos EXCEPT ![s] = end]
  BY <1>1, <1>4, <1>5, SeenStep
<1>. QED
  BY <1>1, <1>6, <1>7, Seen DEF Promise!Read, end

LEMMA WriteRefines ==
  ASSUME Tame, TameInv, NEW s \in Sfts, NEW n \in 1 .. MaxBytes, Write(s, n)
  PROVE  Promise!Write(s)
<1>. DEFINE end == sft[s].f_pos + n
            longer == IF HostSize(s) < end THEN end ELSE HostSize(s)
            e == [sft[s] EXCEPT !.time_set = FALSE, !.f_pos = end,
                                !.f_size = IF @ < end THEN end ELSE @]
<1>1. /\ IsOpen(s) /\ sft[s] \in Entry /\ sft[s].file \in Files
      /\ Wrap(end) = end
  BY TameSize, WriteEnd DEF Write
<1>2. sft' = [sft EXCEPT ![s] = e]
  BY <1>1 DEF Write
<1>3. /\ OnlyTouches(s) /\ sft'[s] = e
      /\ host'[sft[s].file] = [size |-> longer, time |-> Now]
  BY <1>1, <1>2, Domains DEF Write, SetHost, TameInv, OnlyTouches
<1>4. /\ e.file = sft[s].file /\ e.alone = sft[s].alone /\ e.f_pos = end
      /\ e.time_set = FALSE
  BY <1>1 DEF Entry
<1>5. UNCHANGED <<seenOpen, seenAlone>>
  BY <1>1, <1>3, <1>4, SeenSame
<1>. HIDE DEF longer, e
<1>6. /\ seenPos' = [seenPos EXCEPT ![s] = end]
      /\ seenPending' = [seenPending EXCEPT ![s] = NIL]
      /\ seenSize' = [seenSize EXCEPT ![sft[s].file] = longer]
      /\ seenTime' = [seenTime EXCEPT ![sft[s].file] = Now]
  BY <1>1, <1>3, <1>4, SeenStep
<1>. QED
  BY <1>1, <1>5, <1>6, Seen DEF Promise!Write, longer

LEMMA TruncateRefines ==
  ASSUME Tame, TameInv, NEW s \in Sfts, Truncate(s)
  PROVE  Promise!Truncate(s)
<1>. DEFINE e == [sft[s] EXCEPT !.time_set = FALSE, !.f_size = sft[s].f_pos]
<1>1. IsOpen(s) /\ sft[s] \in Entry /\ sft[s].file \in Files
  BY TameSize DEF Truncate
<1>2. /\ OnlyTouches(s) /\ sft'[s] = e
      /\ host'[sft[s].file] = [size |-> sft[s].f_pos, time |-> Now]
  BY <1>1, Domains DEF Truncate, SetHost, TameInv, OnlyTouches
<1>3. /\ e.file = sft[s].file /\ e.alone = sft[s].alone
      /\ e.f_pos = sft[s].f_pos /\ e.time_set = FALSE
  BY <1>1 DEF Entry
<1>. HIDE DEF e
<1>4. UNCHANGED <<seenOpen, seenAlone, seenPos>>
  BY <1>1, <1>2, <1>3, SeenSame
<1>5. /\ seenPending' = [seenPending EXCEPT ![s] = NIL]
      /\ seenSize' = [seenSize EXCEPT ![sft[s].file] = sft[s].f_pos]
      /\ seenTime' = [seenTime EXCEPT ![sft[s].file] = Now]
  BY <1>1, <1>2, <1>3, SeenStep
<1>. QED
  BY <1>1, <1>4, <1>5, Seen DEF Promise!Truncate

LEMMA WriteRefusedRefines ==
  ASSUME Tame, TameInv, NEW s \in Sfts, WriteRefused(s)
  PROVE  Promise!WriteRefused(s)
<1>. DEFINE e == [sft[s] EXCEPT !.time_set = FALSE]
<1>1. IsOpen(s) /\ sft[s] \in Entry /\ sft[s].file \in Files
  BY TameSize DEF WriteRefused
<1>2. /\ OnlyTouches(s) /\ sft'[s] = e
      /\ host'[sft[s].file] = host[sft[s].file]
  BY <1>1, Domains DEF WriteRefused, TameInv, OnlyTouches
<1>3. /\ e.file = sft[s].file /\ e.alone = sft[s].alone
      /\ e.f_pos = sft[s].f_pos /\ e.time_set = FALSE
  BY <1>1 DEF Entry
<1>. HIDE DEF e
<1>4. UNCHANGED <<seenOpen, seenAlone, seenPos, seenSize, seenTime>>
  BY <1>1, <1>2, <1>3, SeenSame DEF HostSize
<1>5. seenPending' = [seenPending EXCEPT ![s] = NIL]
  BY <1>1, <1>2, <1>3, SeenStep
<1>. QED
  BY <1>1, <1>4, <1>5, Seen DEF Promise!WriteRefused, WriteRefused

\* Moving the position of s to p and changing nothing else that is seen.
LEMMA MoveRefines ==
  ASSUME TameInv, NEW s \in Sfts, IsOpen(s), NEW p \in Int, NEW n \in Int,
         UNCHANGED host,
         sft' = [sft EXCEPT ![s] = [sft[s] EXCEPT !.f_pos = p, !.f_size = n]]
  PROVE  /\ UNCHANGED <<seenOpen, seenAlone, seenPending, seenSize, seenTime>>
         /\ seenPos' = [seenPos EXCEPT ![s] = p]
<1>. DEFINE e == [sft[s] EXCEPT !.f_pos = p, !.f_size = n]
<1>1. sft[s] \in Entry /\ sft[s].file \in Files
  BY TameSize
<1>2. /\ OnlyTouches(s) /\ sft'[s] = e
      /\ host'[sft[s].file] = host[sft[s].file]
  BY <1>1, Domains DEF TameInv, OnlyTouches
<1>3. /\ e.file = sft[s].file /\ e.alone = sft[s].alone /\ e.f_pos = p
      /\ e.f_time = sft[s].f_time /\ e.time_set = sft[s].time_set
  BY <1>1 DEF Entry
<1>. HIDE DEF e
<1>4. UNCHANGED <<seenOpen, seenAlone, seenPending, seenSize, seenTime>>
  BY <1>1, <1>2, <1>3, SeenSame DEF HostSize
<1>5. seenPos' = [seenPos EXCEPT ![s] = p]
  BY <1>1, <1>2, <1>3, SeenStep
<1>. QED BY <1>4, <1>5

LEMMA SeekRefines ==
  ASSUME Tame, TameInv, NEW s \in Sfts, NEW p \in Positions, Seek(s, p)
  PROVE  Promise!Seek(s)
<1>1. /\ IsOpen(s) /\ sft[s] \in Entry /\ sft[s].file \in Files
      /\ p \in Int /\ sft[s].f_size \in Int
  BY TameSize, SftIoAssumption DEF Seek, Entry
<1>2. [sft[s] EXCEPT !.f_pos = p]
        = [sft[s] EXCEPT !.f_pos = p, !.f_size = sft[s].f_size]
  BY <1>1 DEF Entry
<1>3. /\ UNCHANGED <<seenOpen, seenAlone, seenPending, seenSize, seenTime>>
      /\ seenPos' = [seenPos EXCEPT ![s] = p]
  BY <1>1, <1>2, MoveRefines DEF Seek
<1>. QED BY <1>1, <1>3, Seen DEF Promise!Seek

LEMMA SeekEndCachedRefines ==
  ASSUME Tame, TameInv, NEW s \in Sfts, NEW k \in Offsets,
         SeekEndCached(s, k)
  PROVE  Promise!SeekEnd(s)
<1>. DEFINE p == sft[s].f_size + k
<1>1. /\ IsOpen(s) /\ sft[s] \in Entry /\ sft[s].file \in Files
      /\ p \in Int /\ p >= 0 /\ sft[s].f_size \in Int
  BY TameSize, SftIoAssumption DEF SeekEndCached, Entry
\* Here the cached size must be the true one.
<1>2. p = HostSize(s) + k
  BY <1>1, TameSize DEF SeekEndCached
<1>3. [sft[s] EXCEPT !.f_pos = p]
        = [sft[s] EXCEPT !.f_pos = p, !.f_size = sft[s].f_size]
  BY <1>1 DEF Entry
<1>4. /\ UNCHANGED <<seenOpen, seenAlone, seenPending, seenSize, seenTime>>
      /\ seenPos' = [seenPos EXCEPT ![s] = p]
  <2>1. /\ UNCHANGED host
        /\ sft' = [sft EXCEPT ![s] =
                     [sft[s] EXCEPT !.f_pos = p, !.f_size = sft[s].f_size]]
    BY <1>3 DEF SeekEndCached
  <2>. HIDE DEF p
  <2>. QED BY <1>1, <2>1, MoveRefines
<1>. QED BY <1>1, <1>2, <1>4, Seen DEF Promise!SeekEnd

LEMMA SeekEndRefines ==
  ASSUME Tame, TameInv, NEW s \in Sfts, NEW k \in Offsets, SeekEnd(s, k)
  PROVE  Promise!SeekEnd(s)
<1>. DEFINE end == HostSize(s) + k
<1>1. /\ IsOpen(s) /\ sft[s] \in Entry /\ sft[s].file \in Files
      /\ HostSize(s) \in Int /\ end \in Int /\ end >= 0 /\ Wrap(end) = end
  <2>1. IsOpen(s)
    BY DEF SeekEnd
  <2>2. end \in 0 .. OffsetLimit - 1 /\ Wrap(end) = end
    BY SeekEndEnd
  <2>. HIDE DEF end
  <2>. QED BY <2>1, <2>2, TameSize, SftIoAssumption
<1>2. CASE k > 0
  <2>. DEFINE e == [sft[s] EXCEPT !.f_pos = end, !.f_size = end]
  <2>1. /\ host' = [host EXCEPT ![sft[s].file] = [size |-> end, time |-> Now]]
        /\ sft' = [sft EXCEPT ![s] = e]
    BY <1>1, <1>2 DEF SeekEnd, SetHost
  <2>2. /\ OnlyTouches(s) /\ sft'[s] = e
        /\ host'[sft[s].file] = [size |-> end, time |-> Now]
    BY <1>1, <2>1, Domains DEF TameInv, OnlyTouches
  <2>3. /\ e.file = sft[s].file /\ e.alone = sft[s].alone /\ e.f_pos = end
        /\ e.f_time = sft[s].f_time /\ e.time_set = sft[s].time_set
    BY <1>1 DEF Entry
  <2>. HIDE DEF e
  <2>4. UNCHANGED <<seenOpen, seenAlone, seenPending>>
    BY <1>1, <2>2, <2>3, SeenSame
  <2>5. /\ seenPos' = [seenPos EXCEPT ![s] = end]
        /\ seenSize' = [seenSize EXCEPT ![sft[s].file] = end]
        /\ seenTime' = [seenTime EXCEPT ![sft[s].file] = Now]
    BY <1>1, <2>2, <2>3, SeenStep
  <2>. QED BY <1>1, <1>2, <2>4, <2>5, Seen DEF Promise!SeekEnd
<1>3. CASE ~(k > 0)
  <2>1. /\ UNCHANGED host
        /\ sft' = [sft EXCEPT ![s] =
                     [sft[s] EXCEPT !.f_pos = end, !.f_size = HostSize(s)]]
    BY <1>1, <1>3 DEF SeekEnd
  <2>2. /\ UNCHANGED <<seenOpen, seenAlone, seenPending, seenSize, seenTime>>
        /\ seenPos' = [seenPos EXCEPT ![s] = end]
    <3>. HIDE DEF end
    <3>. QED BY <1>1, <2>1, MoveRefines
  <2>. QED BY <1>1, <2>2, Seen DEF Promise!SeekEnd
<1>. QED BY <1>2, <1>3

\* A seek that fails corrects the cached size, which nobody sees.
LEMMA SeekEndRefusedRefines ==
  ASSUME Tame, TameInv, NEW s \in Sfts, NEW k \in Offsets,
         SeekEndRefused(s, k)
  PROVE  UNCHANGED Promise!vars
<1>. DEFINE e == [sft[s] EXCEPT !.f_size = HostSize(s)]
<1>1. IsOpen(s) /\ sft[s] \in Entry /\ sft[s].file \in Files
  BY TameSize DEF SeekEndRefused
<1>2. /\ OnlyTouches(s) /\ sft'[s] = e
      /\ host'[sft[s].file] = host[sft[s].file]
  BY <1>1, Domains DEF SeekEndRefused, TameInv, OnlyTouches
<1>3. /\ e.file = sft[s].file /\ e.alone = sft[s].alone
      /\ e.f_pos = sft[s].f_pos
      /\ e.f_time = sft[s].f_time /\ e.time_set = sft[s].time_set
  BY <1>1 DEF Entry
<1>. HIDE DEF e
<1>. QED
  BY <1>1, <1>2, <1>3, SeenSame DEF Promise!vars, HostSize

LEMMA SetTimeRefines ==
  ASSUME Tame, TameInv, NEW s \in Sfts, NEW t \in Times, SetTime(s, t)
  PROVE  Promise!SetTime(s)
<1>. DEFINE e == [sft[s] EXCEPT !.f_time = t, !.time_set = TRUE]
<1>1. IsOpen(s) /\ sft[s] \in Entry /\ sft[s].file \in Files
  BY TameSize DEF SetTime
<1>2. /\ OnlyTouches(s) /\ sft'[s] = e
      /\ host'[sft[s].file] = host[sft[s].file]
  BY <1>1, Domains DEF SetTime, TameInv, OnlyTouches
<1>3. /\ e.file = sft[s].file /\ e.alone = sft[s].alone
      /\ e.f_pos = sft[s].f_pos /\ e.f_time = t /\ e.time_set = TRUE
  BY <1>1 DEF Entry
<1>. HIDE DEF e
<1>4. UNCHANGED <<seenOpen, seenAlone, seenPos, seenSize, seenTime>>
  BY <1>1, <1>2, <1>3, SeenSame DEF HostSize
<1>5. seenPending' = [seenPending EXCEPT ![s] = t]
  BY <1>1, <1>2, <1>3, SeenStep
<1>. QED
  BY <1>1, <1>4, <1>5, Seen DEF Promise!SetTime

\* A flush stores a date that was set, or the host refused it, or there was
\* none.
LEMMA FlushedOutcome ==
  ASSUME TameInv, NEW s \in Sfts, IsOpen(s), NEW now \in Flushed(s)
  PROVE  \/ /\ now.sft = sft[s] /\ now.time = host[sft[s].file].time
            /\ ~sft[s].time_set \/ "info" \in HostFaults
         \/ /\ sft[s].time_set /\ now.time = sft[s].f_time
            /\ now.sft.time_set = FALSE
<1>1. sft[s] \in Entry
  BY TameSize
<1>2. CASE ~sft[s].time_set
  BY <1>2 DEF Flushed
<1>3. CASE sft[s].time_set
  <2>1. \/ /\ "info" \in HostFaults
           /\ now = [sft |-> sft[s], time |-> host[sft[s].file].time]
        \/ \E n \in {sft[s].f_size, Wrap(HostSize(s))} :
             now = [sft |-> [sft[s] EXCEPT !.time_set = FALSE, !.f_size = n],
                    time |-> sft[s].f_time]
    BY <1>3 DEF Flushed
  <2>2. CASE /\ "info" \in HostFaults
             /\ now = [sft |-> sft[s], time |-> host[sft[s].file].time]
    BY <2>2
  <2>3. CASE \E n \in {sft[s].f_size, Wrap(HostSize(s))} :
               now = [sft |-> [sft[s] EXCEPT !.time_set = FALSE, !.f_size = n],
                      time |-> sft[s].f_time]
    <3>0. PICK n : now = [sft |-> [sft[s] EXCEPT !.time_set = FALSE,
                                                 !.f_size = n],
                          time |-> sft[s].f_time]
      BY <2>3
    <3>1. now.time = sft[s].f_time
      BY <3>0
    <3>2. now.sft = [sft[s] EXCEPT !.time_set = FALSE, !.f_size = n]
      BY <3>0
    <3>3. now.sft.time_set = FALSE
      BY <1>1, <3>2 DEF Entry
    <3>. QED BY <1>3, <3>1, <3>3
  <2>. QED BY <2>1, <2>2, <2>3
<1>. QED BY <1>2, <1>3

LEMMA CommitRefines ==
  ASSUME Tame, TameInv, NEW s \in Sfts, Commit(s)
  PROVE  Promise!Flush(s) \/ UNCHANGED Promise!vars
<1>1. IsOpen(s) /\ sft[s] \in Entry /\ sft[s].file \in Files
  BY TameSize DEF Commit
<1>2. PICK now \in Flushed(s) :
        /\ SetHost(sft[s].file, HostSize(s), now.time)
        /\ sft' = [sft EXCEPT ![s] = now.sft]
  BY DEF Commit
<1>3. /\ OnlyTouches(s) /\ sft'[s] = now.sft
      /\ host'[sft[s].file] = [size |-> HostSize(s), time |-> now.time]
  BY <1>1, <1>2, Domains DEF SetHost, TameInv, OnlyTouches
<1>4. /\ now.sft.file = sft[s].file /\ now.sft.alone = sft[s].alone
      /\ now.sft.f_pos = sft[s].f_pos
  BY <1>1, FlushedKeeps DEF TameInv
<1>5. UNCHANGED <<seenOpen, seenAlone, seenPos, seenSize>>
  BY <1>1, <1>3, <1>4, SeenSame
<1>6. CASE now.sft = sft[s] /\ now.time = host[sft[s].file].time
  <2>1. UNCHANGED <<seenPending, seenTime>>
    BY <1>1, <1>3, <1>4, <1>6, SeenSame
  <2>. QED BY <1>5, <2>1 DEF Promise!vars
<1>7. CASE /\ sft[s].time_set /\ now.time = sft[s].f_time
           /\ now.sft.time_set = FALSE
  <2>1. /\ seenPending' = [seenPending EXCEPT ![s] = NIL]
        /\ seenTime' = [seenTime EXCEPT ![sft[s].file] = sft[s].f_time]
    BY <1>1, <1>3, <1>4, <1>7, SeenStep
  <2>2. seenPending[s] = sft[s].f_time /\ seenPending[s] # NIL
    BY <1>1, <1>7, Seen, SftIoAssumption DEF Entry
  <2>. QED BY <1>1, <1>5, <2>1, <2>2, Seen DEF Promise!Flush
<1>. QED BY <1>1, <1>2, <1>6, <1>7, FlushedOutcome

LEMMA CloseRefines ==
  ASSUME Tame, TameInv, NEW s \in Sfts, Close(s)
  PROVE  Promise!Close(s)
<1>1. IsOpen(s) /\ sft[s] \in Entry /\ sft[s].file \in Files
  BY TameSize DEF Close
<1>2. PICK now \in Flushed(s) :
        /\ SetHost(sft[s].file, HostSize(s), now.time)
        /\ sft' = [sft EXCEPT ![s] = [now.sft EXCEPT !.file = NIL]]
  BY DEF Close
<1>3. now.sft \in Entry
  BY <1>1, FlushedKeeps DEF TameInv
<1>4. /\ OnlyTouches(s) /\ sft'[s].file = NIL
      /\ host'[sft[s].file] = [size |-> HostSize(s), time |-> now.time]
  BY <1>1, <1>2, <1>3, Domains DEF SetHost, TameInv, OnlyTouches, Entry
<1>5. /\ seenOpen' = [seenOpen EXCEPT ![s] = NIL]
      /\ seenAlone' = [seenAlone EXCEPT ![s] = FALSE]
      /\ seenPos' = [seenPos EXCEPT ![s] = 0]
      /\ seenPending' = [seenPending EXCEPT ![s] = NIL]
  BY <1>4 DEF seenOpen, seenAlone, seenPos, seenPending, OnlyTouches, IsOpen
<1>6. UNCHANGED seenSize
  BY <1>1, <1>4 DEF seenSize, OnlyTouches, HostSize
<1>7. \/ seenPending[s] = NIL /\ UNCHANGED seenTime
      \/ /\ seenPending[s] # NIL
         /\ seenTime' = [seenTime EXCEPT ![sft[s].file] = seenPending[s]]
      \/ "info" \in HostFaults /\ UNCHANGED seenTime
  <2>1. CASE /\ now.time = host[sft[s].file].time
             /\ ~sft[s].time_set \/ "info" \in HostFaults
    <3>1. UNCHANGED seenTime
      BY <1>1, <1>4, <2>1 DEF seenTime, OnlyTouches
    <3>. QED BY <1>1, <2>1, <3>1, Seen
  <2>2. CASE sft[s].time_set /\ now.time = sft[s].f_time
    <3>1. seenPending[s] = sft[s].f_time /\ seenPending[s] # NIL
      BY <1>1, <2>2, Seen, SftIoAssumption DEF Entry
    <3>2. \A g \in Files : host'[g].time =
            IF g = sft[s].file THEN sft[s].f_time ELSE host[g].time
      BY <1>1, <1>4, <2>2 DEF OnlyTouches
    <3>3. seenTime' = [seenTime EXCEPT ![sft[s].file] = sft[s].f_time]
      BY <3>2 DEF seenTime
    <3>. QED BY <3>1, <3>3
  <2>. QED BY <1>1, <2>1, <2>2, FlushedOutcome
<1>. QED BY <1>1, <1>5, <1>6, <1>7, Seen DEF Promise!Close

LEMMA OpenRefines ==
  ASSUME Tame, TameInv, NEW s \in Sfts, NEW f \in Files,
         NEW alone \in BOOLEAN, NEW replace \in BOOLEAN,
         Open(s, f, alone, replace)
  PROVE  Promise!Open(s)
<1>1. /\ ~IsOpen(s) /\ host \in [Files -> File] /\ sft \in [Sfts -> Entry]
      /\ f # NIL
  BY Domains, SftIoAssumption DEF Open, TameInv
<1>2. /\ \A t \in Sfts \ {s} : sft'[t] = sft[t]
      /\ sft'[s].file = f /\ sft'[s].alone = alone
      /\ sft'[s].f_pos = 0 /\ sft'[s].time_set = FALSE
  BY <1>1 DEF Open
<1>3. /\ seenOpen' = [seenOpen EXCEPT ![s] = f]
      /\ seenAlone' = [seenAlone EXCEPT ![s] = alone]
      /\ UNCHANGED <<seenPos, seenPending>>
  BY <1>1, <1>2 DEF seenOpen, seenAlone, seenPos, seenPending, IsOpen
<1>4. \/ UNCHANGED <<seenSize, seenTime>>
      \/ /\ seenSize' = [seenSize EXCEPT ![f] = 0]
         /\ seenTime' = [seenTime EXCEPT ![f] = Now]
  <2>1. CASE replace
    <3>1. host' = [host EXCEPT ![f] = [size |-> 0, time |-> Now]]
      BY <2>1 DEF Open, SetHost
    <3>. QED BY <1>1, <3>1 DEF seenSize, seenTime
  <2>2. CASE ~replace
    BY <2>2 DEF Open, seenSize, seenTime
  <2>. QED BY <2>1, <2>2
<1>5. ~Promise!IsOpen(s)
  BY <1>1 DEF Promise!IsOpen, seenOpen, IsOpen
<1>. QED BY <1>3, <1>4, <1>5 DEF Promise!Open

LEMMA ElsewhereRefines ==
  ASSUME Tame, TameInv, NEW f \in Files, NEW n \in HostSizes, Elsewhere(f, n)
  PROVE  Promise!Elsewhere(f)
<1>1. /\ host \in [Files -> File] /\ n \in Nat /\ UNCHANGED sft
      /\ host' = [host EXCEPT ![f] = [size |-> n, time |-> Now]]
  BY Domains, SftIoAssumption DEF Elsewhere, SetHost, TameInv
<1>2. UNCHANGED <<seenOpen, seenAlone, seenPos, seenPending>>
  BY <1>1 DEF seenOpen, seenAlone, seenPos, seenPending, IsOpen
<1>3. /\ seenSize' = [seenSize EXCEPT ![f] = n] /\ seenSize'[f] = n
      /\ seenTime' = [seenTime EXCEPT ![f] = Now]
  BY <1>1 DEF seenSize, seenTime
<1>4. \A s \in Sfts : seenOpen[s] = f => ~seenAlone[s]
  BY DEF Elsewhere, MayShare, Tame, seenOpen, seenAlone
<1>. QED BY <1>1, <1>2, <1>3, <1>4 DEF Promise!Elsewhere

LEMMA SftRefines ==
  ASSUME Tame, TameInv, NEW s \in Sfts, SftNext(s)
  PROVE  [Promise!Next]_(Promise!vars)
<1>. USE DEF Promise!Next
<1>1. ASSUME NEW f \in Files, NEW alone \in BOOLEAN, NEW replace \in BOOLEAN,
             Open(s, f, alone, replace)
      PROVE  Promise!Next
  BY <1>1, OpenRefines
<1>2. ASSUME NEW n \in 1 .. MaxBytes, Read(s, n) \/ Write(s, n)
      PROVE  Promise!Next
  BY <1>2, ReadRefines, WriteRefines
<1>3. ASSUME Truncate(s) \/ WriteRefused(s) PROVE Promise!Next
  BY <1>3, TruncateRefines, WriteRefusedRefines
<1>4. ASSUME NEW p \in Positions, Seek(s, p) PROVE Promise!Next
  BY <1>4, SeekRefines
<1>5. ASSUME NEW k \in Offsets, SeekEndCached(s, k) \/ SeekEnd(s, k)
      PROVE  Promise!Next
  BY <1>5, SeekEndCachedRefines, SeekEndRefines
<1>6. ASSUME NEW k \in Offsets, SeekEndRefused(s, k)
      PROVE  UNCHANGED Promise!vars
  BY <1>6, SeekEndRefusedRefines
<1>7. ASSUME NEW t \in Times, SetTime(s, t) PROVE Promise!Next
  BY <1>7, SetTimeRefines
<1>8. ASSUME Commit(s) PROVE Promise!Next \/ UNCHANGED Promise!vars
  BY <1>8, CommitRefines
<1>9. ASSUME Close(s) PROVE Promise!Next
  BY <1>9, CloseRefines
<1>. HIDE DEF Promise!Next
<1>. QED
  BY <1>1, <1>2, <1>3, <1>4, <1>5, <1>6, <1>7, <1>8, <1>9 DEF SftNext

\* With tame programs the redirector implements DosFile: no copy of a size or
\* a date in an SFT is ever seen to differ from the file.
THEOREM Refinement == ASSUME Tame PROVE Spec => KeepsPromise
<1>1. ASSUME Tame, Init PROVE Promise!Init
  <2>1. \A s \in Sfts : sft[s].file = NIL
    BY <1>1 DEF Init
  <2>2. seenSize \in [Files -> Nat] /\ seenTime = [f \in Files |-> Now]
    BY <1>1, SftIoAssumption DEF Init, seenSize, seenTime
  <2>. QED
    BY <2>1, <2>2
    DEF Promise!Init, seenOpen, seenAlone, seenPos, seenPending, IsOpen
<1>2. ASSUME Tame, TameInv, [Next]_vars PROVE [Promise!Next]_(Promise!vars)
  <2>1. ASSUME NEW s \in Sfts, SftNext(s) PROVE [Promise!Next]_(Promise!vars)
    BY <1>2, <2>1, SftRefines
  <2>2. ASSUME NEW f \in Files, NEW n \in HostSizes, Elsewhere(f, n)
        PROVE  Promise!Next
    BY <1>2, <2>2, ElsewhereRefines DEF Promise!Next
  <2>3. ASSUME UNCHANGED vars PROVE UNCHANGED Promise!vars
    BY <2>3 DEF vars, Promise!vars, seenSize, seenTime, seenOpen, seenAlone,
                seenPos, seenPending, IsOpen
  <2>. QED BY <1>2, <2>1, <2>2, <2>3 DEF Next
<1>. QED
  BY <1>1, <1>2, TameInvariance, PTL DEF Spec, KeepsPromise, Promise!Spec
=============================================================================
