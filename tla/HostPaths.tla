----------------------------- MODULE HostPaths -----------------------------
(***************************************************************************)
(* How a DOS path becomes the host's path in a buffer of limited size      *)
(* (get_true_host_name_n in lfn.h, local_to_utf8_n in unicode.h): character *)
(* by character in UTF-8, up to three bytes each, and a component that has *)
(* a tilde by the name that find_real_name puts in its place.  On the way  *)
(* separators of the DOS path, which is DOS's own, are overwritten by 0.   *)
(* LongNames has the same function with names as a whole and no bounds.    *)
(*                                                                         *)
(* A character is a model value, and so is each byte that it becomes.  Each *)
(* pass of the loop is a step.                                             *)
(***************************************************************************)
EXTENDS Integers, SequencesExt

CONSTANTS
  Chars,           \* characters of names, and the bytes of those on the host
  Bytes,           \* unicode_table: what each of them is in UTF-8
  SEP, TILDE, NUL, \* '\\', '~' and the end of a string
  Calls,           \* the calls: components, count and buflen
  Lists(_)         \* the names that the host lists of a directory, in order

ASSUME HostPathsAssumption ==
  /\ Bytes \in [Chars -> Seq(Chars) \ {<<>>}]
  /\ {SEP, TILDE, NUL} \cap Chars = {}
  /\ SEP # TILDE /\ SEP # NUL /\ TILDE # NUL
  /\ \A g \in Calls : /\ g.path \in Seq(Seq(Chars \cup {TILDE})) /\ g.path # <<>>
                       /\ g.count \in Nat /\ g.buflen \in Nat \ {0}

VARIABLES
  call,    \* the call
  src,     \* what DOS has in its memory of the path, with the 0 at the end
  s,       \* the place in src up to which it is translated
  dst,     \* the host path so far; Len(dst) is len
  reached, \* how far into the buffer, or out of it, bytes were written
  at       \* "loop", or "done" from return_name on

pathvars == <<call, src, s, dst, reached, at>>

\* The components of a path with their separators
Joined(p) == FlattenSeq([i \in DOMAIN p |-> <<SEP>> \o p[i]])

\* When the count is less than the buffer, the path is cut there.
Cut(t, g) == [i \in DOMAIN t |->
                IF g.count < g.buflen /\ i = g.count + 1 THEN NUL ELSE t[i]]

\* The end is put back.
Uncut(t, g) ==
  [i \in DOMAIN t |->
     IF g.count < g.buflen /\ i = g.count + 1 THEN Append(Joined(g.path), NUL)[i]
     ELSE t[i]]

Called ==
  /\ call \in Calls
  /\ src = Cut(Append(Joined(call.path), NUL), call)
  /\ s = 1 /\ dst = <<>> /\ reached = 0 /\ at = "loop"

-----------------------------------------------------------------------------
(* Strings *)

\* _fstrchr_local: the first c from i on, or else the end
First(t, i, c) ==
  CHOOSE j \in i .. Len(t) :
    t[j] \in {c, NUL} /\ \A k \in i .. j - 1 : t[k] \notin {c, NUL}

\* _fstrrchr_local: the last c from i on and before j, or else i
Latest(t, i, j, c) ==
  LET found == {k \in i .. j - 1 : t[k] = c}
  IN  IF found = {} THEN i ELSE Max(found)

String(t, i) == SubSeq(t, i, First(t, i, NUL) - 1)

Utf8(t) ==
  FlattenSeq([i \in DOMAIN t |-> IF t[i] \in Chars THEN Bytes[t[i]] ELSE <<t[i]>>])

\* Mutant: there is room for a character when there is room for a byte.
ConvertedMutant(t, room) ==
  LET Begin(n) == Utf8(SubSeq(t, 1, n))
      count == Min({Len(t), room})
  IN  IF \A n \in 0 .. count - 1 : Len(Begin(n)) < room
        THEN [text |-> Begin(count), written |-> Len(Begin(count)) + 1]
        ELSE [text |-> <<>>, written |-> room]

\* local_to_utf8, which takes at most as many characters as there is room for
\* bytes: the text without its 0, and how many bytes of the buffer are written.
\* When one of them does not fit there is no text, nor a 0 behind it.
Converted(t, room) ==
  LET Begin(n) == Utf8(SubSeq(t, 1, n))
      count == Min({Len(t), room})
      fits == {n \in 0 .. count : Len(Begin(n)) <= room}
  IN  IF count \in fits
        THEN [text |-> Begin(count), written |-> Len(Begin(count)) + 1]
        ELSE [text |-> <<>>, written |-> Len(Begin(Max(fits)))]

\* find_real_name for the DOS name t in a directory: each name of the list is
\* copied to the buffer until one is t's, or is too long; if none is, t itself,
\* for which two bytes more are asked.
Real(dir, t, room) ==
  LET list == Lists(dir)
      TooLong(i) == Len(list[i].host) > room
      stops == {i \in DOMAIN list : TooLong(i) \/ list[i].dos = t}
      copied == {i \in DOMAIN list : \A j \in stops : i <= j}
      fits == IF stops = {} THEN Len(t) + 2 <= room ELSE ~TooLong(Min(stops))
      name == IF stops = {} THEN t ELSE list[Min(stops)].host
  IN  [name |-> IF fits THEN name ELSE <<>>,
       fits |-> fits,
       written |-> Max({1} \cup {Len(list[i].host) + 1 : i \in {k \in copied : ~TooLong(k)}}
                           \cup (IF fits THEN {Len(name) + 1} ELSE {}))]

-----------------------------------------------------------------------------
(* get_true_host_name_n *)

\* Mutant: the separators stay overwritten.
MendedMutant(t, ps, ns, sep) == [t EXCEPT ![ps] = NUL, ![ns] = NUL]

\* The separators are put back.
Mended(t, ps, ns, sep) == [t EXCEPT ![ps] = SEP, ![ns] = sep]

\* A component with a tilde, and what is before it
Pass ==
  LET tl == First(src, s, TILDE)
      ps == Latest(src, s, tl, SEP)
      ns == First(src, tl, SEP)
      open == [src EXCEPT ![ps] = NUL, ![ns] = NUL]
      before == Converted(String(open, s), call.buflen - Len(dst))
      dir == Append(dst \o before.text, SEP)
      real == Real(dir, String(open, ps + 1), call.buflen - Len(dir))
      sofar == Max({reached, Len(dst) + before.written})
  IN  /\ at = "loop" /\ src[tl] = TILDE
      /\ \/ /\ Len(dir) > call.buflen
            /\ dst' = dst \o before.text /\ reached' = sofar
            /\ src' = Uncut(open, call) /\ at' = "done" /\ UNCHANGED s
         \/ /\ Len(dir) <= call.buflen /\ ~real.fits
            /\ dst' = dir
            /\ reached' = Max({sofar, Len(dir) + real.written})
            /\ src' = Uncut(open, call) /\ at' = "done" /\ UNCHANGED s
         \/ /\ Len(dir) <= call.buflen /\ real.fits
            /\ dst' = dir \o real.name
            /\ reached' = Max({sofar, Len(dir) + real.written})
            /\ src' = Mended(open, ps, ns, src[ns]) /\ s' = ns /\ UNCHANGED at
      /\ UNCHANGED call

\* The rest, when there is no tilde any more
Rest ==
  LET rest == Converted(String(src, s), call.buflen - Len(dst))
  IN  /\ at = "loop" /\ src[First(src, s, TILDE)] = NUL
      /\ dst' = dst \o rest.text
      /\ reached' = Max({reached, Len(dst) + rest.written})
      /\ src' = Uncut(src, call) /\ at' = "done"
      /\ UNCHANGED <<call, s>>

Translate == Pass \/ Rest

Translation == Called /\ [][Translate]_pathvars

-----------------------------------------------------------------------------
(* Properties *)

\* The host's name for the component c of directory d
HostName(d, c) ==
  LET alike == {i \in DOMAIN Lists(d) : Lists(d)[i].dos = c}
  IN  IF ~Contains(c, TILDE) THEN Utf8(c)
      ELSE IF alike = {} THEN c ELSE Lists(d)[Min(alike)].host

\* The host's paths for the first components of p, however many, one after the
\* other
Hosts(p) ==
  LET to[n \in 0 .. Len(p)] ==
        IF n = 0 THEN <<>>
        ELSE LET d == Append(to[n - 1], SEP) IN d \o HostName(d, p[n])
  IN  to

HostOf(p) == Hosts(p)[Len(p)]

\* Each name that is in the way fits behind its directory, with two bytes more
\* for the 0 and for a name that is not there.
RoomEnough(p, room) ==
  \A i \in DOMAIN p :
    LET d == Append(Hosts(p)[i - 1], SEP)
    IN  /\ \A j \in DOMAIN Lists(d) : Len(d) + Len(Lists(d)[j].host) <= room
        /\ Len(d) + Len(Utf8(p[i])) + 2 <= room

\* The components that the count leaves of the path
Wanted(g) ==
  LET whole == {n \in DOMAIN g.path : Len(Joined(SubSeq(g.path, 1, n))) <= g.count}
  IN  IF g.count < g.buflen THEN SubSeq(g.path, 1, Max({0} \cup whole)) ELSE g.path

\* A caller that cuts the path does so before a separator, but leaves the first.
ASSUME CountsAssumption ==
  \A g \in Calls : g.count < g.buflen /\ Wanted(g) # <<>> /\ Wanted(g) # g.path
                   => Len(Joined(Wanted(g))) = g.count

\* A path for which there is room is translated as a whole, however plain and
\* mangled components follow each other, and DOS has its path back as it was,
\* with what follows the directory when only that was asked for
\* (lfn.h:349-434).
PathsAreWhole ==
  at = "done" /\ Wanted(call) # <<>> /\ RoomEnough(Wanted(call), call.buflen)
    => /\ dst = HostOf(Wanted(call))
       /\ src = Append(Joined(call.path), NUL)

\* Whatever does not fit, the length never exceeds the buffer, and all that is
\* ever written behind it is one 0 (unicode.h:56-113, lfn.h:391-414).
BuffersHold == Len(dst) <= call.buflen /\ reached <= call.buflen + 1

=============================================================================
