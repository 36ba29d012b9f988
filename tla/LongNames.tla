----------------------------- MODULE LongNames -----------------------------
(***************************************************************************)
(* How VBSF gives the files of a shared folder DOS names, and how it finds *)
(* a file by such a name (lfn.h, sftsr.c).  A host name that is no valid   *)
(* 8.3 name is shown mangled: the beginning of the name, a tilde and a     *)
(* hash.  Nothing is remembered: to follow a DOS path, each component with *)
(* a tilde is compared with all names of its directory, mangled in turn.   *)
(*                                                                         *)
(* This is the way of hashes, which VBSF uses when the host has no short   *)
(* names of its own (data.short_fnames is off).  The characters of a name  *)
(* are left out: Mangled says what mangle_to_8_3_filename makes of each.   *)
(* A path is a sequence of names that fits in the buffers of 256 bytes.    *)
(* The handlers run one at a time, so each is one step; those that only    *)
(* look a path up (open, attributes, chdir) are the operator HostPath, and *)
(* a search is Found.  A call that the host refuses changes nothing.       *)
(***************************************************************************)
EXTENDS Integers, FiniteSets, SequencesExt

CONSTANTS
  Names,       \* host names
  Fits,        \* those that are valid 8.3 names, and so may be DOS names
  Tildes,      \* those of them that have a tilde
  Mangled,     \* the mangled form of each host name
  Order,       \* the place of each name in the lists of the host
  Begins,      \* pairs of a name and a tilde name, alike up to the tilde
  ANY,         \* the search mask for all files
  MaxDepth,    \* bound: components of a path
  MaxEntries,  \* bound: files and directories in the folder
  TildeDirs    \* the host may have directories with names in Tildes

ASSUME LongNamesAssumption ==
  /\ Fits \subseteq Names /\ Tildes \subseteq Fits /\ ANY \notin Names
  /\ Mangled \in [Names -> Tildes]
  /\ Order \in [Names -> Nat]
  /\ \A m, n \in Names : Order[m] = Order[n] => m = n
  /\ Begins \subseteq Names \X Tildes
  /\ MaxDepth \in Nat \ {0} /\ MaxEntries \in Nat
  /\ TildeDirs \in BOOLEAN

VARIABLES
  files,  \* host paths of the files
  dirs,   \* host paths of the directories, with <<>> for the folder itself
  named   \* history: the DOS path that the last call gave to something new,
          \* and the host path of that; both <<>> after other changes

namesvars == <<files, dirs, named>>

Tree == files \cup dirs

Paths(S) == UNION {[1 .. n -> S] : n \in 1 .. MaxDepth}
DosPaths == Paths(Fits)

NamesTypeOK ==
  /\ files \subseteq Paths(Names) /\ dirs \subseteq Paths(Names) \cup {<<>>}
  /\ files \cap dirs = {} /\ <<>> \in dirs
  /\ \A h \in Tree \ {<<>>} : Front(h) \in dirs
  /\ named \in [dos : DosPaths \cup {<<>>}, host : Paths(Names) \cup {<<>>}]

NamesInit ==
  /\ files = {} /\ dirs = {<<>>}
  /\ named = [dos |-> <<>>, host |-> <<>>]

Entries(d) == {n \in Names : Append(d, n) \in Tree}

-----------------------------------------------------------------------------
(* Names *)

\* The DOS name that a search shows.
Short(n) == IF n \in Fits THEN n ELSE Mangled[n]

Shown(h) == [i \in DOMAIN h |-> Short(h[i])]

\* The host name n, mangled, is the DOS name s.
Alike(n, s) == Mangled[n] = s

\* Mutant: only the first entry of the directory is compared.
FindRealNameMutant(d, s) ==
  LET first == {n \in Entries(d) : \A m \in Entries(d) : Order[n] <= Order[m]}
      alike == {n \in first : Alike(n, s)}
  IN  IF d \in dirs /\ alike # {} THEN CHOOSE n \in alike : TRUE ELSE s

\* find_real_name: the first entry of directory d whose mangled name is s; if
\* there is none, or no such directory, s itself.  Valid names are mangled too.
FindRealName(d, s) ==
  LET alike == {n \in Entries(d) : Alike(n, s)}
  IN  IF d \in dirs /\ alike # {}
        THEN CHOOSE n \in alike : \A m \in alike : Order[n] <= Order[m]
        ELSE s

\* find_real_name has looked up what has a tilde; other names stay.
RealName(d, s) == IF s \in Tildes THEN FindRealName(d, s) ELSE s

\* get_true_host_name_n: each component with a tilde is looked up in the
\* directory that those before it lead to.
HostPath(p) ==
  LET to[n \in 0 .. Len(p)] ==
        IF n = 0 THEN <<>>
        ELSE LET d == to[n - 1] IN Append(d, RealName(d, p[n]))
  IN  to[Len(p)]

\* vbox_shfl_list of the host path r in which ANY or, from fix_wildcards, a part
\* cut at its first tilde stands for several names.
Listed(r) ==
  LET tilde == {i \in DOMAIN r : r[i] \in Tildes}
      last == IF tilde = {} THEN Len(r)
              ELSE CHOOSE i \in tilde : \A j \in tilde : i <= j
      Matches(n) == \/ r[last] = ANY
                    \/ r[last] = n
                    \/ <<n, r[last]>> \in Begins
  IN  {n \in Entries(SubSeq(r, 1, last - 1)) : Matches(n)}

\* Mutant: what the host lists is not compared with the mask.
FoundMutant(p) ==
  IF HostPath(Front(p)) \in dirs THEN Listed(HostPath(p)) ELSE {}

\* What FindFirst and FindNext show of a directory for a name or ANY.
Found(p) ==
  IF HostPath(Front(p)) \in dirs
    THEN {n \in Listed(HostPath(p)) : Last(p) \in {ANY, Short(n)}}
    ELSE {}

\* handle_rename has its second name put together in shfldirinfo, where
\* find_real_name puts the entries that it compares: what was there of the path
\* is lost, and the copy of an entry may run over itself.
Overwritten(p) ==
  \E i \in DOMAIN p :
    LET d == HostPath(SubSeq(p, 1, i - 1))
    IN  p[i] \in Tildes /\ d \in dirs /\ Entries(d) # {}

-----------------------------------------------------------------------------
(* The redirector *)

Room == Cardinality(Tree) <= MaxEntries
New(h) == h \notin Tree /\ Front(h) \in dirs
MayBeDir(h) == Len(h) < MaxDepth /\ (TildeDirs \/ Last(h) \notin Tildes)
Call(p, h) == named' = [dos |-> p, host |-> h]
NoName == Call(<<>>, <<>>)

\* Mutant: only the directory is looked up.
CreateMutant(p) ==
  LET h == Append(HostPath(Front(p)), Last(p))
  IN  /\ New(h) /\ Room
      /\ files' = files \cup {h}
      /\ Call(p, h) /\ UNCHANGED dirs

\* handle_create_open_ex, when it makes a new file.
Create(p) ==
  LET h == HostPath(p)
  IN  /\ New(h) /\ Room
      /\ files' = files \cup {h}
      /\ Call(p, h) /\ UNCHANGED dirs

MkDir(p) ==
  LET h == HostPath(p)
  IN  /\ New(h) /\ Room /\ MayBeDir(h)
      /\ dirs' = dirs \cup {h}
      /\ Call(p, h) /\ UNCHANGED files

Delete(p) ==
  /\ HostPath(p) \in files
  /\ files' = files \ {HostPath(p)}
  /\ NoName /\ UNCHANGED dirs

RmDir(p) ==
  /\ HostPath(p) \in dirs /\ Entries(HostPath(p)) = {}
  /\ dirs' = dirs \ {HostPath(p)}
  /\ NoName /\ UNCHANGED files

\* When the second name was overwritten the host refuses it, at best.
Rename(p, q) ==
  LET from == HostPath(p)
      to == HostPath(q)
      Moved(h) == IF IsPrefix(from, h)
                    THEN to \o SubSeq(h, Len(from) + 1, Len(h)) ELSE h
  IN  /\ ~Overwritten(q)
      /\ from \in Tree /\ New(to) /\ ~IsPrefix(from, to)
      /\ from \in dirs => MayBeDir(to)
      /\ \A h \in Tree : Len(Moved(h)) <= MaxDepth
      /\ files' = {Moved(h) : h \in files}
      /\ dirs' = {Moved(h) : h \in dirs}
      /\ Call(q, to)

-----------------------------------------------------------------------------
(* The user of the host *)

HostMakes(h) ==
  /\ New(h) /\ Room
  /\ \/ files' = files \cup {h} /\ UNCHANGED dirs
     \/ MayBeDir(h) /\ dirs' = dirs \cup {h} /\ UNCHANGED files
  /\ NoName

HostRemoves(h) ==
  /\ \/ h \in files /\ files' = files \ {h} /\ UNCHANGED dirs
     \/ /\ h \in dirs /\ Entries(h) = {}
        /\ dirs' = dirs \ {h} /\ UNCHANGED files
  /\ NoName

NamesNext ==
  \/ \E p \in DosPaths : Create(p) \/ MkDir(p) \/ Delete(p) \/ RmDir(p)
  \/ \E p, q \in DosPaths : Rename(p, q)
  \/ \E h \in Paths(Names) : HostMakes(h) \/ HostRemoves(h)

NamesSpec == NamesInit /\ [][NamesNext]_namesvars

-----------------------------------------------------------------------------
(* Properties *)

\* Of the entries that look like s, mangled or as they are shown, there is one.
Unambiguous(d, s) ==
  \A m, n \in Entries(d) :
    s \in {Mangled[m], Short(m)} /\ s \in {Mangled[n], Short(n)} => m = n

\* Each file and directory is reached by the DOS path that searches show for
\* it, also when several components are mangled and when a host name looks like
\* a mangled one; only equal hashes lead elsewhere (lfn.h:345-433).
ShownNamesLeadBack ==
  \A h \in Tree \ {<<>>} :
    (\A i \in DOMAIN h : Unambiguous(SubSeq(h, 1, i - 1), Short(h[i])))
      => HostPath(Shown(h)) = h

\* A search for a name finds what a call with that name would act on, if that
\* is shown so, and nothing else, also when several entries look like the name,
\* unless what the call would act on has a tilde itself, at which fix_wildcards
\* cuts the mask; a search for all files shows the directory that was asked for
\* (sftsr.c:1036-1042, 1097-1127).  With TildeDirs the second is false: in such a
\* directory fix_wildcards cuts the path of the directory.
SearchesAreTrue ==
  /\ \A p \in DosPaths :
       \/ Unambiguous(HostPath(Front(p)), Last(p))
       \/ Last(HostPath(p)) \notin Tildes
       => Found(p) = {n \in Names : /\ HostPath(p) \in Tree
                                    /\ Last(HostPath(p)) = n
                                    /\ Short(n) = Last(p)}
  /\ \A d \in DosPaths \cup {<<>>} :
       HostPath(d) \in dirs => Found(Append(d, ANY)) = Entries(HostPath(d))

\* What DOS has just created or renamed is found under the name it was given,
\* and is shown under that name.
NewNamesAreFound ==
  LET p == named.dos
  IN  p # <<>> => /\ HostPath(p) = named.host
                  /\ Short(Last(named.host)) = Last(p)

=============================================================================
