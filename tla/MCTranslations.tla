-------------------------- MODULE MCTranslations --------------------------
(* The three translations of VBSF - names, dates and paths - in one model: *)
(* each behaviour is about one of them, and the state of the others rests. *)
EXTENDS MCLongNames, DosTime, HostPaths

VARIABLE part

MCYears == {1970, 1979, 1980, 2000, 2020, 2038, 2099, 2100, 2106}
MCUnits == {0, 34199, 34200, 43199}
MCZones == {-25200, 0, 9000}

\* Characters of one, two and three bytes
MCBytes == [a |-> <<"a">>, e |-> <<"e", "x">>, u |-> <<"u", "x", "y">>,
            x |-> <<"x">>, y |-> <<"y">>]

Components == {<<"a">>, <<"e", "u">>, <<"a", "~">>, <<"x", "~">>}
MCPaths == UNION {[1 .. n -> Components] : n \in 1 .. 3}

\* The buffer is anything from too small to large enough; the count is none, or
\* ends the path before its last component.
MCCalls ==
  LET Parent(p) == Max({1, Len(Joined(Front(p)))})
  IN  {g \in [path : MCPaths, count : 1 .. 15, buflen : 1 .. 14] :
         g.count \in {15, Parent(g.path)}}

\* In each directory that has a listing, a name longer than the one after it
MCLists(d) ==
  IF Len(d) > 1 /\ d[2] = "e" THEN <<>>
  ELSE <<[dos |-> <<"y", "~">>, host |-> <<"y", "y", "y", "y">>],
         [dos |-> <<"a", "~">>, host |-> <<"a", "u">>],
         [dos |-> <<"a", "~">>, host |-> <<"a", "e">>]>>

NoNames == files = {} /\ dirs = {<<>>} /\ named = [dos |-> <<>>, host |-> <<>>]
NoDates == day = 0 /\ date = [year |-> 1970, month |-> 1, day |-> 1]
NoPaths ==
  /\ call = [path |-> <<<<"a">>>>, count |-> 9, buflen |-> 9]
  /\ src = <<>> /\ s = 1 /\ dst = <<>> /\ reached = 0 /\ at = "loop"

MCInit ==
  \/ part = "names" /\ NamesInit /\ NoDates /\ NoPaths
  \/ part = "dates" /\ NewYears /\ NoNames /\ NoPaths
  \/ part = "paths" /\ Called /\ NoNames /\ NoDates

MCNext ==
  /\ UNCHANGED part
  /\ \/ part = "names" /\ NamesNext /\ UNCHANGED <<datevars, pathvars>>
     \/ part = "dates" /\ NextDay /\ UNCHANGED <<namesvars, pathvars>>
     \/ part = "paths" /\ Translate /\ UNCHANGED <<namesvars, datevars>>

MCSpec == MCInit /\ [][MCNext]_<<namesvars, datevars, pathvars, part>>
=============================================================================
