---------------------------- MODULE MCRedirector ----------------------------
(* Small instances of Redirector for TLC.                                  *)
EXTENDS Redirector, TLC

\* Handles, SFTs, search blocks and folders are interchangeable; slots are
\* not, find_free_openfile orders them.
Symmetry ==
  Permutations(Handles) \cup Permutations(Sfts) \cup Permutations(Blocks)
    \cup Permutations(Roots)

NoHabits == {}
Unmaps == {"unmap"}
AllFaults == {"close", "unmap"}
=============================================================================
