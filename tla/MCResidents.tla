---------------------------- MODULE MCResidents ----------------------------
(* Small instances of Residents for TLC.                                   *)
EXTENDS Residents, TLC

Symmetry == Permutations(Low) \cup Permutations(High)
=============================================================================
