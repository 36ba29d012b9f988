------------------------------ MODULE MCSftIo ------------------------------
(* Small instances of SftIo for TLC.                                       *)
EXTENDS SftIo, TLC

\* SFTs and dates are interchangeable.
Symmetry == Permutations(Sfts) \cup Permutations(Files)

NoHabits == {}
NoFaults == {}
AllFaults == {"info", "write", "size"}
Start == {0}
NearEnd == -1 .. 2
SmallSizes == {0, 2}
=============================================================================
