---------------------------- MODULE MCWinMouse ----------------------------
(* A small word, so that counts and squares wrap around; the other numbers *)
(* are in proportion.  The one window of other programs is all of a word,  *)
(* so that the position wraps around in it; of their speeds one is         *)
(* negative and one makes the division fault.  The other axis always moves *)
(* a little (Across).                                                      *)
EXTENDS WinMouse, TLC

Graphics == [max |-> 3, grid |-> 1]
Text == [max |-> 2, grid |-> 2]
TwoScreens == {Graphics, Text}
SomeMoves == {-2, 0, 1}
SomeSpeeds == {-2, 0}
SomeWindows == {<<-18, 17>>}

Symmetry == Permutations(Procs)
=============================================================================
