--------------------------- MODULE MCMouseCursor ---------------------------
(* Small instances of MouseCursor for TLC.                                 *)
EXTENDS MouseCursor

NoHabits == {}
=============================================================================
