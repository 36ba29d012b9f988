-------------------------- MODULE MCMouseReports --------------------------
(* Small instances of MouseReports for TLC.                                *)
EXTENDS MouseReports

NoHabits == {}
=============================================================================
