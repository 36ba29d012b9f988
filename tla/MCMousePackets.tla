--------------------------- MODULE MCMousePackets ---------------------------
(* Small instances of MousePackets for TLC.                                *)
EXTENDS MousePackets
=============================================================================
