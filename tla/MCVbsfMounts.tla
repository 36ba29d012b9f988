--------------------------- MODULE MCVbsfMounts ---------------------------
(* Small instances of VbsfMounts for TLC.                                  *)
EXTENDS VbsfMounts

\* A: exists, B: and C: are free, D: is after LASTDRIVE.
Floppy == {0}

\* Folder 1 has no mount point; 2 wants B:, 3 wants C:, 4 is not automounted
\* and wants D:.
Folders == 11 .. 14
Listed == 11 .. 13
SomePoints == [r \in Folders |-> IF r = 11 THEN 99 ELSE r - 11]
=============================================================================
