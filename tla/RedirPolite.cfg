SPECIFICATION Spec
CONSTANTS
  NumFiles = 3
  INVALID_OPENFILE = 65535
  Drives = {X, Y}
  Roots = {r1, r2}
  Handles = {h1, h2, h3}
  NIL = NIL
  Sfts = {s1, s2}
  Blocks = {p1, p2}
  MaxRefs = 2
  HostFaults <- Unmaps
  Habits <- NoHabits
SYMMETRY Symmetry
INVARIANTS FilesKeepTheirSlots SearchesKeepTheirSlots NoLostHandles
  NoAbandonedSlots
