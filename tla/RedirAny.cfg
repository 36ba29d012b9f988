SPECIFICATION Spec
CONSTANTS
  NumFiles = 2
  INVALID_OPENFILE = 65535
  Drives = {X, Y}
  Roots = {r1, r2}
  Handles = {h1, h2}
  NIL = NIL
  Sfts = {s1}
  Blocks = {p1, p2}
  MaxRefs = 2
  HostFaults <- AllFaults
  Habits <- AllHabits
SYMMETRY Symmetry
INVARIANT SlotsHoldDistinctHandles
