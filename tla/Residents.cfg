SPECIFICATION Spec
CONSTANTS
  Low = {l1, l2, l3}
  High = {h1, h2}
  VBSF = VBSF
  VBMOUSE = VBMOUSE
  Others = {o1, o2}
  Opaque = {o2}
  INT2F = INT2F
  INT33 = INT33
  BIOS = BIOS
  FREE = FREE
  FAULT = FAULT
SYMMETRY Symmetry
INVARIANTS MemoryIsItsOwn ChainsAreWhole NothingIsLeaked OneOfEach
