SPECIFICATION Spec
CONSTANTS
  MaxDelay = 2
  TickLimit = 65536
  ClockStart = 0
  MaxTick = 3
  WheelMouse = TRUE
  SavesInHandler = FALSE
  NIL = NIL
INVARIANT KeepsStep
PROPERTY PacketsAreWhole
CHECK_DEADLOCK FALSE
