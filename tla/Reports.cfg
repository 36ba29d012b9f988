SPECIFICATION Spec
CONSTANTS
  NumButtons = 2
  WHEEL = WHEEL
  MaxCount = 1
  MaxWheel = 1
  Habits <- NoHabits
INVARIANTS ReportsAreDue HandlerKnows
