SPECIFICATION Spec
CONSTANTS
  Positions = {0, 1, 2}
  Home = 0
  Clipped = {2}
  OLD = 9
  MaxCount = 2
  HasVBox = TRUE
  Habits <- NoHabits
INVARIANTS ScreenIsRestored PointerIsKnown

