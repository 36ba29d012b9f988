SPECIFICATION WinSpec
CONSTANTS
  Word = 36
  PerLine = 2
  DefaultSpeed = 3
  DefaultThreshold = 4
  Enlarge = 2
  NULL = NULL
  Procs = {p1, p2}
  Screens <- TwoScreens
  Moves <- SomeMoves
  Across = {9}
  Speeds <- SomeSpeeds
  Thresholds = {2}
  Points = {17, 35}
  Positions = {17}
  Windows <- SomeWindows
  MaxPackets = 3
  MaxSum = 39
INVARIANTS PointerFollows DoublesWhenFast WindowsFollows PointsWhereHostPoints CallsAreWelcome
SYMMETRY Symmetry
