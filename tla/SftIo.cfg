SPECIFICATION Spec
CONSTANTS
  OffsetLimit = 5
  Files = {f1}
  Sfts = {s1, s2}
  NIL = NIL
  Times = {t1}
  Now = Now
  MaxBytes = 2
  Positions <- Start
  Offsets <- NearEnd
  HostSizes <- SmallSizes
  HostFaults <- AllFaults
  Habits <- NoHabits
SYMMETRY Symmetry
INVARIANTS CachedSizesAreTrue
PROPERTY KeepsPromise
