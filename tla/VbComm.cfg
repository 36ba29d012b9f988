SPECIFICATION MCSpec
CONSTANTS
  HasVDS = TRUE
  Popups = FALSE
  MaxLocks = 2
  Woken = FALSE
  Room = 9
  MaxSignals = 2
INVARIANTS
  AddressIsGood LocksArePaired MemoryIsLive HostIsTold
  MovementsAreWhole PointerIsCurrent HostIsAwake
PROPERTY OnlyWhileDisabling
