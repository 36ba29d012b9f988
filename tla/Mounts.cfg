SPECIFICATION Spec
CONSTANTS
  NumDrives = 4
  LastDrive = 3
  OtherDrives <- Floppy
  Roots <- Folders
  Automounts <- Listed
  Points <- SomePoints
  NIL = 99
  HostFaults <- AllFaults
  Commands <- AllCommands
INVARIANTS TablesAgree NothingStays
PROPERTY CommandsEnd
