SPECIFICATION MCSpec
CONSTANTS
  Names <- MCNames
  Fits <- MCFits
  Tildes <- MCTildes
  Mangled <- MCMangled
  Order <- MCOrder
  Begins <- MCBegins
  ANY = "*"
  MaxDepth = 2
  MaxEntries = 4
  TildeDirs = FALSE
  Years <- MCYears
  Units <- MCUnits
  Zones <- MCZones
  Chars = {"a", "e", "u", "x", "y"}
  Bytes <- MCBytes
  SEP = "/"
  TILDE = "~"
  NUL = "0"
  Calls <- MCCalls
  Lists <- MCLists
CHECK_DEADLOCK FALSE
INVARIANTS
  ShownNamesLeadBack
  SearchesAreTrue
  NewNamesAreFound
  DatesAreTrue
  DatesComeBack
  PathsAreWhole
  BuffersHold
