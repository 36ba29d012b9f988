SPECIFICATION Calendar
CONSTANTS
  Years = {1980}
  Units = {0, 34199, 34200, 43199}
  Zones = {0, 9000}
INVARIANT LateTimesComeBack
