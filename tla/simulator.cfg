SPECIFICATION Spec
CONSTANTS
  Config <- MCConfig
  Data <- MCData
  Size = 3
  Base = 8
  NaN = NaN
  Missing = Missing
PROPERTIES
  PrintedIsARow
  RoundsGoOn
CHECK_DEADLOCK FALSE
