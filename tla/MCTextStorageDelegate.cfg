SPECIFICATION Spec
CONSTANTS
  x = x
  high = high
  low = low
  BOM = BOM
  NUL = NUL
  Unit <- MCUnit
  Strings <- MCStrings
  Characters <- MCCharacters
  MaxUnits = 0
  MaxCharacters = 3
  MaxEdits = 2
PROPERTIES
  TellsEditsAsMade
CHECK_DEADLOCK FALSE
