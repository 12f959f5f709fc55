SPECIFICATION Spec
CONSTANTS
  a = a
  b = b
  BOM = BOM
  NUL = NUL
  Unit <- MCUnit
  Strings <- MCStrings
  MaxUnits = 6
INVARIANTS
  WellFormed
PROPERTIES
  RefinesTextBuffer
  EditsAreSplices
