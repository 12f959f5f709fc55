SPECIFICATION SpecAll
CONSTANTS
  a = a
  b = b
  NUL = NUL
  Invalid = Invalid
  High = {}
  Low = {}
  Unit <- MCUnit
  Strings <- MCStrings
  MaxLen = 2
INVARIANT ReadsCurrentText
