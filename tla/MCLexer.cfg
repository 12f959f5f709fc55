SPECIFICATION Spec
CONSTANTS
  a = a
  hi = hi
  lo = lo
  NUL = NUL
  Invalid = Invalid
  High = {hi}
  Low = {lo}
  Unit <- MCUnit
  Strings <- MCStrings
  MaxLen = 2
INVARIANTS
  InChunk
  InputInStep
  LookaheadFromText
  StaleOnlyFromZero
  LeafFits
PROPERTY LexTerminates
