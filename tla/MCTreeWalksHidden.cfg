SPECIFICATION Spec
CONSTANTS
  eof = eof
  error = error
  list = list
  x = x
  comma = comma
  value = value
  Metadata <- MCMetadata
  OldTrees <- MCOldTrees
  NewTrees <- MCNewTrees
  ErrorSymbol = error
  Bytes = 2
  Depth = 1
  Tokens = {x, comma}
  Inner = {list}
  RootSymbols = {value}
INVARIANT NoCrash
CHECK_DEADLOCK FALSE
