SPECIFICATION Spec
CONSTANTS
  eof = eof
  error = error
  list = list
  x = x
  comma = comma
  value = value
  Metadata <- MCMetadata
  OldTrees <- MCOldTrees
  NewTrees <- MCNewTrees
  ErrorSymbol = error
  Bytes = 3
  Depth = 1
  Tokens = {x, comma}
  Inner = {list, value, error}
  RootSymbols = {list}
INVARIANT NoCrashIfVisible
INVARIANT RangesInOrder
INVARIANT ChangesReportedIfVisible
INVARIANT Neighbours
INVARIANT Locations
INVARIANT WalkEnds
CHECK_DEADLOCK FALSE
