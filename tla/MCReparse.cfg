SPECIFICATION ReparseSpec
CONSTANTS
  Paddings = {0, 1}
  Sizes = {1}
  Lookaheads = {1}
  MaxLeaves = 2
  MaxReductions = 1
  MaxEdits = 2
  MaxAdded = 1
  MaxParses = 1
  Word = 64
INVARIANTS
  SpansText
  CursorInStep
  ReusedLeavesIntact
  NoOldMarks
PROPERTY ParseTerminates
CHECK_DEADLOCK FALSE
