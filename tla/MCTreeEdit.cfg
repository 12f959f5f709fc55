SPECIFICATION Spec
CONSTANTS
  Paddings = {0, 1}
  Sizes = {0, 1, 2}
  Lookaheads = {1, 2}
  MaxLeaves = 3
  MaxReductions = 1
  MaxEdits = 1
  MaxAdded = 1
  Word = 64
INVARIANTS
  MarksReachTheRoot
  IntactAfterOneEdit
CHECK_DEADLOCK FALSE
