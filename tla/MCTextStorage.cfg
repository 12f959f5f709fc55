SPECIFICATION Spec
CONSTANTS
  MaxLength = 5
  MaxEdits = 3
  None = None
  AskPoints <- MCQuiet
  ParsePoints <- MCQuiet
INVARIANTS
  FreshAnswers
  PurgedByEdits
CHECK_DEADLOCK FALSE
