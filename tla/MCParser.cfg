SPECIFICATION Spec
CONSTANTS
  NoTree = NoTree
  MaxLinks = 8
  MaxIterators = 64
  MaxCalls = 100
  SkippedTreeCost = 10
  Word = 65536
  Callback <- ParserCallback
  TokenNames <- MCTokens
  NonterminalNames <- MCNonterminals
  HiddenSymbols <- MCHidden
  ParseStates <- MCStates
  TableActions <- MCActions
  TableGoto <- MCGoto
  ErrorSymbol = "ERROR"
  EndSymbol = "end"
  Productions <- MCProductions
  StartSymbol = "_value"
  Texts <- MCTexts
  Alphabet = {"[", "]", ",", "number", "{", "}", ":", "ERROR"}
  ShortLength = 4
  SmallAlphabets = {{"[", "]", ",", "number", "ERROR"}, {"{", "}", ":", "number", ","}}
  LongLength = 5
INVARIANTS EveryVersionSpellsTheText NoAssertionFails ErrorsIffNoSentence NodesFollowTheGrammar
PROPERTIES CondenseKeepsTheBest Terminates
CHECK_DEADLOCK FALSE
