SPECIFICATION Spec
CONSTANTS
  NoTree = NoTree
  Trees <- MCTrees
  Goto <- MCGoto
  States = {0, 1}
  MaxLinks = 3
  SkippedTreeCost = 1
  Word = 16
  Callback <- NoCallback
  MaxIterators = 8
  MaxCalls = 100
  MaxNodes = 6
  MaxPosition = 3
  MaxErrors = 1
  MaxVersions = 3
  MaxPop = 2
INVARIANTS
  RefsExact
  EveryWayAgrees
  SlicesNameTheirNodes
  PopsEveryWay
PROPERTY MergeKeepsStacks
VIEW UpToNumbering
