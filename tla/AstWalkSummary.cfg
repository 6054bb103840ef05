SPECIFICATION Spec
CONSTANTS
  NumNodes = 4
  Trees <- MCTrees
  LeafKinds = {"struct"}
  SmallSize = 0
INVARIANTS SummaryCountsDefinitions
CHECK_DEADLOCK FALSE
