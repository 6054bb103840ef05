SPECIFICATION FairSpec
CONSTANTS
  NumNodes = 6
  Trees <- MCTrees
  LeafKinds = {"struct", "other"}
  SmallSize = 3
INVARIANTS TypeOK NoDefinitionLost DepthBounded ReplaysExact
PROPERTIES ContractKept Termination
CHECK_DEADLOCK FALSE
