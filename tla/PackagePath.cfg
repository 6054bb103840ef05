SPECIFICATION Spec
CONSTANTS
  NumNodes = 5
  Trees <- MCTrees
  LeafKinds = {"struct"}
  SmallSize = 0
  MaxModules = 3
  NameLengths = {0, 1, 3}
  PrefixLengths = {0, 2}
INVARIANTS TypeOK FillsBlock PackageIsPath
CHECK_DEADLOCK FALSE
