SPECIFICATION GeneratorSpec
CONSTANTS
  NumNodes = 4
  Trees <- OutsideAndInside
  LeafKinds = {"struct"}
  SmallSize = 0
  Names <- PlainNames
  MaxModules = 1
  MaxRuns = 1
INVARIANTS ClassesInPlace
CHECK_DEADLOCK FALSE
