SPECIFICATION GeneratorSpec
CONSTANTS
  NumNodes = 5
  Trees <- MCSources
  LeafKinds = {"struct", "typedef", "other"}
  SmallSize = 0
  Names <- MCNames
  MaxModules = 1
  MaxRuns = 2
INVARIANTS FilesTypeOK LastOneStays
PROPERTIES FilesKept
CHECK_DEADLOCK FALSE
