SPECIFICATION Spec
CONSTANTS
  Classes <- AllClasses
  Capacity = 14
  Values <- MCValues
  Types <- MCTypes
  Depth <- MCDepth
  MaxDepth = 4
  NULL = NULL
  GARBAGE = GARBAGE
  MaxMessages = 2
INVARIANTS TypeOK RoundTrip CutIsNoticed FailureSplits RefusesExactly
CHECK_DEADLOCK FALSE
