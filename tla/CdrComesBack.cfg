SPECIFICATION Spec
CONSTANTS
  Classes <- MixedOnly
  Capacity = 14
  Values <- MCMixedValues
  Types <- MCTypes
  Depth <- MCDepth
  MaxDepth = 4
  NULL = NULL
  GARBAGE = GARBAGE
  MaxMessages = 2
INVARIANTS ComesBack
CHECK_DEADLOCK FALSE
