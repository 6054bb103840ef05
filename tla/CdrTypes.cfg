SPECIFICATION Spec
CONSTANTS
  Classes <- BooleanOnly
  Capacity = 14
  Values <- MCValues
  Types <- MCTypes
  Depth <- MCDepth
  MaxDepth = 4
  NULL = NULL
  GARBAGE = GARBAGE
  MaxMessages = 2
INVARIANTS TypesAgree
CHECK_DEADLOCK FALSE
