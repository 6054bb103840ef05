SPECIFICATION Spec
CONSTANTS
  Kinds = {"struct", "enum", "typedef", "union", "bitmask"}
  ItemTypes <- UpToTwo
  MaxLost = 2
INVARIANTS TypeOK FreedOnce HolesOnly
PROPERTIES UpdateKept
CHECK_DEADLOCK FALSE
