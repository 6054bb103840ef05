SPECIFICATION FairSpec
CONSTANTS
  a = a
  b = b
  Byte = {a, b}
  NUL = NUL
  JUNK = JUNK
  NoString = NoString
  Strings <- MCStrings
  InitCapacity = 2
  TmpSize = 3
  MaxLength = 9
  SizeMod = 32
INVARIANTS TypeOK CopyInBounds CapacityBounded
PROPERTIES TextKept AppendReturns
CHECK_DEADLOCK FALSE
