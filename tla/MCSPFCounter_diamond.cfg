SPECIFICATION Spec
CONSTANTS
  x = x
  y = y
  z = z
  Names = {x, y, z}
  Macro = Macro
  Records <- SmallRecords
  NoRecord = NoRecord
  MaxLookups = 4
  MaxDepth = 5
INVARIANT CountIsLowerBound
CHECK_DEADLOCK FALSE
