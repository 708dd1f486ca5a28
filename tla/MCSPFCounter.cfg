SPECIFICATION Spec
CONSTANTS
  x = x
  y = y
  z = z
  Names = {x, y, z}
  Macro = Macro
  Records <- SmallRecords
  NoRecord = NoRecord
  MaxLookups = 4
  MaxDepth = 5
INVARIANTS
  TypeOK
  BudgetBoundsWork
  CompleteCountIsExact
  InBudgetCountIsLowerBound
CHECK_DEADLOCK FALSE
