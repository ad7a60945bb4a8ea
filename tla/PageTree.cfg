SPECIFICATION Spec
CONSTANTS
  PageSize = 44
  MaxTable = 28
  MaxIndex = 4
  MinLocal = 2
  MaxRecords = 60
  Patterns <- SomePatterns
  None = None
INVARIANTS TreeWellFormed PlanExact
\* A finished tree is left alone.
CHECK_DEADLOCK FALSE
