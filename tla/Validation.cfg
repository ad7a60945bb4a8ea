SPECIFICATION FairSpec
CONSTANTS
  PageCount = 9
  TrunkSlots = 1
  Reserved = 6
  Images <- SomeImages
  Wrong = {0, 1, 3, 4, 5, 6, 8, 10}
  Workers = {w1, w2}
  Tables <- SomeTables
  Keys <- SomeKeys
  Databases <- SomeDatabases
  MaxDepth = 3
  Payload <- SomePayload
  None = None
INVARIANTS FreelistComplete AcceptsSound ShortcutAgrees
PROPERTY ValidationEnds
\* Validation ends.
CHECK_DEADLOCK FALSE
