SPECIFICATION Spec
CONSTANTS
  GroupCount = 2
  Ids <- SomeIds
  Node <- SomeNodes
  HalfRange = 8
  WordBits = 2
  PageWords = 2
  RegionPages = 2
  Narrow = 4
  Limit = 24
  RegionSlotBytes = 2
  PageSlotBytes = 1
  HeaderBytes = 2
  DenseBytes = 6
  WordBytes = 3
  CompactBytes = 2
  PackedBytes = 4
  WideBytes = 8
  None = None
  MaxCalls = 4
INVARIANTS GroupsAccounted
PROPERTIES FirstNodeKept
\* An importer seals its map once and is then done with it.
CHECK_DEADLOCK FALSE
