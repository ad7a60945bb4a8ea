SPECIFICATION Spec
CONSTANTS
  IdGroups = {g, h}
  Ids = {1, 5}
  Labels = {a, b}
  MaxId = 5
  Bulk = TRUE
  CacheLimit = 1
  LargeFrom = 2
  None = None
  MaxRows = 3
SYMMETRY Symmetric
INVARIANTS CountsAgree AlwaysSound IndexesMatchTables EndpointsRight
\* finish consumes the importer.
CHECK_DEADLOCK FALSE
