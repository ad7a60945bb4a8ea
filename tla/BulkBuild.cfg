SPECIFICATION FairSpec
CONSTANTS
  Graphs <- SomeGraphs
  Budgets = {8, 16, 64, 256, 512}
  Maps <- SomeMaps
  LargeFrom = 2
  Cores = 3
  PrefixChars = 2
  None = None
  MaxFaults = 1
INVARIANTS TreesExact SortersShareBudget NothingOutlives
PROPERTY BuildEnds
\* The importer is consumed by finish.
CHECK_DEADLOCK FALSE
