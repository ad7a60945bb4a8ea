SPECIFICATION FairSpec
CONSTANTS
  Inputs <- MCInputs
  ParserWorkers = 2
  BatchRows = 2
  AutoHeaders = TRUE
  Tolerance = 1
INVARIANTS LoadedInOrder VerdictIsSequential BackPressure NoOrphans
PROPERTIES ReachesVerdict
\* The import stops after its verdict.
CHECK_DEADLOCK FALSE
