SPECIFICATION SourceFairSpec
CONSTANTS
  Buffers = 3
  Capacity = 4
  MaxBytes = 14
  None = None
  Failed = Failed
  Marks <- MCMarks
  Setups <- MCSetups
  NarrowLimit = 3
  Digits = {"1", "9"}
  Large = {"9"}
INVARIANTS WorkerAccounted RowsAsWritten HeadersResolved
PROPERTIES ImplementsStream SourceEnds
\* Nothing happens once the records have ended or the reader is dropped.
CHECK_DEADLOCK FALSE
