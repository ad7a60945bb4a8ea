SPECIFICATION Spec
CONSTANTS
  NodeBatches <- MCNodeBatches
  EdgeBatches <- MCEdgeBatches
  LabelCells <- MCLabelCells
  TypeCells <- MCTypeCells
  Values <- MCValues
  MaxEntries = 1
  Null = Null
  Invalid = Invalid
  Empty = Empty
  MaxNodes = 2
  MaxEdges = 2
  MaxTries = 1
INVARIANTS ShapesExact LabelsKept
\* The import is over after finish or a failure.
CHECK_DEADLOCK FALSE
