SPECIFICATION FairSpec
CONSTANTS
  Workers = {w1, w2}
  Coordinator = c
  BootEnd = 4
  Block = 2
  Pending = 5
  Limit = 9
  MaxChain = 3
INVARIANTS OneUsePerPage ChainsIntact SealedIsComplete
PROPERTIES ImplementsPageFile EveryWriterLeaves
\* Every thread of the pool ends: the system stops when its file is finished.
CHECK_DEADLOCK FALSE
