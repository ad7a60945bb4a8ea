SPECIFICATION Spec
CONSTANTS
  Word = 4
  Digit = 2
  KeyBytes = 8
  FanIn = 2
  Workers = 2
  Arity = 3
  Order <- SomeOrder
  PrefixChars = 2
  SampleCount = 3
  Tuples <- SomeTuples
  Entries <- SomeEntries
  Hashes <- SomeHashes
  MaxRows <- SomeRows
  None = None
INVARIANTS SortsOrRefuses SamplesTrue
\* A sort ends.
CHECK_DEADLOCK FALSE
