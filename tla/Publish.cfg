SPECIFICATION Spec
CONSTANTS
  Importers = {i1, i2}
  Overwrite = {i1}
  Users = {u1, u2}
  None = None
SYMMETRY UserSymmetry
INVARIANTS NeverPartial ReportsTruth
PROPERTIES NoStaleJournal ReplacesOnlyUnused ImplementsDestination
\* Importers end, users may be done, and after a power failure nothing happens.
CHECK_DEADLOCK FALSE
