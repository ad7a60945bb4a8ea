\* Importers end, users may be done, and after a power failure nothing happens.
CHECK_DEADLOCK FALSE
SPECIFICATION Spec
CONSTANTS
  Importers = {i1, i2}
  Overwrite = {i1, i2}
  Users = {u1}
  None = None
PROPERTIES
  ReplacesOnlyUnused
