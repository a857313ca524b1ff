SPECIFICATION Spec
CONSTANTS
  Ids = {i1, i2}
  Versions = {v1, v2}
  Procs = {viewer, api}
  None = None
  MaxRequests = 3
  MaxFaults = 1
INVARIANTS
  CacheCoherent
  NothingDirty
PROPERTY ImplementsBook
SYMMETRY Symmetry
CHECK_DEADLOCK FALSE
