SPECIFICATION Spec
CONSTANTS
  t1 = t1
  t2 = t2
  k1 = k1
  k2 = k2
  v1 = v1
  v2 = v2
  None = None
  Absent = Absent
  Keep = Keep
  Tab <- OneTab
  Readers <- OneTab
  Key <- Files
  Value <- OneValue
  Ops <- SyncedOps
  CompactAt = 1
  MaxRev = 2
  MaxSkip = 0
  RewriteFaults = FALSE
SYMMETRY OneTabSymmetry
CONSTRAINT OnlyCompared
INVARIANTS
  CacheExact
  CleanIsSynced
PROPERTIES
  ExportExact
