SPECIFICATION Spec
CONSTANTS
  t1 = t1
  t2 = t2
  k1 = k1
  k2 = k2
  v1 = v1
  v2 = v2
  None = None
  Absent = Absent
  Keep = Keep
  Tab <- OneTab
  Readers <- NoTabs
  Key <- Files
  Value <- OneValue
  Ops <- BareOps
  CompactAt = 2
  MaxRev = 3
  MaxSkip = 0
  RewriteFaults = TRUE
SYMMETRY OneTabSymmetry
INVARIANTS
  Recoverable
