SPECIFICATION Spec
CONSTANTS
  t1 = t1
  t2 = t2
  k1 = k1
  k2 = k2
  v1 = v1
  v2 = v2
  None = None
  Absent = Absent
  Keep = Keep
  Tab <- TwoTabs
  Readers <- NoTabs
  Key <- Files
  Value <- OneValue
  Ops <- WriteOps
  CompactAt = 1
  MaxRev = 2
  MaxSkip = 0
  RewriteFaults = FALSE
SYMMETRY Symmetry
INVARIANTS
  TypeOK
  Recoverable
PROPERTIES
  CompareAndSet
  ImplementsDurableGraph
