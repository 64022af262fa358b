SPECIFICATION Spec
CONSTANTS
  a1 = a1
  a2 = a2
  r1 = r1
  r2 = r2
  j1 = j1
  Actors = {a1, a2}
  Requests = {r1}
  Jobs = {j1}
  Mounted <- EitherWay
  PoolSize = 3
  MaxCreated = 1
  Grace = 1
  CacheTTL = 1
  Latency = 2
  DedupWindow = 1
  MaxTime = 3
  MaxData = 1
SYMMETRY Colleagues
INVARIANTS
  TypeOK
  LockedRowIsCurrent
  OnlyCreationLeaks
PROPERTIES
  ObeysStateMachine
  AuditTellsTheTruth
CHECK_DEADLOCK FALSE
