SPECIFICATION FairSpec
CONSTANTS
  a1 = a1
  a2 = a2
  r1 = r1
  r2 = r2
  j1 = j1
  Actors = {a1}
  Requests = {r1, r2}
  Jobs = {}
  Mounted <- OneEach
  PoolSize = 3
  MaxCreated = 1
  Grace = 3
  CacheTTL = 1
  Latency = 1
  DedupWindow = 1
  MaxTime = 5
  MaxData = 1
INVARIANT ArchiveUnreached
PROPERTIES
  GraceHonoured
  AdmittedRecently
  ExpiredIsArchived
CHECK_DEADLOCK FALSE
