SPECIFICATION FairSpec
CONSTANTS
  a1 = a1
  a2 = a2
  w1 = w1
  w2 = w2
  j1 = j1
  j2 = j2
  Nobody = Nobody
  Actors = {a1}
  Workers = {w1, w2}
  Jobs = {j1, j2}
  Attempts = 2
  MaxRetries = 2
  MaxStalls = 1
INVARIANTS
  TypeOK
  ActiveIsProvisioned
  PendingHasJob
PROPERTIES
  Settles
  DeletionStays
CHECK_DEADLOCK FALSE
