SPECIFICATION Spec
CONSTANTS
  a1 = a1
  a2 = a2
  w1 = w1
  c1 = c1
  c2 = c2
  NumJobs = 2
  Attempts <- PairAttempts
  AttemptOf <- PairAttemptOf
  Workspaces = {w1}
  WorkspaceOf <- PairWorkspaceOf
  PoolKey <- KeyedById
  Consumers = {c1}
  MaxRetries = 5
  Faults = {"grading"}
INVARIANT
  AttemptsAsDocumented
CHECK_DEADLOCK FALSE
