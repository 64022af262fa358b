SPECIFICATION FairSpec
CONSTANTS
  a1 = a1
  a2 = a2
  w1 = w1
  c1 = c1
  c2 = c2
  NumJobs = 2
  Attempts <- TwinAttempts
  AttemptOf <- TwinAttemptOf
  Workspaces = {w1}
  WorkspaceOf <- TwinWorkspaceOf
  PoolKey <- KeyedById
  Consumers = {c1, c2}
  MaxRetries = 1
  Faults = {"db", "grading", "crash", "stop"}
INVARIANTS
  TypeOK
  SingleOwner
  RetryBudget
  DeadLetterMatchesRow
  ResultIsTheStoredGrade
  CompletedMeansFinalized
PROPERTIES
  GradeIsFinal
  ImplementsService
  AbandonedOnlyByLoss
  EveryJobSettles
