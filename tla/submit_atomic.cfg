SPECIFICATION Spec
CONSTANTS
  r1 = r1
  r2 = r2
  r3 = r3
  a1 = a1
  a2 = a2
  k1 = k1
  k2 = k2
  Requests = {r1, r2, r3}
  Attempts = {a1}
  Keys = {k1, k2}
  AttemptOf <- RetryAndTabAttempt
  KeyOf <- RetryAndTabKey
  NoJob = NoJob
  SequenceUnique = TRUE
  KeyUnique = TRUE
  RedisPresent = TRUE
  MaxLockTries = 2
  MayFail = TRUE
INVARIANT
  SubmittedHasJob
CHECK_DEADLOCK FALSE
