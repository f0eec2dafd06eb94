SPECIFICATION FairSpec
CONSTANTS
  t1 = t1
  Txns = {t1}
  Items <- MCItems
  Workers = {w1, w2}
  Tries = 3
  RetryAfter = 360
  Timeout = 300
  EnforcesLength = TRUE
  MaxCrashes = 1
  NoTxn = NoTxn
  KraStatuses = {"P", "E"}
INVARIANT StartsBounded
INVARIANT ExclusiveRuns
PROPERTIES QueueDrains ForgottenByTwoSteps
CHECK_DEADLOCK FALSE
