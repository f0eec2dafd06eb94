SPECIFICATION FairSpec
CONSTANTS
  t1 = t1
  Txns = {t1, t2}
  Items <- MCItems
  Workers = {w1}
  Tries = 2
  RetryAfter = 360
  Timeout = 300
  EnforcesLength = TRUE
  MaxCrashes = 0
  NoTxn = NoTxn
  KraStatuses = {"P", "E"}
INVARIANT NoJobLost
CHECK_DEADLOCK FALSE
