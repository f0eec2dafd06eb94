SPECIFICATION Spec
CONSTANTS
  t1 = t1
  Txns = {t1}
  Items <- MCItems
  Workers = {w1, w2}
  Tries = 3
  RetryAfter = 90
  Timeout = 300
  EnforcesLength = TRUE
  MaxCrashes = 0
  NoTxn = NoTxn
  KraStatuses = {"P", "E", "other"}
INVARIANT CompletedMeansJournaled
CHECK_DEADLOCK FALSE
