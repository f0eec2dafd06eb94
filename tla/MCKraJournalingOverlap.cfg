SPECIFICATION Spec
CONSTANTS
  t1 = t1
  Txns = {t1}
  Items <- MCItems
  Workers = {w1, w2}
  Tries = 3
  RetryAfter = 90
  Timeout = 300
  EnforcesLength = TRUE
  MaxCrashes = 0
  NoTxn = NoTxn
  KraStatuses = {"P", "E"}
INVARIANT TypeOK
INVARIANT CompletedMeansJournaled
INVARIANT JournalIsPrefix
INVARIANT StartsBounded
PROPERTIES ImplementsContract ForgottenByTwoSteps
CHECK_DEADLOCK FALSE
SYMMETRY MCSymmetry
