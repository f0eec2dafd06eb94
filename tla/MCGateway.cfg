SPECIFICATION FairGatewaySpec
CONSTANTS
  Txns = {t1, t2}
  Items <- MCItems
  Requests = {q1, q2}
  NoRequest = NoRequest
  Workers = {w1}
  Tries = 2
  RetryAfter = 360
  Timeout = 300
  EnforcesLength = FALSE
  MaxCrashes = 0
  NoTxn = NoTxn
  KraStatuses = {"P", "E"}
INVARIANT GatewayTypeOK
INVARIANT JournaledWasSigned
INVARIANT NoJobLost
PROPERTY AnsweredSettles
CHECK_DEADLOCK FALSE
