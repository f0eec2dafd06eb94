SPECIFICATION FairGatewaySpec
CONSTANTS
  Txns = {t1}
  Items <- MCItems
  Requests = {q1}
  NoRequest = NoRequest
  Workers = {w1}
  Tries = 3
  RetryAfter = 360
  Timeout = 300
  EnforcesLength = FALSE
  MaxCrashes = 0
  NoTxn = NoTxn
  KraStatuses = {"P", "E"}
PROPERTY StoredSettles
CHECK_DEADLOCK FALSE
