CONSTANTS
    Client = {c1, c2}
    Busy = {c1}
    Limit = 1
    MaxClients = 2
    Ini <- MCIni
    MaxQueue = 2
    MaxFaults = 1
SPECIFICATION Spec
INVARIANTS TypeOK RightDatabase PoolSound CallbacksMatchQueue OwnReplies WatchHolds
CHECK_DEADLOCK FALSE
