CONSTANTS
    Worker = {w1, w2}
    Sid = {s1}
    Free = free
    Weights <- MCWeights
    Hash <- MCHash
    KeyHash <- MCBareKeys
    NewKeyHash <- MCNewBareKeys
    Retries = 1
    SidTries = 2
    MaxFaults = 1
    MaxVersion = 2
SPECIFICATION Spec
INVARIANTS TypeOK MutualExclusion NoUnseenOverwrite LocksAreReturned
PROPERTIES OnlyLateOverwrites EveryRequestEnds
