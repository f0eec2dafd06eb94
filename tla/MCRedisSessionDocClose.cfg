CONSTANTS
    Worker = {w1, w2}
    Sid = {s1}
    Free = free
    Weights <- MCWeights
    Hash <- MCHash
    KeyHash <- MCPrefixedKeys
    NewKeyHash <- MCNewPrefixedKeys
    Retries = 1
    SidTries = 2
    MaxFaults = 1
    MaxVersion = 2
SPECIFICATION Spec
INVARIANT LockReleasedOnClose
