CONSTANTS
    m1 = m1
    m2 = m2
    r1 = r1
    s1 = s1
    s2 = s2
    None = None
    Node = {m1, m2, r1}
    Slot = {s1, s2}
    Master <- MCMaster
    ReplicaOf <- MCReplicaOf
    Options <- MCOptions
    Cached = TRUE
    MaxCommands = 2
SPECIFICATION Spec
\* The object may be left idle, with every command of the bound sent.
CHECK_DEADLOCK FALSE
INVARIANTS RepliesMatch AtMostOnce
PROPERTIES EveryCallEnds
