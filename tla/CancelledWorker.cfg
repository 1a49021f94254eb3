SPECIFICATION SafeSpec
CONSTANTS
    w1 = w1
    w2 = w2
    s1 = s1
    s2 = s2
    Workers <- TwoWorkers
    Sockets <- OneSocket
    QueueMax = 1
    OverloadPolicies = {"block"}
    MaxSeq = 2
    Tags <- OneTag
    Capacities = {1, 2}
    OverflowCap = 1
    ConsolidationCap = 1
    DrainBatch = 1
    Configs <- DefaultConfig
    MaxClears = 0
    MaxConfigures = 1
    MaxFaults = 0
CHECK_DEADLOCK FALSE
INVARIANT
    NoMissingFrame
