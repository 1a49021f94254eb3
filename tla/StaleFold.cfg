SPECIFICATION SafeSpec
CONSTANTS
    w1 = w1
    w2 = w2
    s1 = s1
    s2 = s2
    Workers <- OneWorker
    Sockets <- OneSocket
    QueueMax = 1
    OverloadPolicies = {"block"}
    MaxSeq = 2
    Tags <- OneTag
    Capacities = {1}
    OverflowCap = 1
    ConsolidationCap = 1
    DrainBatch = 1
    Configs <- DefaultConfig
    MaxClears = 1
    MaxConfigures = 0
    MaxFaults = 0
CHECK_DEADLOCK FALSE
PROPERTY
    FoldsFreshObservations
