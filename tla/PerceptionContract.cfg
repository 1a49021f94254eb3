SPECIFICATION Spec
CONSTANTS
    w1 = w1
    w2 = w2
    s1 = s1
    s2 = s2
    Workers <- TwoWorkers
    Sockets <- OneSocket
    QueueMax = 1
    OverloadPolicies = {"block", "drop_oldest"}
    MaxSeq = 3
    Tags <- TwoTags
    Capacities = {1, 2}
    OverflowCap = 1
    ConsolidationCap = 1
    DrainBatch = 1
    Configs <- DefaultAndParity
    MaxClears = 0
    MaxConfigures = 0
    MaxFaults = 2
CHECK_DEADLOCK FALSE
PROPERTIES
    KeepsSupervisorContract
    EveryFrameSettles
