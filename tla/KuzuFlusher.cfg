SPECIFICATION Spec
CONSTANTS
    aNode = aNode
    anEdge = anEdge
    Nodes <- OneNode
    Edges <- OneEdge
    Ends <- EdgeEnds
    Values <- TwoValues
    QueueMax = 1
    QueueCap = 2
    MergeMax = 2
    FlushOps = 2
    Flushers = {f1, f2}
    MaxJobs = 3
    MaxCalls = 2
    MaxFaults = 2
CHECK_DEADLOCK FALSE
INVARIANTS
    KuzuTypeOK
    MemoryReachesDisk
    BarrierCounts
PROPERTIES
    BackupIsExact
    JobsInOrder
