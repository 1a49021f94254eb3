SPECIFICATION Spec
CONSTANTS
    Backends = {"lancedb", "sqlite"}
    MaxEpisodes = 4
    Saliences <- TwoSaliences
    RecentCap = 1
    SalientCap = 1
    PruneInterval = 2
    PruneBatch = 1
    MaxFaults = 1
    MaxWipes = 1
    QueueMax = 2
    BatchMax = 2
    RecallRecent = 1
    RecallSalient = 1
    BufferMax = 2
    MirrorCap = 3
CHECK_DEADLOCK FALSE
INVARIANTS
    EpTypeOK
    RecallHonest
PROPERTIES
    ImplementsLog
    NewestKept
    CallsReturn
