SPECIFICATION Spec
CONSTANTS
    MaxSeq = 4
    Tags <- MCTags
    Capacities = {0, 1, 2}
    OverflowCap = 1
    ConsolidationCap = 1
    DrainBatch = 1
    Configs <- MCConfigs
    MaxClears = 1
    MaxLost = 1
CHECK_DEADLOCK FALSE
INVARIANTS
    TypeOK
    Placement
    UrgentLaneIndexesReady
    Accounting
PROPERTIES
    HeadIsArbitersChoice
    CapsEnforced
    ForgetsWeakest
    UrgentFirst
