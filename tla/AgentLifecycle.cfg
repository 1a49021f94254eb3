SPECIFICATION Spec
CONSTANTS
    Sockets <- OneId
    Full = 2
    HealReserve = 1
    ReviveLevel = 2
    CycleIds <- ThreeIds
    Clients <- TwoIds
    Operations <- AllOperations
    Soaks = {TRUE, FALSE}
    Modes = {"metabolic"}
    MaxAdmin = 2
    MaxBody = 1
CHECK_DEADLOCK FALSE
INVARIANTS
    LifeTypeOK
    LockLine
    FreezeIsTight
    MortalityHonest
    BarrierHolds
