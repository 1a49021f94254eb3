SPECIFICATION Spec
CONSTANTS
    Sockets <- OneId
    Full = 2
    HealReserve = 1
    ReviveLevel = 2
    CycleIds <- ThreeIds
    Clients <- OneId
    Operations <- AllOperations
    Soaks = {TRUE, FALSE}
    Modes = {"metabolic"}
    MaxAdmin = 1
    MaxBody = 2
CHECK_DEADLOCK FALSE
PROPERTIES
    StarvationKills
    StopEnds
