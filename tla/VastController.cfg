SPECIFICATION Spec
CONSTANTS
    MaxDeploys = 3
    MaxStops = 2
    MaxRestarts = 1
INVARIANTS
    VastTypeOK
    BilledIsKnown
    ActiveHonest
    IdleIsQuiet
PROPERTIES
    Settles
