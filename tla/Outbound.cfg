SPECIFICATION Spec
CONSTANTS
    Sockets <- TwoSockets
    OutMax = 1
    ControlMax = 2
    MaxControls = 3
    MaxConnects = 2
    MaxResets = 1
INVARIANTS
    OutTypeOK
    Accounted
    ControlInOrder
PROPERTIES
    ControlLeavesLane
