SPECIFICATION Spec
CONSTANTS
    Nodes = {1, 2, 3}
    Latencies = {400, 900}
    PortModes = {"single_active", "sequential", "random", "balance"}
    MaxFails = 2
INVARIANTS
    TypeOK
    SelectNextIsBest
    RotationCoversAll
PROPERTIES
    FailoverFindsHealthy
    LockHolds
CHECK_DEADLOCK FALSE
