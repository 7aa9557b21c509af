SPECIFICATION Spec
CONSTANTS
    Nodes = {1, 2, 3}
    Latencies = {400, 900}
    PortModes = {"sequential"}
    MaxFails = 2
PROPERTIES
    RotationFindsHealthy
CHECK_DEADLOCK FALSE
