SPECIFICATION FairSpec
CONSTANTS
    Requests = {r1}
    Lanes = {1, 2, 3}
    Ports <- MCPorts
    PortOf <- MCPortOf
    Protocol <- MCProtocol
    Loads <- LivenessLoads
PROPERTIES
    RequestEnds
    SnapshotConverges
