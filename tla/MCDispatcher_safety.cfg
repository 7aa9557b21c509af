SPECIFICATION Spec
CONSTANTS
    Requests = {r1, r2}
    Lanes = {1, 2, 3}
    Ports <- MCPorts
    PortOf <- MCPortOf
    Protocol <- MCProtocol
    Loads <- SafetyLoads
SYMMETRY Symmetry
INVARIANTS
    TypeOK
PROPERTIES
    ImplementsLaneService
    RuleBeatsSticky
