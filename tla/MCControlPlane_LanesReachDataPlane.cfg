SPECIFICATION Spec
CONSTANTS
    Keys = {k1, k2}
    NoKey = NoKey
    Ports = {default}
    Default = default
    Budgets <- LaneBudgets
SYMMETRY Symmetry
INVARIANTS
    LanesReachDataPlane
CHECK_DEADLOCK FALSE
