SPECIFICATION Spec
CONSTANTS
    Keys = {k1, k2}
    NoKey = NoKey
    Ports = {default}
    Default = default
    Budgets <- OnePortBudgets
SYMMETRY Symmetry
INVARIANTS
    TypeOK
    SelectorsAreRegistered
    CalmRefreshAgrees
    CalmRefreshIsAccepted
    CalmHealthCheckHeals
    IdsNameOneKey
CHECK_DEADLOCK FALSE
