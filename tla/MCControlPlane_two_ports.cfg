SPECIFICATION Spec
CONSTANTS
    Keys = {k1, k2}
    NoKey = NoKey
    Ports = {default, canary}
    Default = default
    Budgets <- TwoPortBudgets
SYMMETRY Symmetry
INVARIANTS
    CalmRefreshPreserves

    
    
CHECK_DEADLOCK FALSE
