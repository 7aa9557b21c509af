SPECIFICATION Spec
CONSTANTS
    Keys = {k1, k2}
    NoKey = NoKey
    Ports = {default}
    Default = default
    Budgets <- DisableBudgets
SYMMETRY Symmetry
INVARIANTS
    DisableSurvives
CHECK_DEADLOCK FALSE
