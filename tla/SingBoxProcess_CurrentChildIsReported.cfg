SPECIFICATION Spec
CONSTANTS
    MaxApplies = 2
INVARIANT
    CurrentChildIsReported
CHECK_DEADLOCK FALSE
