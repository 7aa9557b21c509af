SPECIFICATION FairSpec
CONSTANTS
    MaxApplies = 3
INVARIANTS
    TypeOK
    RunningIsWatched
    StartNeverNoops
    AppliedIsLoaded
    OwnFileWasChecked
PROPERTIES
    ImplementsRollout
    DeadChildIsForgotten
    ApplyEnds
CHECK_DEADLOCK FALSE
