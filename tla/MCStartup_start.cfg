SPECIFICATION FairSpec
CONSTANTS
    Jobs = {j1, j2}
    Providers <- MCProviders
    Plans <- AllPlans
CHECK_DEADLOCK FALSE
INVARIANTS
    TypeOK
    SettingsInForce
    PlainConfigBinds
    RegistryIsOneSubscription
PROPERTIES
    FormatChangeKeepsKeys
    EventuallyServes
