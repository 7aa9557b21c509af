SPECIFICATION Spec
CONSTANTS
    Jobs = {j1, j2}
    Providers <- MCProviders
    Plans <- BodyPlans
INVARIANT FailedFetchKeepsServing
