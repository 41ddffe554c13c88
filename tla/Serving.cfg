SPECIFICATION Spec
CONSTANTS
    DefaultPreStopSleep = 1
    DefaultGracePeriod = 4
    DefaultShutdownTimeout = 2
    StartupBudget = 1
    Unset = Unset
    Refused = Refused
    None = None
    Reviews = {r1, r2}
    Requests <- MCRequests
    Plans <- MCPlans
    RequestTimeout = 1
    RolloutSpecs <- MCRolloutSpecs
    ArgLists <- MCArgLists
    EndpointDelay = 0
    MaxFaults = 1
    MaxSwaps = 1
INVARIANTS
    OnePlanPerReview
    AllOrNothing
PROPERTIES
    LostOnlyAfterDrain
    ColdStartCompletes
CHECK_DEADLOCK FALSE
