SPECIFICATION Spec
CONSTANTS
    DefaultPreStopSleep = 1
    DefaultGracePeriod = 4
    DefaultShutdownTimeout = 2
    StartupBudget = 1
    Unset = Unset
    Refused = Refused
    None = None
    Reviews = {r1}
    Requests <- MCOneRequest
    Plans <- MCPlans
    RequestTimeout = 1
    RolloutSpecs <- MCRolloutSpecs
    ArgLists <- MCOneDash
    EndpointDelay = 0
    MaxFaults = 0
    MaxSwaps = 0
PROPERTY LostOnlyAfterDrain
CHECK_DEADLOCK FALSE
