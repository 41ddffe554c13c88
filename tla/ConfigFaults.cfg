SPECIFICATION FairSpec
CONSTANTS
    s1 = s1
    s2 = s2
    Servers <- MCServers
    NoServer = NoServer
    Unresolved = Unresolved
    GuardOn = TRUE
    StaleReads = TRUE
    Policies <- BothPolicies
    MaxEdits = 2
    MaxFailures = 1
    MaxCrashes = 1
INVARIANTS
    RestsOnlyWhenWired
PROPERTIES
    EventuallyWired
    DeletionCompletes
CHECK_DEADLOCK FALSE
