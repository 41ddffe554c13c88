SPECIFICATION Spec
CONSTANTS
    s1 = s1
    s2 = s2
    Servers <- MCServers
    NoServer = NoServer
    Unresolved = Unresolved
    GuardOn = FALSE
    StaleReads = FALSE
    Policies <- BothPolicies
    MaxEdits = 4
    MaxFailures = 0
    MaxCrashes = 0
SYMMETRY ServerSymmetry
INVARIANTS
    NoOrphanWebhook
    RevertedIsHonest
    URLReflectsTarget
PROPERTIES
    KeepsWiring
CHECK_DEADLOCK FALSE
