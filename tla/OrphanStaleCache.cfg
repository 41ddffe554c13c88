SPECIFICATION Spec
CONSTANTS
    s1 = s1
    s2 = s2
    Servers <- MCServers
    NoServer = NoServer
    Unresolved = Unresolved
    GuardOn = FALSE
    StaleReads = TRUE
    Policies <- KeepOnly
    MaxEdits = 3
    MaxFailures = 0
    MaxCrashes = 0
SYMMETRY ServerSymmetry
INVARIANTS
    NoOrphanWebhook
CHECK_DEADLOCK FALSE
