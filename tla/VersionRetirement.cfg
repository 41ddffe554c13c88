SPECIFICATION Spec
CONSTANTS
    Composites = {"x1"}
    Claims = {"c1"}
    Namespaces = {"n1", "n2"}
    NsOf <- MCNsOf
    Rank <- MCRank
    MaxVersion = 2
    Managers = {"client"}
    MigrateOptions <- MCMigrateOptions
    RetargetOptions <- MCRetargetOptions
    MaxSamples = 2
    MaxCommands = 2
    MaxClientOps = 2
INVARIANTS
    PruneSafe
    NothingStranded
    CleanReportIsTrue
    RetargetReportIsTrue
    PassMeansUnused
PROPERTIES
    KeepsLedger
CHECK_DEADLOCK FALSE
