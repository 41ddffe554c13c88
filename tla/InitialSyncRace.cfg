SPECIFICATION Spec
CONSTANTS
    Configs <- MCConfigs
    KindOf <- MCKindOf
    NameOf <- MCNameOf
    Targets <- MCTargets
    Rules <- MCRules
    Pool <- MCPool
    SerialAdmission = TRUE
    NamesLetGo = TRUE
    QuietSync = FALSE
    MaxChanges = 3
    MaxRestarts = 1
    MaxFailures = 1
INVARIANT QuietMeansServed
CHECK_DEADLOCK FALSE
