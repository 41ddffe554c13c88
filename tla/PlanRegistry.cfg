SPECIFICATION FairSpec
CONSTANTS
    Configs <- MCConfigs
    KindOf <- MCKindOf
    NameOf <- MCNameOf
    Targets <- MCTargets
    Rules <- MCRules
    Pool <- MCPool
    SerialAdmission = TRUE
    NamesLetGo = TRUE
    QuietSync = TRUE
    MaxChanges = 3
    MaxRestarts = 1
    MaxFailures = 1
INVARIANTS
    OneConfigPerTarget
    QuietMeansServed
PROPERTIES
    PlanOutlivesDrift
    BecomesReady
CHECK_DEADLOCK FALSE
