CONSTANTS
    s1 = s1
    s2 = s2
    s3 = s3
    c1 = c1
    NoRef = NoRef
    Unresolved = Unresolved
    Absent = Absent
    Servers <- MCPair
    Configs <- MCConfigs
    NameOrder <- MCNameOrder
    Score <- MCScore
    Weights = {1, 3}
    SerialAdmission = TRUE
    MaxChanges = 2
SPECIFICATION FairSpec
INVARIANTS
    AtMostOneDefault
PROPERTIES
    PoolActivationMovesNothing
    EventuallyAgrees
CHECK_DEADLOCK FALSE
