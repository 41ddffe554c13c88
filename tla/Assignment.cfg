CONSTANTS
    s1 = s1
    s2 = s2
    s3 = s3
    c1 = c1
    NoRef = NoRef
    Unresolved = Unresolved
    Absent = Absent
    Servers <- MCServers
    Configs <- MCConfigs
    NameOrder <- MCNameOrder
    Score <- MCScore
    Weights = {1}
    SerialAdmission = FALSE
    MaxChanges = 2
SPECIFICATION Spec
INVARIANTS
    ReassignmentIsPending
PROPERTIES
    MinimalMovement
CHECK_DEADLOCK FALSE
