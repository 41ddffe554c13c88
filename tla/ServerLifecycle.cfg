SPECIFICATION Spec
CONSTANTS
    XRDConfigs = {"x"}
    CRDConfigs = {"c"}
    Namespaces = {"n1"}
    MaxEdits = 3
    MaxFailures = 1
INVARIANTS
    GuardedChildren
PROPERTIES
    RemovalSparesTargets
    ChildrenConverge
    DeletionCompletes
CHECK_DEADLOCK FALSE
