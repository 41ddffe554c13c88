SPECIFICATION Spec
CONSTANTS
    XRDConfigs = {"x"}
    CRDConfigs = {"c"}
    Namespaces = {"n1", "n2"}
    MaxEdits = 1
    MaxFailures = 0
PROPERTY
    ChildrenOnlyInNamespace
CHECK_DEADLOCK FALSE
