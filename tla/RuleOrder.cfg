SPECIFICATION Spec
CONSTANTS
    MaxNumber <- MCMaxNumber
    KeyOrder <- MCKeyOrder
    Cases <- NestedRenames
    Compiled <- MCCompiled
INVARIANT
    RuleOrderNeverMatters
CHECK_DEADLOCK FALSE
