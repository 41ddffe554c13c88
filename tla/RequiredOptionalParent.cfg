SPECIFICATION Spec
CONSTANTS
    MaxNumber <- MCMaxNumber
    KeyOrder <- MCKeyOrder
    Cases <- OptionalParent
    Compiled <- MCCompiled
INVARIANT
    EveryRequiredFieldProduced
CHECK_DEADLOCK FALSE
