SPECIFICATION Spec
CONSTANTS
    MaxNumber <- MCMaxNumber
    KeyOrder <- MCKeyOrder
    Cases <- ScalePromoted
    Compiled <- MCCompiled
INVARIANT
    PromotionAlwaysKeepsReads
CHECK_DEADLOCK FALSE
