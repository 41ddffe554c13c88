SPECIFICATION Spec
CONSTANTS
    MaxNumber <- MCMaxNumber
    KeyOrder <- MCKeyOrder
    Cases <- Catalogue
    Compiled <- MCCompiled
INVARIANTS
    ReadableWhereWritten
    WriteBackSettles
    StoredFitsHub
    RuleOrderIrrelevant
    RequiredFieldsProduced
    LosslessMeansLossless
    PromotionKeepsReads
CHECK_DEADLOCK FALSE
