SPECIFICATION Spec
CONSTANTS
    Mix <- Mixes
    Haps = 2
INVARIANTS
    TypeOK
    SuccessIsReal
    RetryNotSpoiled
    RegisteredIsRead
PROPERTIES
    TransferEnds
CHECK_DEADLOCK FALSE
