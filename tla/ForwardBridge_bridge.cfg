SPECIFICATION Spec
CONSTANTS
    Direction = {"fport", "rport"}
    MaxBytes = 2
INVARIANTS
    TypeOK
    Contiguous
PROPERTIES
    CloseReachesClient
    ClosedIsFreed
CHECK_DEADLOCK FALSE
