SPECIFICATION Spec
CONSTANTS
    UsbSession = {"u"}
    HdcdSession = {"t"}
    Handler = {"f1", "f2", "f3", "r1", "r2", "tr", "fi1", "fi2", "rm1", "rm2"}
    Request <- Commands
    Given <- Mixes
INVARIANTS
    TypeOK
    ListedIsServed
    ListenersAreListed
    FailedHoldsNothing
PROPERTIES
    SetupEnds
    LostIsForgotten
CHECK_DEADLOCK FALSE
