CONSTANTS
    s1 = s1
    s2 = s2
    Session = {s1, s2}
    Key = Key
    Envs <- SessionEnvs
    MAX_AUTH_ATTEMPTS = 3
    MaxInFlight = 1
SPECIFICATION Spec
INVARIANTS
    TypeOK
    NoNoise
    ConnectedIsRead
PROPERTIES
    ConnectReturns
    EndedIsForgotten
CHECK_DEADLOCK FALSE
