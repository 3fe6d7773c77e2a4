SPECIFICATION Spec
CONSTANTS
    Direction = {"rport"}
    MaxBytes = 1
PROPERTIES
    SameAsFport
CHECK_DEADLOCK FALSE
