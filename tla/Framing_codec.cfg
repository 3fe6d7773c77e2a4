SPECIFICATION Spec
CONSTANTS
  Link <- Links
  Message <- Samples
  MaxSent = 2
  MaxPacket = 32
CHECK_DEADLOCK FALSE
INVARIANTS Intact NoFalseAlarm
PROPERTIES EverythingArrives
