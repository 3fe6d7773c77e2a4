SPECIFICATION Spec
CONSTANTS
  k1 = k1
  k2 = k2
  u1 = u1
  u2 = u2
  t1 = t1
  c1 = c1
  c2 = c2
  i1 = i1
  i2 = i2
  NoSession = NoSession
  Key = {k1, k2}
  UsbSession = {u1, u2}
  TcpSession = {t1}
  Id = {u1, u2, t1}
  Assigned <- OthersIds
  KeyOf <- TwoKeys
  Channel = {c1, c2}
  Wanted <- AnyAndNamed
  Command = {"exec", "reconnect"}
  Streamer = {i1}
  MaxCommands = 1
CHECK_DEADLOCK FALSE
INVARIANT RightDevice
