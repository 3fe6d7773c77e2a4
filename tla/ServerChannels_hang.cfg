SPECIFICATION FairSpec
CONSTANTS
  k1 = k1
  k2 = k2
  u1 = u1
  u2 = u2
  t1 = t1
  c1 = c1
  c2 = c2
  i1 = i1
  i2 = i2
  NoSession = NoSession
  Key = {k1}
  UsbSession = {u1}
  TcpSession = {}
  Id = {u1}
  Assigned <- OwnIds
  KeyOf <- OneSession
  Channel = {c1}
  Wanted <- OneNamed
  Command = {"exec"}
  Streamer = {i1}
  MaxCommands = 1
CHECK_DEADLOCK FALSE
PROPERTY NoClientHangs
