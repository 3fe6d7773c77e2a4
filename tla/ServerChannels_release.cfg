SPECIFICATION FairSpec
CONSTANTS
  k1 = k1
  k2 = k2
  u1 = u1
  u2 = u2
  t1 = t1
  c1 = c1
  c2 = c2
  i1 = i1
  i2 = i2
  NoSession = NoSession
  Key = {k1, k2}
  UsbSession = {u1}
  TcpSession = {t1}
  Id = {u1, t1}
  Assigned <- OwnIds
  KeyOf <- OneEach
  Channel = {c1}
  Wanted <- OneAny
  Command = {"uninstall", "track", "exec"}
  Streamer = {i1}
  MaxCommands = 2
CHECK_DEADLOCK FALSE
PROPERTIES AssociatedIsClosed TrackEnds UninstallEnds CloseGetsThrough
