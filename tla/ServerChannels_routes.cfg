SPECIFICATION Spec
CONSTANTS
  k1 = k1
  k2 = k2
  u1 = u1
  u2 = u2
  t1 = t1
  c1 = c1
  c2 = c2
  i1 = i1
  i2 = i2
  NoSession = NoSession
  Key = {k1}
  UsbSession = {u1}
  TcpSession = {}
  Id = {u1}
  Assigned <- OwnIds
  KeyOf <- OneSession
  Channel = {c1}
  Wanted <- OneAny
  Command = {"uninstall", "track", "keepalive", "jdwp_list", "list", "waitfor"}
  Streamer = {i1, i2}
  MaxCommands = 3
CHECK_DEADLOCK FALSE
INVARIANTS TypeOK NoOrphanReceiver
