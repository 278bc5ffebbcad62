\* A replaced connection takes its replacement out of the registry.
SPECIFICATION Spec
CONSTANTS
  a = a
  b = b
  c1 = c1
  c2 = c2
  c3 = c3
  NoConn = NoConn
  NoItem = NoItem
  Peers = {a, b}
  Conns = {c1, c2, c3}
  PeerOf <- MCPeerOf
  ClientKinds = {"payload"}
  Senders = {c1}
  Leavers = {}
  MaxQueueSize = 1
  MaxItems = 0
  MaxCloseAlls = 0
INVARIANT
  RegisteredIsReachable
CHECK_DEADLOCK FALSE
