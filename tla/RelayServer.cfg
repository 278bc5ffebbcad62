\* Safety of the routing: two peers, one of which reconnects.
SPECIFICATION Spec
CONSTANTS
  a = a
  b = b
  c1 = c1
  c2 = c2
  c3 = c3
  NoConn = NoConn
  NoItem = NoItem
  Peers = {a, b}
  Conns = {c1, c2, c3}
  PeerOf <- MCPeerOf
  ClientKinds = {"payload"}
  Senders = {c1}
  Leavers = {c2, c3}
  MaxQueueSize = 2
  MaxItems = 3
  MaxCloseAlls = 0
INVARIANTS
  TypeOK
  NoDanglingEntry
  HeldForAddressee
  SourceOrder
PROPERTY
  AtMostOnceToAddressee
SYMMETRY
  MCSymmetry
CHECK_DEADLOCK FALSE
