\* Liveness of the handlers: one frame, every client may leave, one close_all.
SPECIFICATION FairSpec
CONSTANTS
  a = a
  b = b
  c1 = c1
  c2 = c2
  c3 = c3
  NoConn = NoConn
  NoItem = NoItem
  Peers = {b}
  Conns = {c2, c3}
  PeerOf <- MCPeerOf
  ClientKinds = {"large", "room", "join"}
  Senders = {c2, c3}
  Leavers = {c2, c3}
  MaxQueueSize = 1
  MaxItems = 1
  MaxCloseAlls = 1
PROPERTIES
  ReplacedHandlerEnds
  DeadConnectionLeaves
CHECK_DEADLOCK FALSE
