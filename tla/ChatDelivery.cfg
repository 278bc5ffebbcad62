\* Alice, without a history like the program, sends two messages and gets one; bob
\* has a history. One failure, one timeout, a duplicate set full with one message.
SPECIFICATION Spec
CONSTANTS
  alice = alice
  bob = bob
  m1 = m1
  m2 = m2
  m3 = m3
  NoMessage = NoMessage
  Peers <- MCPeers
  Other <- MCOther
  Historians = {bob}
  MessageIds = {m1, m2, m3}
  Author <- MCAuthor
  Oversized = {}
  MaxTracking = 1
  MaxFaults = 1
  MaxTimeouts = 1
INVARIANTS
  TypeOK
  DeliveredIsKept
  NoWriteForgotten
  ShownOncePerWindow
PROPERTY
  DeliveredIsFinal
CHECK_DEADLOCK FALSE
