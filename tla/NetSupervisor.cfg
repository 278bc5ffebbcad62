\* Three texts, three connections, two attempts per outage, a queue of two and a
\* command channel of two.
SPECIFICATION FairSpec
CONSTANTS
  MaxAttempts = 2
  QueueCap = 2
  ChannelCap = 2
  Refused = {2}
  MaxMessages = 3
  MaxSessions = 3
INVARIANTS
  TypeOK
  WaitingInOrder
  NoTextVanishes
  ConnectedMeansManager
PROPERTIES
  SentAtMostOnce
  OutageEnds
  OutageIsShown
CHECK_DEADLOCK FALSE
