\* Three payloads, one too long for QUIC and one by another name; a caller, a flush
\* task and a flush by hand.
SPECIFICATION FairSpec
CONSTANTS
  NoTask = "none"
  NoPayload = NoPayload
  MaxSends = 3
  RelayPayloads = {1, 2, 3}
  ChannelCap = 1
  Oversized = {2}
  ByName = {3}
  Callers = {"caller"}
  FlushTasks = {"task"}
  Flushers = {"hand"}
INVARIANTS
  TypeOK
  ReceivedInOrder
  OnlyCutsSkip
PROPERTIES
  HeldUntilHanded
  PendingIsFlushed
CHECK_DEADLOCK FALSE
