SPECIFICATION Spec
CONSTANTS
  MaxAttempts = 1
  QueueCap = 2
  ChannelCap = 2
  Refused = {}
  MaxMessages = 1
  MaxSessions = 2
INVARIANT
  QueueIsDrained
CHECK_DEADLOCK FALSE
