\* A remote peer and a room; every channel can be full.
SPECIFICATION ClientSpec
CONSTANTS
  MaxTasks = 2
  Remotes = {"bob"}
  Rooms = {"dev"}
  Values = {"", "bob"}
  CmdCap = 1
  EventCap = 2
  ChatCap = 1
  OfflineCap = 1
  MaxKeys = 3
  MaxArrivals = 1
  MaxOutages = 1
INVARIANTS
  ClientTypeOK
  ScreenIsTrue
CHECK_DEADLOCK FALSE
