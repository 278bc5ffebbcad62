\* Two peers, two rooms whose names are the same or differ in case, four frames, one fault.
SPECIFICATION Spec
CONSTANTS
  Peers = {alice, bob}
  Dev = Dev
  dev = dev
  RawNames <- TypedNames
  Sanitize <- SanitizeTyped
  Invalid = "invalid"
  Lower <- LowerTyped
  MaxRooms = 2
  LocalCap = 2
  SeatCap = 2
  DirectoryCap = 2
  QueueCap = 1
  MaxFrames = 4
  MaxFaults = 1
SYMMETRY MCSymmetry
INVARIANTS
  TypeOK
  DirectoryIsTrue
  RequestsAreKept
CHECK_DEADLOCK FALSE
