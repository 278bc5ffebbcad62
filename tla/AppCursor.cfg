\* Characters of one and of two bytes.
SPECIFICATION InputSpec
CONSTANTS
  Widths = {1, 2}
  MaxInput = 3
INVARIANTS
  CursorOnBoundary
CHECK_DEADLOCK FALSE
