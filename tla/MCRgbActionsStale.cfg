SPECIFICATION RgbSpec
CONSTANTS
  MaxColour = 2
  Effects = 2
  Sets <- MCSets
  MaxSets = 2
  MaxKeys = 2
INVARIANTS
  AbsentKept
CHECK_DEADLOCK FALSE
