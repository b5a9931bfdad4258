SPECIFICATION RgbSpec
CONSTANTS
  MaxColour = 2
  Effects = 2
  Sets <- MCSets
  MaxSets = 2
  MaxKeys = 2
INVARIANTS
  RgbTypeOK
  StaticsFollow
  AbsoluteSet
  AbsentKeptUnlessBypassed
PROPERTIES
  LightsUpAsNamed
CHECK_DEADLOCK FALSE
