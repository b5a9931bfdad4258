SPECIFICATION Spec
CONSTANTS
  LayerBits = 3
  KeymapLayers <- MCKeymapLayers
  Positions = {256}
  MaxPosition = 255
  LayerKeys <- MCLayerKeys
  Bindings <- MixedBindings
  MaxJobs = 1
  Commands <- MixedCommands
  NoCommand = none
  Depth = 1
  MaxArrivals = 2
  LastEntry = 1
  StartIndices = {0, 1}
  NoThread = "none"
  WaitCap = 2
  HostMayStall = TRUE
INVARIANTS
  FloodMuted
  MuteHasOwner
  StreamsNotInterleaved
  HostViewCurrent
PROPERTIES
  UsesComponents
  ComesToRest
CHECK_DEADLOCK FALSE
