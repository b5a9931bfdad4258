SPECIFICATION Spec
CONSTANTS
  LayerBits = 3
  KeymapLayers <- MCKeymapLayers
  Positions = {5, 256}
  MaxPosition = 255
  LayerKeys <- MCNone
  Bindings <- MCNone
  MaxJobs = 1
  Commands <- StreamCommands
  NoCommand = none
  Depth = 1
  MaxArrivals = 2
  LastEntry = 1
  StartIndices = {0, 1}
  NoThread = "none"
  WaitCap = 2
  HostMayStall = FALSE
INVARIANTS
  StreamMuted
CHECK_DEADLOCK FALSE
