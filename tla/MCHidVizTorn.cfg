SPECIFICATION Spec
CONSTANTS
  LayerBits = 3
  KeymapLayers <- MCKeymapLayers
  Positions = {5}
  MaxPosition = 255
  LayerKeys <- MCLayerKeys
  Bindings <- MCNone
  MaxJobs = 2
  Commands <- SetCommands
  NoCommand = none
  Depth = 1
  MaxArrivals = 2
  LastEntry = 1
  StartIndices = {0, 1}
  NoThread = "none"
  WaitCap = 2
  HostMayStall = FALSE
INVARIANTS
  LayerZeroReported
CHECK_DEADLOCK FALSE
