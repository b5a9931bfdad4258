SPECIFICATION Spec
CONSTANTS
  LayerBits = 3
  KeymapLayers <- MCKeymapLayers
  Positions = {5}
  MaxPosition = 255
  LayerKeys <- MCNone
  Bindings <- HostBindings
  MaxJobs = 2
  Commands <- HostCommands
  NoCommand = none
  Depth = 1
  MaxArrivals = 3
  LastEntry = 1
  StartIndices = {0, 1}
  NoThread = "none"
  WaitCap = 2
  HostMayStall = FALSE
INVARIANTS
  ConfirmsInOrder
  OwnReportsInOrder
CHECK_DEADLOCK FALSE
