SPECIFICATION HubSpec
CONSTANTS
  Devices <- MCDevices
  Actions = {"dpi.set", "snipe.set"}
  Found <- MCFound
  Handles <- MCHandles
  Emits <- MCEmits
  NoDevice = "none"
  Buffer = 2
  MaxLog = 2
INVARIANTS
  OnceInOrder
  OnlyToHandlers
  NothingForgotten
PROPERTY
  ImplementsBroker
CHECK_DEADLOCK FALSE
