SPECIFICATION WorkersSpec
CONSTANTS
  Threads <- MCThreads
  Prio <- MCPrio
  NoThread = "none"
  WaitCap = 2
  Commands = {layerSet, query}
  Queries = {query}
  NoCommand = none
  Depth = 2
  MaxArrivals = 4
  LastEntry = 1
  StartIndices = {0, 5}
  MaxRequests = 3
INVARIANTS
  OneInTransport
  SleepersHaveHolder
  MostUrgentWaitsOneReport
  NothingLost
  LatestRequestServed
  StreamsNeverExceedRequests
PROPERTIES
  MostUrgentReturns
  ImplementsLossyFifo
  WorkerComesToRest
CHECK_DEADLOCK FALSE
