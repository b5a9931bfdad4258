SPECIFICATION StartSpec
CONSTANTS
  Interfaces <- MCInterfaces
  Wanted = {"zmk", "qmk"}
  MaxRows = 5
  BoardName = "board"
  ConfigId = "guid"
  Ids <- MCIds
  Length <- MCLength
  ChunkSize = 2
  Manifests <- MCManifests
  Settle = 5
  Idle = 2
  Overlap = TRUE
  MayFail = TRUE
  MaxLost = 1
  MaxOthers = 1
INVARIANTS
  OneHandlePerUnit
  WholeManifestRead
  EarlyEndOnlyTruncates
  NothingInvented
PROPERTY
  QueryEnds
CHECK_DEADLOCK FALSE
