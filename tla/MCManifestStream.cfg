SPECIFICATION StreamSpec
CONSTANTS
  BoardName = "board"
  ConfigId = "guid"
  Ids <- MCIds
  Length <- MCLength
  ChunkSize = 2
  MaxCaps = 2
  Width = 7
  MaxTable = 4
  MaxStart = 5
  MaxLost = 1
INVARIANTS
  ReadBack
  StreamsTheReference
  EveryCapabilityListed
  EntriesUnmixed
CHECK_DEADLOCK FALSE
