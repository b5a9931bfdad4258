SPECIFICATION CapSpec
CONSTANTS
  Nodes <- MCNodes
  Params = {7, 300}
  Positions = {0, 255, 256}
  NoEvent = NoEvent
INVARIANTS
  AdvertisedIsHandled
  ConfirmAsAdvertised
  TriggerMatchesRow
  DedupLosesNothing
  NotifiesAsAdvertised
CHECK_DEADLOCK FALSE
