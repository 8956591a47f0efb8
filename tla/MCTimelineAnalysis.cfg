SPECIFICATION TimelineSpec
CONSTANTS
  Scale = 4830
  MaxTime = 3
  MaxSnapshots = 4
  ChannelLists <- MCChannelLists
  FlagInputs <- MCFlagInputs
INVARIANTS
  HighsAreWindowsOfTheFile
  GateIgnoresDisplay
  OrderOfFileIsIrrelevant
PROPERTY LaterSnapshotsClearNothing
CHECK_DEADLOCK FALSE
