SPECIFICATION FairSpec
CONSTANTS
  MaxTurn = 2
  MaxPreviews = 1
  Outcomes = {"NONE", "READY"}
  MaxCrashes = 1
  MaxFaults = 1
INVARIANTS
  PurgeIsQuiet
  PurgedStaysAway
PROPERTIES
  PurgeEnds
CHECK_DEADLOCK FALSE
