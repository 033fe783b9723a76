SPECIFICATION FairSpec
CONSTANTS
  NSession = 1
  MaxTurn = 2
  NIntent = 1
  Idle = 1
  Delays <- Delays1
  Saves = {TRUE, FALSE}
  Wholes = {TRUE, FALSE}
  Deeds = {"NONE", "SAVED"}
  Misses = {"look", "check", "verify"}
  MaxTroubles = 1
INVARIANTS
  DecidedInSilence
PROPERTIES
  SilenceSettles
CHECK_DEADLOCK FALSE
