SPECIFICATION FairSpec
CONSTANTS
  NSession = 2
  Logs <- SomeLogs
  First = "preset"
  MaxLog = 6
  QueueLimit = 1
  LowWatermark = 0
  Attempts = 2
  SliceSessions = 1
  SliceEvents = 2
  MaxEvents = 6
  MaxTroubles = 1
INVARIANTS
  TurnsAreObserved
  DigestIsThePrefix
PROPERTIES
  WindowFollowsTurns
  EndedIsObservedOrQueued
CHECK_DEADLOCK FALSE
