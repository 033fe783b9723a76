SPECIFICATION FairSpec
CONSTANTS
  NSession = 1
  MaxTurn = 2
  Kinds <- AllKinds
  Threshold = 2
  CarryLife = 1
  MaxIntents = 2
  RouteOutcomes <- Either
  Captures <- Always
  Outputs = {"FAILED", "DEFER", "READY"}
  MaxCrashes = 1
  MaxFaults = 1
INVARIANTS
  RowsAreAdmitted
  DetectedIsCovered
  NoTurnDetectedTwice
  IntentsMatchBatch
PROPERTIES
  RequestIsServed
  EverythingSettles
ACTION_CONSTRAINT Chosen
CHECK_DEADLOCK FALSE
