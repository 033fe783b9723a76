SPECIFICATION Spec
CONSTANTS
  NPages = 2
  Reads = {"AVAILABLE", "UNAVAILABLE"}
  MaxMoves = 1
INVARIANTS
  OnlyRefreshedIsRefused
PROPERTIES
  IntentSettles
CHECK_DEADLOCK FALSE
