SPECIFICATION Spec
CONSTANTS
  Skills = {s1}
  MaxPreviews = 2
  MaxFaults = 1
  MaxMoves = 2
  Attempts = 5
INVARIANTS
  ClearedIsNotShown
PROPERTIES
  ActivityConverges
  PanelSettles
CHECK_DEADLOCK FALSE
