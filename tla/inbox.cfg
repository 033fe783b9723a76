SPECIFICATION FairSpec
CONSTANTS
  Lineages = {"a", "b"}
  MaxDecisions = 2
  MaxMoves = 1
INVARIANTS
  DecidesOnWhatWasShown
PROPERTIES
  ListConverges
CHECK_DEADLOCK FALSE
