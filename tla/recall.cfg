SPECIFICATION Spec
CONSTANTS
  Skills = {1}
  Proposals = {2}
  Barriers = {3}
  Writable = {1}
  Mergeable = {1}
  PerPage = 1
  MaxCalls = 2
  MaxMoves = 2
INVARIANTS
  CalledOnce
PROPERTIES
  DecidedOnOneCatalog
  RecallSettles
CHECK_DEADLOCK FALSE
