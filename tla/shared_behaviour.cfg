SPECIFICATION Spec
CONSTANTS
  NIntent = 2
  Behaviour = {"p"}
  BehaviourOf <- Shared
  RecallOutcomes = {"COMPLETE", "INCOMPLETE"}
  CoverageOutcomes = {"AUTHORIZED", "ATTENTION", "COVERED"}
  CallOutcomes = {"VALID", "INVALID", "FAILED"}
  Actions = {"REFRESH", "REJECT", "DISMISS"}
  Views = {"CURRENT", "STALE", "UNAVAILABLE"}
  MaxRevision = 3
  MaxCrashes = 1
  MaxFaults = 2
INVARIANTS
  OneCallPerGeneration
  OneHolderPerBehaviour
  ReadyOwnsProposal
PROPERTIES
  ImplementsFence
CHECK_DEADLOCK FALSE
