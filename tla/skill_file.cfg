SPECIFICATION Spec
CONSTANTS
  Kinds = {"CREATE", "MERGE"}
  Scopes = {"PROJECT", "USER"}
  Media = {"DISK", "CONTEXT"}
  Bindings = {"READY", "STALE", "UNAVAILABLE"}
  MaxEdits = 4
  MaxCrashes = 3
INVARIANTS
  OwnerBytesSurvive
PROPERTIES
  InstallReplacesOnlyTheBase
  WrittenIsNotInstalledAgain
  OpensWhereApproved
  ImplementsAttempt
CHECK_DEADLOCK FALSE
