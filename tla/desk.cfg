SPECIFICATION Spec
CONSTANTS
  Lineages = {1}
  Operations = {"inspect", "approve", "reject", "retry", "refresh", "revise"}
  Ids = {1, 2}
  MaxAsks = 3
  MaxElsewhere = 1
  MaxFaults = 1
  MaxCrashes = 1
INVARIANTS
  RowsAreValid
  PublishedIsAccounted
PROPERTIES
  WriteIsReviewed
  ImplementsFence
CHECK_DEADLOCK FALSE
