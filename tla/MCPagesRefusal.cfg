SPECIFICATION Spec
CONSTANTS
  Names = {"a"}
  MaxCalls = 1
  MaxRevision = 1
  MaxFailures = 0
INVARIANTS
  RefusalIsShown
CHECK_DEADLOCK FALSE
