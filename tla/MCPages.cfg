SPECIFICATION FairSpec
CONSTANTS
  Names = {"a", "b"}
  MaxCalls = 2
  MaxRevision = 2
  MaxFailures = 1
INVARIANTS
  Current
  FormIsAccepted
  ToastIsTrue
PROPERTIES
  ButtonsComeBack
CHECK_DEADLOCK FALSE
