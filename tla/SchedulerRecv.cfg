\* run_until_complete after a cancellation.
SPECIFICATION Spec
CONSTANTS
  MaxTasks = 2
  MaxOps = 2
  Shared = FALSE
  Cancels = TRUE
  Calls = {"tick", "complete"}
  Cloned = {}
INVARIANTS
  BlocksOnlyForFutureWake
CHECK_DEADLOCK FALSE
