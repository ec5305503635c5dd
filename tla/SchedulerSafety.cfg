\* Two tasks, one of which may be the other's child, and two operations,
\* futures shared at will, every driving call.
SPECIFICATION Spec
CONSTANTS
  MaxTasks = 2
  MaxOps = 2
  Shared = TRUE
  Cancels = TRUE
  Calls = {"tick", "complete", "stalled"}
  Cloned = {0, 1}
INVARIANTS
  ReadyQueueExact
  WaitingTableSound
  OperationQueueExact
  NoLostWake
PROPERTIES
  CancelCascades
  OnlyResultsResume
  RoundRobin
\* The embedder may stop, and run_until_complete may block for ever.
CHECK_DEADLOCK FALSE
