\* Scripts that await each future once, and cancellations, against the
\* abstract lifecycle; an embedder that keeps calling, and hosts that go on.
SPECIFICATION FairSpec
CONSTANTS
  MaxTasks = 2
  MaxOps = 2
  Shared = FALSE
  Cancels = TRUE
  Calls = {"complete", "tick"}
  Cloned = {1}
INVARIANTS
  BlockedTargetIsWoken
PROPERTIES
  ImplementsLifecycle
  FinishedAwaitResumes
  ReadyTaskGetsItsTurn
CHECK_DEADLOCK FALSE
