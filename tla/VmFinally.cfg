\* A finally clause after return, break, continue and uncaught errors.
SPECIFICATION Spec
CONSTANTS
  Modules <- MCModules
  MaxCallDepth = 3
  MaxStack = 3
  MaxInstructions = 200
INVARIANTS
  FinallyAlwaysRuns
\* A script that has ended stays as it is.
CHECK_DEADLOCK FALSE
