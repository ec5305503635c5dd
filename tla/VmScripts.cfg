\* Scripts of three levels of nesting, one function, small limits.
SPECIFICATION FairSpec
CONSTANTS
  Modules <- MCModules
  MaxCallDepth = 3
  MaxStack = 3
  MaxInstructions = 200
INVARIANTS
  TypeOK
  HandlersLive
  
  StackAsTyped
  CompiledIsTyped
PROPERTIES
  EveryScriptEnds
\* A script that has ended stays as it is.
CHECK_DEADLOCK FALSE
