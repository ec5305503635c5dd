\* Functions three deep.
SPECIFICATION Spec
CONSTANTS
  Variables <- MCVariables
  FunctionNames <- MCFunctionNames
  Parameters = {"max"}
  Builtins <- MCBuiltins
  Autoloads = {"p#f"}
  MaxScopes = 4
  MaxSymbols = 5
  MaxFunctions = 3
  MaxDeclarations = 3
  MaxBindings = 2
  MaxDiagnostics = 1
INVARIANTS
  CapturesAreReached
\* A script ends, and a refused one is not followed further.
CHECK_DEADLOCK FALSE
