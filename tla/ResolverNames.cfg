\* Every script of up to four names and three functions, nested or not.
SPECIFICATION Spec
CONSTANTS
  Variables <- MCVariables
  FunctionNames <- MCFunctionNames
  Parameters = {"max"}
  Builtins <- MCBuiltins
  Autoloads = {"p#f"}
  MaxScopes = 4
  MaxSymbols = 5
  MaxFunctions = 3
  MaxDeclarations = 3
  MaxBindings = 2
  MaxDiagnostics = 1
INVARIANTS
  TypeOK
  FrameLayout
  LocalsStayInside
  ReferencesReach
  ImmutableSetOnce
\* A script ends, and a refused one is not followed further.
CHECK_DEADLOCK FALSE
