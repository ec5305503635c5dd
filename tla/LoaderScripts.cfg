\* Plugins and autoload files that load, fail, clash and clean up.
SPECIFICATION FairSpec
CONSTANTS
  Embedder = "embedder"
  NoPath = "no path"
  Owners <- MCOwners
  UserNames = {"U", "V"}
  Natives = {"write", "set", "setlocal", "quit"}
  Abbreviates <- MCAbbreviates
  AcceptsBang = {"write"}
  Permitted = {"write", "set", "setlocal", "getline"}
  Functions = {"getline", "secret"}
  Arities <- MCArities
  Groups = {"gp", "gq"}
  Events = {"Enter", "Leave"}
  Patterns = {"*.txt", "*"}
  Subjects = {"n.txt", "other"}
  Matches <- MCMatches
  Keys = {"k"}
  Buffers = {"buffer1"}
  MaxExpansions = 4
  Paths <- MCPaths
  Scripts <- Files
  Canonical <- MCCanonical
  StartupPaths <- MCStartup
  Colors <- MCColors
  Names <- MCNames
  AutoloadFor <- MCAutoload
  Texts <- MCTexts
  Embedded <- MCEmbedded
  MaxStartups = 2
  MaxEmbedded = 1
  MaxFirings = 2
  MaxDepth = 5
INVARIANTS
  TypeOK
  NoTraceOfFailures
  LoadedStaysDefined
  LoadedOnce
  NamespacesDistinct
  DependenciesFirst
  ReportIsTrue
  HandlersFireSoundly
  OnlyPermittedIsSent
PROPERTIES
  ScriptsKeepApart
  EveryLoadEnds
\* The embedding program may have nothing more to do.
CHECK_DEADLOCK FALSE
