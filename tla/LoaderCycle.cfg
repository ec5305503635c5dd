\* Autoload files that refer to each other.
SPECIFICATION Spec
CONSTANTS
  Embedder = "embedder"
  NoPath = "no path"
  Owners <- MCOwners
  UserNames = {"U", "V"}
  Natives = {"write", "set", "setlocal", "quit"}
  Abbreviates <- MCAbbreviates
  AcceptsBang = {"write"}
  Permitted = {"write", "set", "setlocal", "getline"}
  Functions = {"getline", "secret"}
  Arities <- MCArities
  Groups = {"gp", "gq"}
  Events = {"Enter", "Leave"}
  Patterns = {"*.txt", "*"}
  Subjects = {"n.txt", "other"}
  Matches <- MCMatches
  Keys = {"k"}
  Buffers = {"buffer1"}
  MaxExpansions = 4
  Paths <- MCPaths
  Scripts <- Files
  Canonical <- MCCanonical
  StartupPaths <- MCStartup
  Colors <- MCColors
  Names <- MCNames
  AutoloadFor <- MCAutoload
  Texts <- CyclicTexts
  Embedded <- MCEmbedded
  MaxStartups = 2
  MaxEmbedded = 1
  MaxFirings = 2
  MaxDepth = 5
INVARIANTS
  NoLoadInsideItself
CHECK_DEADLOCK FALSE
