\* Texts of any length with blocks in blocks.
SPECIFICATION MCSpec
CONSTANTS
  MaxDepth = 2
  Lexemes = {"let", "unlet", "echo", "throw", "return", "break", "finish",
             "if", "elseif", "else", "endif", "while", "endwhile",
             "for", "in", "endfor", "try", "catch", "finally", "endtry",
             "function", "endfunction", "x", "name", "ex", "attr", "sig",
             "default", "number", "single", "double", "heredoc", "=", "comma", "colon",
             "junk", "nl", "bar", "semi", "cont"}
INVARIANTS
  DepthsMatch
  
  
PROPERTIES
  ReadsOn
CHECK_DEADLOCK FALSE
