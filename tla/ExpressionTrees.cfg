\* Every text of up to seven tokens that can become an expression, and each
\* way to spoil it.
SPECIFICATION Spec
CONSTANTS
  MaxTokens = 7
INVARIANTS
  ParsesAsWritten
CHECK_DEADLOCK FALSE
