\* Buffers of up to five lines, addresses with up to two offsets.
SPECIFICATION Spec
CONSTANTS
  Texts = {"", "t"}
  EmptyText = ""
  Addresses <- MCAddresses
  LineNumbers <- MCLineNumbers
  Columns <- MCColumns
  MaxLines = 5
VIEW EditorState
INVARIANTS
  CursorInBuffer

  
