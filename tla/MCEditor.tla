------------------------------ MODULE MCEditor --------------------------------
(***************************************************************************)
(* Editor with small buffers and every short range.                        *)
(***************************************************************************)
EXTENDS VimRanges

MCAddresses ==
    LET Offsets == {<<>>, <<-1>>, <<-2, 3>>, <<2, -1>>}
    IN  [base : {"current", "last", "elsewhere"}, line : {0}, offsets : Offsets]
        \cup [base : {"line"}, line : {0, 2, 9}, offsets : Offsets]

MCLineNumbers == -1 .. (MaxLines + 1)
MCColumns == {-1, 0}

\* What was asked and answered has no influence on what comes next.
EditorState == bufferVars
=============================================================================
