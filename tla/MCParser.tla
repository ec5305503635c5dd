------------------------------ MODULE MCParser ------------------------------
(***************************************************************************)
(* The parser of Parser on every text of its lexemes, with the reader of   *)
(* VimBlocks next to it, which sees the same lexemes.                      *)
(***************************************************************************)
EXTENDS Parser

V == INSTANCE VimBlocks

VARIABLE reader

mcvars == <<vars, reader>>

\* The reader takes what the lexer took, a dropped comment included.
ReadOn ==
    LET before == IF current'.comment THEN V!Read(reader, "double", TRUE) ELSE reader
    IN  V!Read(before, current'.kind, FALSE)

MCInit == Init /\ reader = V!Start
MCNext == Next /\ reader' = IF cursor' # cursor THEN ReadOn ELSE reader
MCSpec == MCInit /\ [][MCNext]_mcvars 

\* Where a command starts, the parser has the blocks open that Vim's rules
\* have; also after errors, as long as the refused commands were neither headers
\* nor ends of blocks and did not lack an expression at their end.  After that,
\* and after any other departure that VimBlocks marks, nothing is compared.
SameNesting ==
    (mode = "between" /\ current.kind # "eof" /\ ~reader.away)
        => frames = reader.open

\* A text without departures is parsed without a diagnostic exactly if it is a
\* script; and no departure lets a refused command pass without a diagnostic.
AcceptsExactly ==
    mode = "done" =>
        /\ reader.refused => diagnostics
        /\ ~reader.away => (diagnostics <=> (reader.refused \/ reader.open # <<>>))
=============================================================================
