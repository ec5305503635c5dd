------------------------------- MODULE Parser -------------------------------
(***************************************************************************)
(* Parser (src/parser.rs) as a pushdown machine: the recursive descent     *)
(* over statements and blocks, the recovery after an error, and the Ex     *)
(* commands that are cut out of the raw source (src/ex_parser.rs).         *)
(*                                                                         *)
(* frames are the calls of block_until that are active, innermost last:    *)
(* the kind of the part of a block they read.  todo is what is left of the *)
(* rule of the statement or header that is being read.  An expression is   *)
(* one operand, or the tokens before the place where its parser gives up.  *)
(***************************************************************************)
EXTENDS Lexer, FiniteSets

CONSTANT MaxDepth     \* bound on the nesting of blocks; the code has none

ASSUME DepthAssumption == MaxDepth \in Nat

VARIABLES
    mode,             \* where parse() and block_until() are
    todo,             \* what the current rule still expects
    opens,            \* the kind of block the rule opens when it is done
    frames,           \* the open blocks
    loop_depth,
    function_depth,
    diagnostics       \* some diagnostic was reported

pvars == <<mode, todo, opens, frames, loop_depth, function_depth, diagnostics>>
vars  == <<lexing, pvars>>

Separators   == {"nl", "bar", "semi", "cont"}   \* skip_separators
StatementEnd == {"nl", "bar", "semi", "eof"}    \* at_statement_end

Loops     == {"while", "for"}
BlockKinds == {"if", "else", "while", "for", "try", "finally", "function"}

Open == frames[Len(frames)]
Outer == SubSeq(frames, 1, Len(frames) - 1)

\* The terminators block_until is called with, and what each of them starts:
\* another part of the block, or the end of the statement.
Ends(kind) ==
    IF kind = "if" THEN {"elseif", "else", "endif"}
    ELSE IF kind = "else" THEN {"endif"}
    ELSE IF kind = "while" THEN {"endwhile"}
    ELSE IF kind = "for" THEN {"endfor"}
    ELSE IF kind = "try" THEN {"catch", "finally", "endtry"}
    ELSE IF kind = "finally" THEN {"endtry"}
    ELSE {"endfunction"}

Terminators == UNION {Ends(kind) : kind \in BlockKinds}

\* The keywords statement() takes, and the colon.
Starters == {"let", "unlet", "echo", "throw", "return", "break", "finish", "if", "while",
             "for", "try", "function", "colon"}

\* What follows keyword k, to the end of the statement or of the header.
RuleOf(k) ==
    IF k \in {"if", "elseif", "while", "throw"} THEN <<"expr", "end">>
    ELSE IF k = "let" THEN <<"target", "=", "expr", "end">>
    ELSE IF k = "for" THEN <<"target", "in", "expr", "end">>
    ELSE IF k = "unlet" THEN <<"some", "end">>
    ELSE IF k = "echo" THEN <<"exprs", "end">>
    ELSE IF k = "return" THEN <<"option", "end">>
    ELSE IF k = "function" THEN <<"sig", "attrs", "end">>
    ELSE IF k = "catch" THEN <<"pattern", "end">>
    ELSE IF k = "colon" THEN <<"command", "end">>
    ELSE <<"end">>

\* Mutant: catch clauses are still read after a finally.
OpensAgain(k) ==
    IF k \in {"if", "elseif"} THEN "if"
    ELSE IF k \in {"try", "catch", "finally"} THEN "try"
    ELSE IF k \in BlockKinds THEN k ELSE "none"

\* The block whose statements come after keyword k's header.
Opens(k) ==
    IF k \in {"if", "elseif"} THEN "if"
    ELSE IF k \in {"try", "catch"} THEN "try"
    ELSE IF k \in BlockKinds THEN k ELSE "none"

\* The text goes on with any lexeme, but for a block that is too deep.
Headers == {"if", "while", "for", "try", "function"}
Deep == Len(frames) + (IF opens = "none" THEN 0 ELSE 1)
Advance == AdvanceTo(IF Deep < MaxDepth THEN Lexemes ELSE Lexemes \ Headers)

Steps == {"expr", "target", "more", "string", "=", "in", "sig", "attrs", "end", "some",
          "exprs", "comma", "option", "pattern", "command", "ranged", "last", "raw"}

Init ==
    /\ LexInit
    /\ mode = "between" /\ todo = <<>> /\ opens = "none" /\ frames = <<>>
    /\ loop_depth = 0 /\ function_depth = 0
    /\ diagnostics = FALSE

-----------------------------------------------------------------------------
\* Err(()): the rule is given up, and the block that holds the statement
\* synchronizes.
Err ==
    /\ diagnostics' = TRUE
    /\ mode' = "sync" /\ todo' = <<>> /\ opens' = "none"
    /\ UNCHANGED <<frames, loop_depth, function_depth>>

\* The rule goes on with steps.
Goes(steps) ==
    /\ mode' = "rule" /\ todo' = steps
    /\ UNCHANGED <<opens, frames, loop_depth, function_depth, diagnostics>>

Matching(step) == mode = "rule" /\ todo # <<>> /\ Head(todo) = step
Rest == Tail(todo)

\* skip_separators, after a statement and at the start.
SkipSeparators ==
    /\ mode = "between" /\ current.kind \in Separators
    /\ Advance
    /\ UNCHANGED pvars

\* Mutant: a keyword that ends a block ends the recovery too.
SynchronizeAtKeyword ==
    /\ mode = "sync"
    /\ IF current.kind \in StatementEnd \cup Terminators
       THEN mode' = "between" /\ UNCHANGED lexing
       ELSE Advance /\ UNCHANGED mode
    /\ UNCHANGED <<todo, opens, frames, loop_depth, function_depth, diagnostics>>

\* synchronize: the rest of the statement is skipped.
Synchronize ==
    /\ mode = "sync"
    /\ IF current.kind \in StatementEnd
       THEN mode' = "between" /\ UNCHANGED lexing
       ELSE Advance /\ UNCHANGED mode
    /\ UNCHANGED <<todo, opens, frames, loop_depth, function_depth, diagnostics>>

\* Mutant: the `?` after block_until comes before the depth is taken back.
LeaveEarly ==
    /\ frames' = Outer
    /\ loop_depth' = IF Open \in Loops /\ current.kind # "eof" THEN loop_depth - 1 ELSE loop_depth
    /\ function_depth' = IF Open = "function" THEN function_depth - 1 ELSE function_depth

\* block_until returns, and its caller takes its depth back.
Leave ==
    /\ frames' = Outer
    /\ loop_depth' = IF Open \in Loops THEN loop_depth - 1 ELSE loop_depth
    /\ function_depth' = IF Open = "function" THEN function_depth - 1 ELSE function_depth

\* It is called, for a block of that kind, if any.
Enter(kind) ==
    /\ frames' = IF kind = "none" THEN frames ELSE Append(frames, kind)
    /\ loop_depth' = IF kind \in Loops THEN loop_depth + 1 ELSE loop_depth
    /\ function_depth' = IF kind = "function" THEN function_depth + 1 ELSE function_depth

\* The open block ends, or its next part begins.
Terminate ==
    /\ mode = "between" /\ frames # <<>> /\ current.kind \in Ends(Open)
    /\ Advance
    /\ Leave
    /\ mode' = "rule" /\ todo' = RuleOf(current.kind) /\ opens' = Opens(current.kind)
    /\ UNCHANGED diagnostics

\* P031: the text ends inside the block; the statement around it fails too.
Unterminated ==
    /\ mode = "between" /\ frames # <<>> /\ current.kind = "eof"
    /\ Leave
    /\ diagnostics' = TRUE
    /\ UNCHANGED <<lexing, mode, todo, opens>>

EndOfProgram ==
    /\ mode = "between" /\ frames = <<>> /\ current.kind = "eof"
    /\ mode' = "done"
    /\ UNCHANGED <<lexing, todo, opens, frames, loop_depth, function_depth, diagnostics>>

\* A statement starts here.
AtStatement ==
    /\ mode = "between"
    /\ current.kind \notin Separators \cup {"eof"}
    /\ frames # <<>> => current.kind \notin Ends(Open)

\* Mutant: break and continue are not checked.
MisplacedReturn == current.kind = "return" /\ function_depth = 0

\* P020, P021 and P022: reported, and the statement is parsed all the same.
Misplaced ==
    \/ current.kind = "return" /\ function_depth = 0
    \/ current.kind = "break" /\ loop_depth = 0

\* statement(): a keyword, or the colon, and the rule it starts.
KeywordStatement ==
    /\ AtStatement /\ current.kind \in Starters
    /\ Advance
    /\ mode' = "rule" /\ todo' = RuleOf(current.kind) /\ opens' = Opens(current.kind)
    /\ diagnostics' = (diagnostics \/ Misplaced)
    /\ UNCHANGED <<frames, loop_depth, function_depth>>

\* P023: nothing is consumed, synchronize skips the terminator.
UnexpectedTerminator ==
    /\ AtStatement /\ current.kind \in Terminators
    /\ Err
    /\ UNCHANGED lexing

\* A name with an assignment operator after it.
AssignmentStatement ==
    /\ AtStatement /\ current.kind = "name"
    /\ Goes(RuleOf("let"))
    /\ UNCHANGED lexing

\* A name that is an Ex command.
ExStatement ==
    /\ AtStatement /\ current.kind \in Commands
    /\ Goes(<<"command", "end">>)
    /\ UNCHANGED lexing

\* Anything else is an expression.
ExpressionStatement ==
    /\ AtStatement
    /\ current.kind \notin Starters \cup Terminators \cup Names
    /\ Goes(<<"expr", "end">>)
    /\ UNCHANGED lexing

-----------------------------------------------------------------------------
\* expression(): continuations are skipped around the operand; prefix()
\* advances before it looks at the token, even at the end of a line.
Expression ==
    /\ \/ Matching("expr") \/ Matching("target") \/ Matching("string")
    /\ Advance
    /\ \/ /\ current.kind = "cont"
          /\ UNCHANGED pvars
       \/ /\ current.kind \notin Operands \cup {"cont"}
          /\ Err
       \/ /\ current.kind \in Operands
          /\ IF Head(todo) = "target" /\ current.kind \notin Names \cup {"x"}
             THEN Err                                         \* P003
             ELSE /\ mode' = "rule" /\ todo' = <<"more">> \o Rest
                  /\ diagnostics' = \/ diagnostics
                                    \/ /\ Head(todo) = "string"        \* P030
                                       /\ current.kind \notin Strings
                  /\ UNCHANGED <<opens, frames, loop_depth, function_depth>>

MoreOfExpression ==
    /\ Matching("more")
    /\ IF current.kind = "cont" THEN Advance /\ UNCHANGED pvars
                                ELSE UNCHANGED lexing /\ Goes(Rest)

\* expect_keyword(In), the assignment operator, and a function's name and
\* parameters: a token is consumed only if it is the right one.
Right(step) == IF step = "sig" THEN {"sig", "default"} ELSE {step}

Expect ==
    \E step \in {"=", "in", "sig"} :
        /\ Matching(step)
        /\ IF current.kind \in Right(step) THEN Advance /\ Goes(Rest)
                                          ELSE UNCHANGED lexing /\ Err

\* The attributes of a function, as many as there are.
Attributes ==
    /\ Matching("attrs")
    /\ IF current.kind = "attr" THEN Advance /\ UNCHANGED pvars
                                ELSE UNCHANGED lexing /\ Goes(Rest)

\* require_statement_end; a header then opens its block.
EndOfStatement ==
    /\ Matching("end")
    /\ UNCHANGED lexing
    /\ IF current.kind \notin StatementEnd THEN Err                   \* P006
       ELSE /\ mode' = "between" /\ todo' = <<>> /\ opens' = "none"
            /\ UNCHANGED diagnostics
            /\ Enter(opens)

\* unlet's targets (P004 without any), echo's expressions, return's value.
Listed ==
    /\ UNCHANGED lexing
    /\ \/ Matching("some") /\ current.kind \in StatementEnd /\ Err
       \/ /\ Matching("some") /\ current.kind \notin StatementEnd
          /\ Goes(<<"expr", "comma", "exprs">> \o Rest)
       \/ /\ Matching("exprs") /\ current.kind \notin StatementEnd
          /\ Goes(<<"expr", "comma">> \o todo)
       \/ Matching("option") /\ current.kind \notin StatementEnd /\ Goes(<<"expr">> \o Rest)
       \/ /\ Matching("exprs") \/ Matching("option")
          /\ current.kind \in StatementEnd
          /\ Goes(Rest)

\* consume_simple(Comma): one comma, if it is there.
OptionalComma ==
    /\ Matching("comma")
    /\ IF current.kind = "comma" THEN Advance /\ Goes(Rest)
                                 ELSE UNCHANGED lexing /\ Goes(Rest)

\* catch: a quoted pattern, none, or an expression that had better be one.
Pattern ==
    /\ Matching("pattern")
    /\ \/ current.kind \in {"single", "double"} /\ Advance /\ Goes(Rest)
       \/ current.kind \in StatementEnd /\ UNCHANGED lexing /\ Goes(Rest)
       \/ /\ current.kind \notin {"single", "double"} \cup StatementEnd
          /\ UNCHANGED lexing /\ Goes(<<"string">> \o Rest)

\* ex_command(), with the source: ExLineParser reads the whole physical line,
\* from its start.  That is this command's text only if nothing but a colon is
\* in front of it.
Own == current.line = "own"

\* Otherwise the line's first command is parsed once more, and the tokens
\* up to its end are behind the cursor: nothing is consumed.
ExCommand ==
    /\ Matching("command")
    /\ \/ Own /\ current.kind \in Words /\ Advance /\ Goes(<<"raw">> \o Rest)
       \/ Own /\ current.kind = "number" /\ Advance /\ Goes(<<"ranged">> \o Rest)
       \/ Own /\ current.kind = "single" /\ Advance /\ Goes(<<"raw">> \o Rest)
       \/ ~Own /\ current.line = "word" /\ UNCHANGED lexing /\ Goes(Rest)
       \/ /\ IF Own THEN current.kind \notin Words \cup {"number"} ELSE current.line = "other"
          /\ UNCHANGED lexing /\ Err                                  \* X001

\* A number in front of the command's name is its range, or half of it.  (A text
\* in single quotes may be a mark and a name, for all that is known of it here;
\* ranges with a semicolon are left out.)
RangedCommand ==
    /\ Matching("ranged") \/ Matching("last")
    /\ \/ current.kind \in Words /\ Advance /\ Goes(<<"raw">> \o Rest)
       \/ Matching("ranged") /\ current.kind = "comma" /\ Advance /\ Goes(<<"last">> \o Rest)
       \/ Matching("last") /\ current.kind = "number" /\ Advance /\ Goes(<<"ranged">> \o Rest)
       \/ /\ current.kind \notin Words \cup {IF Matching("last") THEN "number" ELSE "comma"}
          /\ UNCHANGED lexing /\ Err

\* The tokens of the Ex command are skipped: up to a bar, or to the end of the
\* raw line, which a continuation and a heredoc do not extend.
RawEnd == StatementEnd \ {"semi"}

SkipRaw ==
    /\ Matching("raw")
    /\ \/ current.kind \in RawEnd /\ UNCHANGED lexing /\ Goes(Rest)
       \/ current.kind \in {"cont", "heredoc"} /\ Advance /\ Goes(Rest)
       \/ /\ current.kind \notin RawEnd \cup {"cont", "heredoc"}
          /\ Advance /\ UNCHANGED pvars

-----------------------------------------------------------------------------
Statement == \/ KeywordStatement \/ UnexpectedTerminator
             \/ AssignmentStatement \/ ExStatement \/ ExpressionStatement

Rule == \/ Expression \/ MoreOfExpression \/ Expect \/ Attributes \/ EndOfStatement
        \/ Listed \/ OptionalComma \/ Pattern \/ ExCommand \/ RangedCommand \/ SkipRaw

Next == \/ SkipSeparators \/ Synchronize \/ Terminate \/ Unterminated \/ EndOfProgram
        \/ Statement \/ Rule

Spec == Init /\ [][Next]_vars

-----------------------------------------------------------------------------
\* Every variable has its type (the fields of Parser and Lexer).
TypeOK ==
    /\ LexTypeOK
    /\ mode \in {"between", "rule", "sync", "done"}
    /\ todo \in Seq(Steps)
    /\ opens \in BlockKinds \cup {"none"}
    /\ frames \in Seq(BlockKinds)
    /\ loop_depth \in Nat
    /\ function_depth \in Nat
    /\ diagnostics \in BOOLEAN

\* The open blocks of the given kinds.
Framed(kinds) == {i \in 1 .. Len(frames) : frames[i] \in kinds}

\* The depths by which return, break and continue are judged count the open
\* functions and loops, whatever errors left blocks early: block_until's
\* result is looked at only after the depth was taken back.
DepthsMatch ==
    /\ loop_depth = Cardinality(Framed(Loops))
    /\ function_depth = Cardinality(Framed({"function"}))

\* How far the parser is from needing the next token, in front of one token:
\* errors end in synchronize, which passes over anything that is no separator,
\* and where a statement ends the blocks around it get their turn.
StepRank(step) ==
    IF step = "more" THEN 4
    ELSE IF step = "comma" THEN 3
    ELSE IF step \in {"some", "exprs", "option", "pattern", "command", "ranged", "last",
                       "raw", "attrs"} THEN 2
    ELSE 1

HeadRank == IF todo = <<>> THEN 0 ELSE StepRank(Head(todo))

Phase ==
    IF current.kind \in StatementEnd
    THEN IF mode = "rule" THEN 3 + HeadRank
         ELSE IF mode = "sync" THEN 2 ELSE IF mode = "between" THEN 1 ELSE 0
    ELSE IF mode = "between" THEN 6
         ELSE IF mode = "rule" THEN 1 + HeadRank ELSE 0

\* parse() returns whatever the text is: a step that does not read on brings
\* the parser nearer to a step that does, or closes a block at the end of the
\* text; error recovery never goes round in circles in front of one token.
ReadsOn ==
    [][\/ cursor' # cursor
       \/ Phase' < Phase
       \/ Phase' = Phase /\ Len(frames') < Len(frames)]_vars
=============================================================================
