-------------------------------- MODULE Lexer -------------------------------
(***************************************************************************)
(* src/lexer.rs, as far as what a token is depends on what came before it: *)
(* the lexer of a text that the environment writes lexeme by lexeme.       *)
(*                                                                         *)
(* A lexeme stands for a class of source text:                             *)
(*   a keyword    "let" (also const), "echo" (execute), "break" (continue) *)
(*                and the others under their own names                     *)
(*   "name"       a name right before an assignment operator               *)
(*   "ex"         any other name, with no operator and no bracket after    *)
(*                it: where a statement starts it is a command of the host *)
(*                (looks_like_source_ex_command)                           *)
(*   "attr"       the name of a function attribute, abort say, likewise    *)
(*   "x"          a[0]; an expression that may be assigned to and is no    *)
(*                name, "sig"  F(a, b), any other that starts with a name  *)
(*   "default"    F(a, b = 1), which only declares a function              *)
(*   "number"     a number, "single"  '...', "double"  a text in "..."     *)
(*   "heredoc"    << END, the lines below it, and the line END             *)
(*   "junk"       a token that no expression starts with or goes on with   *)
(*   "comma"      a comma between the operands of a command                *)
(*   "nl", "bar", "semi", "cont", "eof"  a newline, |, a semicolon, a      *)
(*                backslash at the end of a line, the end of the text      *)
(* The text may be of any length.                                          *)
(***************************************************************************)
EXTENDS Naturals, Sequences

CONSTANT Lexemes      \* the lexemes the text may hold before its end

Keywords == {"let", "unlet", "echo", "throw", "return", "break", "finish",
             "if", "elseif", "else", "endif", "while", "endwhile",
             "for", "in", "endfor", "try", "catch", "finally", "endtry",
             "function", "endfunction"}

Strings  == {"single", "double", "heredoc"}
Commands == {"ex", "attr"}
Names    == {"name"} \cup Commands
Operands == Names \cup {"x", "sig", "number"} \cup Strings
Kinds    == Keywords \cup Operands
            \cup {"=", "comma", "colon", "default", "junk", "nl", "bar", "semi", "cont", "eof"}

ASSUME LexerAssumption == Lexemes \subseteq Kinds \ {"eof"}

VARIABLES
    current,          \* the token at the parser's cursor
    line_has_token,   \* the lexer has seen a token on this line
    expects_operand,  \* the lexer takes a double quote for a string
    line,             \* how the physical line begins: see LineStart
    cursor            \* the parser's cursor: only whether it moves, so modulo 2

lexing == <<current, line_has_token, expects_operand, line, cursor>>

\* A token knows how its physical line begins before it ("own": with nothing
\* but perhaps a colon), and whether a comment was dropped in front of it.
Token == [kind : Kinds, line : {"own", "word", "other"}, comment : BOOLEAN]

Words == Keywords \cup Names \cup {"x", "sig", "default"}

\* What the raw line of ExLineParser::parse starts with, after lexeme k: an
\* optional colon and then a command name, or no name.
LineStart(k) ==
    IF k \in {"nl", "cont", "heredoc"} THEN "empty"
    ELSE IF line \in {"word", "other"} THEN line
    ELSE IF k = "colon" /\ line = "empty" THEN "colon"
    ELSE IF k \in Words THEN "word" ELSE "other"

\* The lexemes after which the lexer expects an operand; a continuation leaves
\* the flag alone.
ExpectsOperand ==
    {"let", "unlet", "echo", "throw", "return", "in", "=", "comma", "colon", "bar", "semi", "nl"}

\* A double quote opens a comment, not a string.
OpensComment(l) == l = "double" /\ (~line_has_token \/ ~expects_operand)

\* The lexer produces a token of kind k.
Produce(k, comment) ==
    /\ current' = [kind |-> k, comment |-> comment,
                   line |-> IF line \in {"empty", "colon"} THEN "own" ELSE line]
    /\ cursor' = 1 - cursor
    /\ line_has_token' = (k \notin {"nl", "cont"})
    /\ expects_operand' = (k \in ExpectsOperand \/ (k = "cont" /\ expects_operand))
    /\ line' = LineStart(k)

\* What may come next: the classes of names differ in it.
Following(lexemes) ==
    IF current.kind = "name" THEN {"="}
    ELSE IF current.kind \in Commands THEN (lexemes \cup {"eof"}) \ {"="}
    ELSE lexemes \cup {"eof"}

\* Parser::advance: the next token, whatever the text goes on with; a comment
\* swallows the rest of its line.  At the end of the text the cursor stays.
AdvanceTo(lexemes) ==
    \/ /\ current.kind = "eof"
       /\ UNCHANGED lexing
    \/ /\ current.kind # "eof"
       /\ \E l \in Following(lexemes) :
              IF OpensComment(l) THEN \E k \in {"nl", "eof"} : Produce(k, TRUE)
                                 ELSE Produce(l, FALSE)

\* In front of the first token, which may be any.
LexInit ==
    /\ current = [kind |-> "nl", line |-> "own", comment |-> FALSE]
    /\ line_has_token = FALSE /\ expects_operand = TRUE
    /\ line = "empty"
    /\ cursor = 0

LexTypeOK ==
    /\ current \in Token
    /\ line_has_token \in BOOLEAN
    /\ expects_operand \in BOOLEAN
    /\ line \in {"empty", "colon", "word", "other"}
    /\ cursor \in {0, 1}
=============================================================================
