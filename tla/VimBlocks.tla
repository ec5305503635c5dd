------------------------------ MODULE VimBlocks -----------------------------
(***************************************************************************)
(* Which texts are scripts: the commands of references/eval.txt and        *)
(* userfunc.txt (with assignments without :let, expressions as statements  *)
(* and the function attribute async, which this dialect adds), and how if, *)
(* while, for, try and function nest.  A reader takes the      *)
(* lexemes one by one, collects them into commands, and judges a command   *)
(* when its separator comes; it knows nothing of the parser's rules.       *)
(*                                                                         *)
(* A reader has                                                            *)
(*   words    the command so far, one slot of its form per lexeme          *)
(*   open     the open blocks, innermost last, by the part they are in     *)
(*   refused  some command was no command, or out of place                 *)
(*   barred   the command comes after a bar on the same line               *)
(*   joint    a continuation stands where no operand has been so far       *)
(*   away     nothing is compared any more.  Either an error hides where   *)
(*            blocks begin and end ("lost"), or the text has something     *)
(*            about which Vim's help and this parser part ways:            *)
(*     "bar"       an Ex command after a bar                               *)
(*     "listing"   :let and :function without a value or a body, which     *)
(*                 list variables and functions (eval.txt, ":let           *)
(*                 {var-name}"; userfunc.txt, ":fu[nction] {name}") and    *)
(*                 which the parser refuses                                *)
(*     "unlet"     :unlet of what is no variable, which the parser takes   *)
(*     "comma"     a comma between the operands of :echo and :unlet,       *)
(*                 which the parser takes                                  *)
(*     "range"     a number or a quote in front of a command: a range in   *)
(*                 Vim and an expression here                              *)
(*     "semicolon" a semicolon, which separates commands here              *)
(*     "colon"     a colon in front of a command of the language           *)
(*     "heredoc"   the end marker's line ends the command                  *)
(*     "quote"     a double quote is a comment here and a string there     *)
(*     "backslash" a continuation that is not next to an expression        *)
(*     "break"     break in a function declared inside a loop              *)
(***************************************************************************)
EXTENDS Sequences, Naturals

\* A slot is a lexeme, or one of: E an expression, T something that can be
\* assigned to, S a string, F a function's name and parameters.
Fits(l) ==
    CASE l \in {"x", "name"}     -> {"E", "T"}
      [] l \in {"ex", "attr"}     -> {"E", "T", "ex"}
      [] l = "sig"               -> {"E", "F"}
      [] l = "default"           -> {"F"}
      [] l = "number"            -> {"E"}
      [] l \in {"single", "double"} -> {"E", "S"}
      [] OTHER                   -> {l}

Slots == {"E", "T", "S", "F", "=", "in", "ex", "colon", "let", "unlet", "echo", "throw",
          "return", "break", "finish", "if", "elseif", "else", "endif", "while", "endwhile",
          "for", "endfor", "try", "catch", "finally", "endtry", "function", "endfunction"}

\* The commands.  echo and unlet take any number of the last slot, function any
\* number of attributes, an Ex command anything up to the separator.
Forms == {<<"let", "T", "=", "E">>, <<"T", "=", "E">>, <<"unlet", "E">>, <<"echo">>, <<"echo", "E">>,
          <<"throw", "E">>, <<"return">>, <<"return", "E">>, <<"break">>, <<"finish">>,
          <<"if", "E">>, <<"elseif", "E">>, <<"else">>, <<"endif">>,
          <<"while", "E">>, <<"endwhile">>, <<"for", "T", "in", "E">>, <<"endfor">>,
          <<"try">>, <<"catch">>, <<"catch", "S">>, <<"finally">>, <<"endtry">>,
          <<"function", "F">>, <<"endfunction">>, <<"E">>, <<"ex">>, <<"colon", "ex">>}

Listing == {<<"echo", "E">>, <<"unlet", "E">>}
Bad     == <<"bad">>

Begins(w, f) == Len(w) <= Len(f) /\ \A i \in 1 .. Len(w) : f[i] = w[i]

\* The slots that may come after w: an Ex command is taken for one before it
\* is taken for an expression.
Follow(w) == IF w \in Listing THEN {"E"}
             ELSE {f[Len(w) + 1] : f \in {g \in Forms : Begins(w, g) /\ Len(g) > Len(w)}}

InEx(w) == w \in {<<"ex">>, <<"colon", "ex">>}

SlotOf(w, l) == IF w = <<>> /\ l \in {"ex", "attr"} THEN {"ex"}
                ELSE IF w = <<>> /\ l = "name" THEN {"T"}
                ELSE (Fits(l) \cap Follow(w)) \ (IF w = <<>> THEN {"T"} ELSE {})

\* w with lexeme l after it.
Taken(w, l) ==
    IF w = Bad \/ InEx(w) \/ (w = <<"function", "F">> /\ l = "attr") THEN w
    ELSE IF SlotOf(w, l) = {} THEN Bad
    ELSE IF w \in Listing THEN w
    ELSE Append(w, CHOOSE s \in SlotOf(w, l) : TRUE)

Header == {"if", "elseif", "else", "endif", "while", "endwhile", "for", "endfor", "try",
           "catch", "finally", "endtry", "function", "endfunction"}

Start == [words |-> <<>>, open |-> <<>>, refused |-> FALSE, barred |-> FALSE,
          joint |-> FALSE, away |-> FALSE]

Departed(r, how) == [Start EXCEPT !.away = TRUE, !.refused = r.refused]

-----------------------------------------------------------------------------
(* Nesting.                                                                *)

Innermost(r) == r.open[Len(r.open)]
Inside(r, parts) == r.open # <<>> /\ Innermost(r) \in parts
Without(r) == SubSeq(r.open, 1, Len(r.open) - 1)

\* The part a command ends, and the part it begins.
Closes(k) ==
    CASE k \in {"elseif", "else"}       -> {"if"}
      [] k = "endif"                    -> {"if", "else"}
      [] k \in {"catch", "finally"}     -> {"try"}
      [] k = "endtry"                   -> {"try", "finally"}
      [] k = "endwhile"                 -> {"while"}
      [] k = "endfor"                   -> {"for"}
      [] k = "endfunction"              -> {"function"}
Continues(k) ==
    CASE k = "elseif"  -> <<"if">>
      [] k = "catch"   -> <<"try">>
      [] k \in {"else", "finally"} -> <<k>>
      [] OTHER         -> <<>>

\* The innermost function around, if any, has a loop inside it.
InLoop(r) ==
    \E i \in 1 .. Len(r.open) :
        /\ r.open[i] \in {"while", "for"}
        /\ \A j \in i .. Len(r.open) : r.open[j] # "function"
InSomeLoop(r) == \E i \in 1 .. Len(r.open) : r.open[i] \in {"while", "for"}
InFunction(r) == \E i \in 1 .. Len(r.open) : r.open[i] = "function"

\* Command k, well formed, in its place.
Placed(r, k) ==
    CASE k \in {"if", "while", "for", "try", "function"} -> [r EXCEPT !.open = Append(@, k)]
      [] k \in Header \ {"if", "while", "for", "try", "function"} ->
             IF Inside(r, Closes(k)) THEN [r EXCEPT !.open = Without(r) \o Continues(k)]
                                     ELSE [r EXCEPT !.refused = TRUE]
      [] k = "return" -> [r EXCEPT !.refused = @ \/ ~InFunction(r)]
      [] k = "break"  -> IF InSomeLoop(r) /\ ~InLoop(r) THEN Departed(r, "break")
                         ELSE [r EXCEPT !.refused = @ \/ ~InLoop(r)]
      [] OTHER        -> r

\* What is no form of this parser and lists something in Vim.
Listings == {<<"let">>, <<"let", "T">>, <<"function">>}

\* The command of w is over.  Not one of the forms: it is refused.  If it had
\* to be the header or the end of a block, or if its last expression is
\* missing (the parser then takes the next command for it), all is lost.
Judged(r) ==
    LET w == r.words
    IN  IF w = <<>> THEN r
        ELSE IF w \in Forms
             THEN IF r.joint THEN Departed(r, "backslash") ELSE Placed(r, w[1])
        ELSE IF w \in Listings THEN Departed(r, "listing")
        ELSE IF w[1] \in Header \/ w \in {<<"let", "T", "=">>, <<"T", "=">>, <<"throw">>}
                \/ (r.joint /\ w # Bad)
             THEN Departed([r EXCEPT !.refused = TRUE], "lost")
        ELSE [r EXCEPT !.refused = TRUE]

-----------------------------------------------------------------------------
(* Reading.                                                                *)

Separate(r, l) ==
    LET next == Judged(r)
    IN  IF next.away THEN next
        ELSE [next EXCEPT !.words = <<>>, !.joint = FALSE,
                          !.barred = (l = "bar")]

\* A continuation is transparent next to an expression.
Join(r) ==
    IF r.words = <<>> THEN [r EXCEPT !.barred = FALSE]
    ELSE IF r.words = Bad \/ r.words[Len(r.words)] \in {"E", "T"} THEN r
    ELSE [r EXCEPT !.joint = TRUE]

\* A bad command whose first word starts or ends a block hides the block.
Spoiled(r, l) ==
    IF (IF r.words = <<>> THEN l ELSE r.words[1]) \in Header
    THEN Departed([r EXCEPT !.refused = TRUE], "lost")
    ELSE [r EXCEPT !.words = Bad]

\* Vim reads lexeme l after w one way, this parser another.
PartsWays(w, l) ==
    \/ w \in {<<"let", "T">>, <<"function">>} /\ "T" \in Fits(l)                \* listing
    \/ w \in {<<"unlet">>, <<"unlet", "E">>} /\ "E" \in Fits(l) /\ "T" \notin Fits(l)
    \/ w \in Listing /\ l = "comma"
    \/ w = <<>> /\ l \in {"number", "single"}                                  \* range

Word(r, l) ==
    LET w == Taken(r.words, l)
    IN  IF l = "heredoc" /\ r.words # Bad THEN Departed(r, "heredoc")
        ELSE IF r.words = <<>> /\ l \in {"ex", "attr", "colon"} /\ r.barred THEN Departed(r, "bar")
        ELSE IF r.words = <<"colon">> /\ l \notin {"ex", "attr"} THEN Departed(r, "colon")
        ELSE IF PartsWays(r.words, l) THEN Departed(r, "dialect")
        ELSE IF w = Bad THEN Spoiled(r, l)
        ELSE IF r.joint /\ w[Len(w)] \notin {"E", "T", "S"} THEN Departed(r, "backslash")
        ELSE [r EXCEPT !.words = w, !.joint = FALSE]

\* A text in double quotes is a string where an operand may come, a comment
\* after a whole command or before one, and what it likes in an Ex command.
\* The lexer took it for a comment or not.
Quoted(r, comment) ==
    LET operand == r.words # <<>> /\ SlotOf(r.words, "double") # {}
        whole   == r.words = <<>> \/ r.words \in Forms \cup Listings
    IN  IF r.words = Bad \/ InEx(r.words) THEN r
        ELSE IF (comment /\ operand) \/ (~comment /\ ~operand /\ whole)
             THEN Departed(r, "quote")
        ELSE IF comment THEN r ELSE Word(r, "double")

\* The reader after one more lexeme.
Read(r, l, comment) ==
    IF r.away THEN r
    ELSE IF l \in {"nl", "bar", "eof"} THEN Separate(r, l)
    ELSE IF l = "semi" THEN IF InEx(r.words) /\ ~r.joint THEN r ELSE Departed(r, "semicolon")
    ELSE IF l = "cont" THEN Join(r)
    ELSE IF l = "double" THEN Quoted(r, comment)
    ELSE Word(r, l)
=============================================================================
