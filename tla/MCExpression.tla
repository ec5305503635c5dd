---------------------------- MODULE MCExpression ----------------------------
(***************************************************************************)
(* Expression against the grammar of VimExpressions, on every text that    *)
(* grows token by token and is over at the first token that cannot come    *)
(* where it stands, or when it cannot be completed within MaxTokens.       *)
(***************************************************************************)
EXTENDS Expression, Integers, FiniteSets

CONSTANT MaxTokens    \* bound on the length of a text

Vim == INSTANCE VimExpressions

VARIABLES
    text,
    groups,     \* the brackets and ternaries that are open, innermost last
    next        \* what may come: "operand", "operator", "name", "arguments", "nothing"

vars == <<text, groups, next>>

Tokens == Binary \cup {"x", "!", "?", ":", "(", ")", "[", "]", "{", "}", ",", ".", "<<", "->"}

Inner == IF groups = <<>> THEN "none" ELSE groups[Len(groups)]
Outer == SubSeq(groups, 1, Len(groups) - 1)
Closer(open) == CASE open = "(" -> ")" [] open = "[" -> "]" [] open = "{" -> "}" [] OTHER -> "none"

\* Enough tokens are left for what has begun.
Completable(n, open) == Len(text) + 1 + n + Len(open) <= MaxTokens

Begins(token) == IF next = "operand" THEN {"(", "[", "{"} ELSE {"(", "[", "?"}

Grow(open, what, n) ==
    /\ groups' = IF Completable(n, open) THEN open ELSE <<>>
    /\ next' = IF Completable(n, open) THEN what ELSE "nothing"

Takes(token) ==
    IF next = "operand" /\ token = "x" THEN Grow(groups, "operator", 0)
    ELSE IF next = "operand" /\ token = "!" THEN Grow(groups, "operand", 1)
    ELSE IF next \in {"operand", "operator"} /\ token \in Begins(token)
         THEN Grow(Append(groups, token), "operand", IF token = "?" THEN 2 ELSE 0)
    ELSE IF next = "operator" /\ token \in Binary \cup {".", "<<"} THEN Grow(groups, "operand", 1)
    ELSE IF next = "operator" /\ token = "->" THEN Grow(groups, "name", 3)
    ELSE IF next = "name" /\ token = "x" THEN Grow(groups, "arguments", 2)
    ELSE IF next = "arguments" /\ token = "(" THEN Grow(Append(groups, token), "operand", 0)
    ELSE IF next = "operator" /\ token = ":" /\ Inner = "?" THEN Grow(Outer, "operand", 1)
    ELSE IF next \in {"operand", "operator"} /\ token = ":" /\ Inner \in {"[", "{"} THEN Grow(groups, "operand", 0)
    ELSE IF next = "operator" /\ token = "," /\ Inner \in {"(", "[", "{"}
         THEN Grow(groups, "operand", 0)
    ELSE IF next \in {"operand", "operator"} /\ token = Closer(Inner) THEN Grow(Outer, "operator", 0)
    ELSE groups' = <<>> /\ next' = "nothing"

Init == text = <<>> /\ groups = <<>> /\ next = "operand"

Next ==
    /\ next # "nothing" /\ Len(text) < MaxTokens
    /\ \E token \in Tokens : Takes(token) /\ text' = Append(text, token)

Spec == Init /\ [][Next]_vars

-----------------------------------------------------------------------------
(* Where the parser and eval.txt part ways.                                *)

\* How many brackets are open before token i.
Depth(i) == Cardinality({j \in 1 .. (i - 1) : text[j] \in {"(", "[", "{"}})
            - Cardinality({j \in 1 .. (i - 1) : text[j] \in {")", "]", "}"}})

\* Tokens i and k stand in one group, with none of the given tokens of that
\* group between them.
Together(i, k, none) ==
    /\ i < k /\ Depth(k) = Depth(i)
    /\ \A j \in (i + 1) .. (k - 1) :
           Depth(j) > Depth(i) \/ (Depth(j) = Depth(i) /\ text[j] \notin none)

\* eval.txt has no chains of comparisons; the parser groups them from the left.
Chain ==
    \E i, k \in 1 .. Len(text) :
        /\ text[i] = "==" /\ text[k] = "=="
        /\ Together(i, k, {"||", "&&", "??", "?", ":", ","})

\* There `??` is as weak as the ternary, and its right side is any expression;
\* the parser has it bind more strongly than `&&`, from the left.
Falsy ==
    \E i, k \in 1 .. Len(text) :
        /\ text[i] = "??"
        /\ \/ text[k] \in {"||", "&&", "??", "?"} /\ Together(i, k, {"?", ":", ","})
           \/ text[k] \in {"||", "&&"} /\ Together(k, i, {"?", ":", ","})

Departs == Chain \/ Falsy

\* Token i opens no call: it stands where an operand begins.
Opens(i) == text[i] = "(" /\ (i = 1 \/ text[i - 1] \notin {"x", ")", "]", "}"})

\* There a comma, or nothing, between parentheses makes a tuple.
Tuple ==
    \E i \in 1 .. (Len(text) - 1) :
        /\ Opens(i)
        /\ \/ text[i + 1] = ")"
           \/ \E k \in (i + 1) .. Len(text) :
                  /\ text[k] = "," /\ Depth(k) = Depth(i) + 1
                  /\ \A j \in (i + 1) .. k : Depth(j) > Depth(i)

\* There a dot also concatenates; here it is always a member's.
Concatenation == \E i \in 1 .. (Len(text) - 1) : text[i] = "." /\ text[i + 1] # "x"

\* There "<<" shifts and "->" calls a method.
Unread == \E i \in 1 .. Len(text) : text[i] \in {"<<", "->"}

\* What eval.txt may derive and the parser refuses.
Beyond == Tuple \/ Concatenation \/ Unread

\* A dot before a name may be either there.
Ambiguous == \E i \in 1 .. Len(text) : text[i] = "."

\* A text with a form that the parser lacks is refused.  Any other one on which
\* the two do not part ways is an expression for the parser exactly if eval.txt
\* derives it, and has the tree that is derived, or where a dot leaves several
\* one of them: the binding powers, the loop over the operators and the
\* recursion into brackets give the levels of the grammar.
ParsesAsWritten ==
    LET parsed  == ParseExpression(text)
        derived == Vim!Derived(text)
    IN  IF Beyond THEN parsed = {}
        ELSE \/ Departs
             \/ IF Ambiguous THEN parsed \subseteq derived /\ (derived = {} <=> parsed = {})
                             ELSE parsed = derived
=============================================================================
