----------------------------- MODULE Expression -----------------------------
(***************************************************************************)
(* Parser::expression (src/parser.rs): operator precedence by binding      *)
(* powers, as functions of a sequence of tokens and a position.            *)
(*                                                                         *)
(* A token is "x" (a name; a literal is read like one, except after a      *)
(* dot), "!" (any prefix operator, await included), a binary operator by   *)
(* the first of its level, or punctuation.  The parser has no reading for  *)
(* "<<" and "->".  A tree is a tuple that starts with its operator; a name *)
(* is known by its place in the text.                                      *)
(***************************************************************************)
EXTENDS Naturals, Sequences

At(t, i) == IF i <= Len(t) THEN t[i] ELSE "eof"

Parsed(i, tree) == [ok |-> TRUE, at |-> i, tree |-> tree]
Refused         == [ok |-> FALSE, at |-> 0, tree |-> <<>>]

Binary == {"||", "&&", "??", "==", "+", "*"}

LeftPower(op) ==
    CASE op = "||" -> 10 [] op = "&&" -> 20 [] op = "??" -> 25
      [] op = "==" -> 30 [] op = "+"  -> 40 [] op = "*"  -> 50

\* The right operand of an operator may hold stronger operators only.
RightPower(op) == LeftPower(op) + 1

Unary == 80

\* Mutant: a ternary may follow inside the operand of another operator.
TernaryAnywhere(min) == TRUE

TernaryAllowed(min) == min = 0

\* A dictionary's key is no ternary, unlike in Vim.
KeyPower == 1

RECURSIVE Expression(_, _, _), More(_, _, _, _), Items(_, _, _, _), Entries(_, _, _)

\* `?` in the code: e, unless it failed or the token after it is not the
\* expected one; then what becomes of the rest.
After(t, e, token, Rest(_)) ==
    IF e.ok /\ At(t, e.at) = token THEN Rest(e.at + 1) ELSE Refused

\* list() and the arguments of a call: a comma may come before the end.
Items(t, i, close, items) ==
    IF At(t, i) = close THEN Parsed(i + 1, items)
    ELSE LET e == Expression(t, i, 0)
         IN  IF e.ok /\ At(t, e.at) = "," THEN Items(t, e.at + 1, close, Append(items, e.tree))
             ELSE After(t, e, close, LAMBDA j : Parsed(j, Append(items, e.tree)))

\* dictionary()
Entries(t, i, entries) ==
    IF At(t, i) = "}" THEN Parsed(i + 1, <<"{", entries>>)
    ELSE LET key  == Expression(t, i, KeyPower)
             value == After(t, key, ":", LAMBDA j : Expression(t, j, 0))
             more == Append(entries, <<key.tree, value.tree>>)
         IN  IF value.ok /\ At(t, value.at) = "," THEN Entries(t, value.at + 1, more)
             ELSE After(t, value, "}", LAMBDA j : Parsed(j, <<"{", more>>))

\* The value of e, wrapped by Node.
Around(e, Node(_)) == IF e.ok THEN Parsed(e.at, Node(e.tree)) ELSE Refused

Prefix(t, i) ==
    CASE At(t, i) = "x" -> Parsed(i + 1, <<"x", i>>)
      [] At(t, i) = "!" -> Around(Expression(t, i + 1, Unary), LAMBDA operand : <<"!", operand>>)
      [] At(t, i) = "(" -> LET e == Expression(t, i + 1, 0)
                           IN  After(t, e, ")", LAMBDA j : Parsed(j, e.tree))
      [] At(t, i) = "[" -> Around(Items(t, i + 1, "]", <<>>), LAMBDA items : <<"[", items>>)
      [] At(t, i) = "{" -> Entries(t, i + 1, <<>>)
      [] OTHER          -> Refused

\* What is missing of a slice.
Nothing == <<"nothing">>

\* target[i], target[i : j], each bound of a slice optional.
Subscript(t, target, i) ==
    LET start == IF At(t, i) = ":" THEN Parsed(i, Nothing) ELSE Expression(t, i, 0)
        last(j) == IF At(t, j) = "]" THEN Parsed(j, Nothing) ELSE Expression(t, j, 0)
        end   == After(t, start, ":", last)
    IN  IF start.ok /\ At(t, start.at) = ":"
        THEN After(t, end, "]", LAMBDA j : Parsed(j, <<"slice", target, start.tree, end.tree>>))
        ELSE After(t, start, "]", LAMBDA j : Parsed(j, <<"index", target, start.tree>>))

IsPostfix(token) == token \in {"(", "[", "."}

Postfix(t, target, i) ==
    CASE At(t, i) = "(" -> Around(Items(t, i + 1, ")", <<>>), LAMBDA items : <<"call", target, items>>)
      [] At(t, i) = "[" -> Subscript(t, target, i + 1)
      [] At(t, i) = "." -> IF At(t, i + 1) = "x" THEN Parsed(i + 2, <<"member", target, i + 1>>)
                                                 ELSE Refused

Ternary(t, condition, i) ==
    LET then == Expression(t, i, 0)
        else == After(t, then, ":", LAMBDA j : Expression(t, j, 0))
    IN  Around(else, LAMBDA tree : <<"?", condition, then.tree, tree>>)

\* The loop of expression(): what follows the operand left.
More(t, left, i, min) ==
    LET token == At(t, i)
        going(e) == IF e.ok THEN More(t, e.tree, e.at, min) ELSE Refused
    IN  IF IsPostfix(token) THEN going(Postfix(t, left, i))
        ELSE IF token = "?" /\ TernaryAllowed(min) THEN going(Ternary(t, left, i + 1))
        ELSE IF token \in Binary /\ LeftPower(token) >= min
             THEN going(Around(Expression(t, i + 1, RightPower(token)),
                               LAMBDA right : <<token, left, right>>))
        ELSE Parsed(i, left)

Expression(t, i, min) ==
    LET first == Prefix(t, i)
    IN  IF first.ok THEN More(t, first.tree, first.at, min) ELSE Refused

\* parse_expression: the text is one expression, with this tree.
ParseExpression(t) ==
    LET e == Expression(t, 1, 0)
    IN  IF e.ok /\ e.at = Len(t) + 1 THEN {e.tree} ELSE {}
=============================================================================
