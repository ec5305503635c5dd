--------------------------- MODULE VimExpressions ---------------------------
(***************************************************************************)
(* The expression grammar of references/eval.txt (1111-1185, 1190-1220 and *)
(* the tuples of 556-563) as it is written there: which trees each level   *)
(* derives for a part of a text, all of them where it is ambiguous.  It    *)
(* knows no binding powers and reads nothing from left to right.  Of the   *)
(* forms of that summary the lambdas, `#{`, `<type>`, and the names that   *)
(* are more than one word (`va{ria}ble`, `$VAR`, `@r`) are left out.       *)
(***************************************************************************)
EXTENDS Naturals, Sequences, FiniteSets

\* The trees of level n for the tokens from i to j - 1 of t.
RECURSIVE Trees(_, _, _, _), Listed(_, _, _), Pairs(_, _, _)

\* The places of token between i and j.
Places(t, i, j, token) == {p \in i .. (j - 1) : t[p] = token}

\* A level that groups from the left, above level n.
Chained(t, n, i, j, op) ==
    UNION {{<<op, a, b>> : a \in Trees(t, n, i, p), b \in Trees(t, n + 1, p + 1, j)}
             : p \in Places(t, i, j, op)}

\* expr1, ...   possibly with a comma at the end
Listed(t, i, j) ==
    (IF i = j THEN {<<>>} ELSE {})
    \cup {<<a>> : a \in Trees(t, 1, i, j)}
    \cup UNION {{<<a>> \o rest : a \in Trees(t, 1, i, p), rest \in Listed(t, p + 1, j)}
                  : p \in Places(t, i, j, ",")}

\* expr1 : expr1
Pair(t, i, j) ==
    UNION {{<<a, b>> : a \in Trees(t, 1, i, p), b \in Trees(t, 1, p + 1, j)}
             : p \in Places(t, i, j, ":")}

Pairs(t, i, j) ==
    (IF i = j THEN {<<>>} ELSE {})
    \cup {<<a>> : a \in Pair(t, i, j)}
    \cup UNION {{<<a>> \o rest : a \in Pair(t, i, p), rest \in Pairs(t, p + 1, j)}
                  : p \in Places(t, i, j, ",")}

\* A bound of a slice, which may be left out.
Bound(t, i, j) == IF i = j THEN {<<"nothing">>} ELSE Trees(t, 1, i, j)

Ends(t, i, j, open, close) == i + 1 < j /\ t[i] = open /\ t[j - 1] = close

\* expr10: a subscript, a member or a call, after an expr10
Postfixed(t, i, j) ==
    UNION {{<<"index", a, b>> : a \in Trees(t, 10, i, p), b \in Trees(t, 1, p + 1, j - 1)}
             : p \in {q \in Places(t, i, j, "[") : t[j - 1] = "]"}}
    \cup UNION {UNION {{<<"slice", a, b, c>> : a \in Trees(t, 10, i, p), b \in Bound(t, p + 1, q),
                                               c \in Bound(t, q + 1, j - 1)}
                         : q \in Places(t, p + 1, j - 1, ":")}
             : p \in {q \in Places(t, i, j, "[") : t[j - 1] = "]"}}
    \cup UNION {{<<"call", a, b>> : a \in Trees(t, 10, i, p), b \in Listed(t, p + 1, j - 1)}
             : p \in {q \in Places(t, i, j, "(") : t[j - 1] = ")"}}
    \cup (IF j - 2 > i /\ t[j - 1] = "x" /\ t[j - 2] = "."
          THEN {<<"member", a, j - 1>> : a \in Trees(t, 10, i, j - 2)} ELSE {})
    \cup UNION {{<<"method", a, p + 1, b>> : a \in Trees(t, 10, i, p), b \in Listed(t, p + 3, j - 1)}
             : p \in {q \in Places(t, i, j, "->") :
                          q + 3 < j /\ t[q + 1] = "x" /\ t[q + 2] = "(" /\ t[j - 1] = ")"}}

\* A tuple of one item ends with a comma; one item without it is nested.
Tuples(t, i, j) ==
    {<<"tuple", items>> : items \in {l \in Listed(t, i, j) : Len(l) # 1 \/ t[j - 1] = ","}}

Primary(t, i, j) ==
    (IF j = i + 1 /\ t[i] = "x" THEN {<<"x", i>>} ELSE {})
    \cup (IF Ends(t, i, j, "(", ")") THEN Trees(t, 1, i + 1, j - 1) \cup Tuples(t, i + 1, j - 1) ELSE {})
    \cup (IF Ends(t, i, j, "[", "]")
          THEN {<<"[", items>> : items \in Listed(t, i + 1, j - 1)} ELSE {})
    \cup (IF Ends(t, i, j, "{", "}")
          THEN {<<"{", pairs>> : pairs \in Pairs(t, i + 1, j - 1)} ELSE {})

\* expr1: the ternary and the falsy operator
Conditional(t, i, j) ==
    UNION {UNION {{<<"?", c, a, b>> : c \in Trees(t, 2, i, p), a \in Trees(t, 1, p + 1, q),
                                      b \in Trees(t, 1, q + 1, j)}
                    : q \in Places(t, p + 1, j, ":")}
             : p \in Places(t, i, j, "?")}
    \cup UNION {{<<"??", a, b>> : a \in Trees(t, 2, i, p), b \in Trees(t, 1, p + 1, j)}
             : p \in Places(t, i, j, "??")}

\* An operator whose level has no dots: it is not chained.
Single(t, n, i, j, op) ==
    UNION {{<<op, a, b>> : a \in Trees(t, n + 1, i, p), b \in Trees(t, n + 1, p + 1, j)}
             : p \in Places(t, i, j, op)}

\* expr1 to expr10, by their numbers; expr11 is Primary, and of expr8 only what
\* it starts from is there.
Trees(t, n, i, j) ==
    IF i >= j THEN {}
    ELSE CASE n = 1 -> Trees(t, 2, i, j) \cup Conditional(t, i, j)
           [] n = 2 -> Trees(t, 3, i, j) \cup Chained(t, 2, i, j, "||")
           [] n = 3 -> Trees(t, 4, i, j) \cup Chained(t, 3, i, j, "&&")
           [] n = 4 -> Trees(t, 5, i, j) \cup Single(t, 4, i, j, "==")
           [] n = 5 -> Trees(t, 6, i, j) \cup Single(t, 5, i, j, "<<")
           [] n = 6 -> Trees(t, 7, i, j) \cup Chained(t, 6, i, j, "+") \cup Chained(t, 6, i, j, ".")
           [] n = 7 -> Trees(t, 8, i, j) \cup Chained(t, 7, i, j, "*")
           [] n = 8 -> Trees(t, 9, i, j)
           [] n = 9 -> Trees(t, 10, i, j)
                       \cup (IF t[i] = "!" THEN {<<"!", a>> : a \in Trees(t, 9, i + 1, j)} ELSE {})
           [] n = 10 -> Primary(t, i, j) \cup Postfixed(t, i, j)

Derived(t) == Trees(t, 1, 1, Len(t) + 1)
=============================================================================
