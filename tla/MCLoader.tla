------------------------------- MODULE MCLoader -------------------------------
(***************************************************************************)
(* Loader under TLC: two plugins and two autoload files, each with a few   *)
(* texts, and what an embedding program may do between two loads.          *)
(***************************************************************************)
EXTENDS Loader

Files       == {"p", "q", "a", "b"}
MCPaths     == Files \cup {"link", "gone"}
MCCanonical == [x \in MCPaths |-> IF x \in Files THEN x
                                  ELSE IF x = "link" THEN "p" ELSE NoPath]
MCStartup   == <<"gone", "link", "p", "q">>
MCColors    == [known |-> "q", unknown |-> NoPath]
MCNames     == {"a#f", "b#f", "x#f", "Guard", "P"}
MCAutoload  == [n \in MCNames |-> CASE n = "a#f" -> "a"
                                    [] n = "b#f" -> "b"
                                    [] OTHER     -> NoPath]
MCOwners    == Files \cup {Embedder}
MCAbbreviates == {<<"w", "write">>, <<"se", "set">>, <<"se", "setlocal">>}
MCArities   == {<<"getline", 1>>, <<"secret", 0>>}
MCMatches   == {<<"*.txt", "n.txt">>, <<"*", "n.txt">>, <<"*", "other">>}

Set(n)   == [op |-> "set", name |-> n, function |-> TRUE, caught |-> FALSE]
Let(n)   == [op |-> "set", name |-> n, function |-> FALSE, caught |-> FALSE]
Use(n)   == [op |-> "use", name |-> n, caught |-> FALSE]
IfNot(n) == [op |-> "guard", name |-> n, caught |-> FALSE]
Throw    == [op |-> "throw", caught |-> FALSE]
Ex(c)    == [op |-> "ex", command |-> c, caught |-> FALSE]
Try(c)   == [op |-> "ex", command |-> c, caught |-> TRUE]

Plain(name, bang, args) == [name |-> name, bang |-> bang, args |-> args]
Group(g) == Plain("augroup", FALSE, g)
Au(bang, given, events, patterns, once) ==
    Plain("autocmd", bang, [given |-> given, events |-> events,
                            patterns |-> patterns, once |-> once])
Clear    == Au(TRUE, "nothing", <<>>, {}, FALSE)
Defined(nargs, runs, args, passes) ==
    [nargs |-> nargs, bang |-> TRUE, runs |-> runs, args |-> args,
     passes_args |-> passes, passes_bang |-> TRUE, rejects |-> {}]
\* A template of nothing but <args>.
Relay(runs) == [Defined("*", runs, 0, TRUE) EXCEPT !.rejects = {0}]
Define(u, bang, d) ==
    Plain("command", bang, [parses |-> TRUE, defines |-> u, definition |-> d])
Map(name, prefix, local, rhs) ==
    Plain(name, FALSE, [prefix |-> prefix, lhs |-> "k", rhs |-> rhs, local |-> local])

Text(references, body) ==
    [compiles |-> TRUE, references |-> references, body |-> body]
Broken == [compiles |-> FALSE, references |-> <<>>, body |-> <<>>]

\* A plugin with the usual guard and group, cut short or not.
Grouped(last) ==
    <<IfNot("Guard"), Let("Guard"), Ex(Group("gp")), Ex(Clear),
      Ex(Au(FALSE, "all", <<"Enter", "Leave">>, {"*.txt"}, TRUE)),
      last, Ex(Group("END"))>>

TextsOfP ==
    {Text(<<"a#f", "b#f">>, Grouped(Use("a#f"))),
     Text(<<"b#f">>, Grouped(Throw)),
     Text(<<"x#f">>, <<Let("P")>>),
     Text(<<"a#f">>, <<Let("P"), Ex(Define("U", FALSE, Relay("write"))),
                       Try(Plain("U", FALSE, 0)),
                       Ex(Plain("U", TRUE, 1)), Ex(Map("map", "", FALSE, TRUE))>>),
     Text(<<>>, <<Ex(Define("U", FALSE, Defined("1", "V", 0, FALSE))),
                  Ex(Define("V", TRUE, Defined("0", "U", 1, FALSE))),
                  Try(Plain("U", FALSE, 1)), Try(Plain("U", FALSE, 0)),
                  Ex(Plain("delcommand", FALSE, [deletes |-> "V"])),
                  Try(Plain("delcommand", FALSE, [deletes |-> "V"])),
                  Try(Plain("command", TRUE, [parses |-> FALSE]))>>)}

TextsOfQ ==
    {Text(<<"a#f">>, <<Ex(Group("gq")), Ex(Au(FALSE, "all", <<"Enter">>, {"*"}, FALSE)),
                       Try(Au(TRUE, "part", <<>>, {}, FALSE)), Ex(Group("END"))>>),
     Text(<<>>, <<Ex(Map("noremap", "n", FALSE, TRUE)),
                  Ex(Define("U", FALSE, Defined("0", "quit", 0, FALSE))), Let("x#f")>>),
     Text(<<>>, <<Try(Plain("U", TRUE, 1)), Try(Plain("w", TRUE, 0)),
                  Try(Plain("quit", FALSE, 0)), Ex(Plain("se", FALSE, 1))>>),
     Text(<<"b#f">>, <<Ex(Plain("call", FALSE, [function |-> "getline", count |-> 1])),
                       Try(Plain("call", FALSE, [function |-> "secret", count |-> 0])),
                       Try(Plain("option", FALSE, 0)), Try(Group("")), Try(Map("map", "i", FALSE, FALSE)),
                       Ex(Map("map", "v", TRUE, TRUE))>>)}

TextsOfA ==
    {Text(<<"b#f">>, <<Use("b#f"), Set("a#f")>>),
     Text(<<>>, <<Set("a#f"), Ex(Au(FALSE, "all", <<"Enter">>, {}, FALSE)), Throw>>),
     Text(<<"b#f">>, <<>>)}

TextsOfB ==
    {Text(<<>>, <<Ex(Au(FALSE, "all", <<"Leave", "Enter">>, {"*"}, TRUE)), Set("b#f")>>),
     Text(<<>>, <<Set("b#f"), Ex(Plain("unmap", FALSE, 1))>>),
     Broken}

Together(P, Q, A, B) ==
    {[p |-> p, q |-> q, a |-> a, b |-> b] : p \in P, q \in Q, a \in A, b \in B}

MCTexts == Together(TextsOfP, TextsOfQ, TextsOfA, TextsOfB)

MCEmbedded == {Au(FALSE, "all", <<"Enter">>, {"*.txt"}, TRUE), Clear,
               Map("map", "", TRUE, TRUE)}

\* autoload/a.vim calls its own function, or a function of autoload/b.vim that
\* calls it back: functions that only run when both files are loaded.
CyclicTexts ==
    Together({Text(<<"a#f">>, <<Use("a#f")>>)}, {Text(<<>>, <<>>)},
             {Text(<<"a#f">>, <<Set("a#f")>>), Text(<<"b#f">>, <<Set("a#f")>>)},
             {Text(<<"a#f">>, <<Set("b#f")>>)})
===============================================================================
