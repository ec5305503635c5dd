-------------------------------- MODULE MCVm --------------------------------
(***************************************************************************)
(* The machine of Vm running what Compiler makes of a family of scripts,   *)
(* compared with what VimControl says of them.  A script is its body and   *)
(* one function, number 2.                                                 *)
(***************************************************************************)
EXTENDS CodeTypes

V == INSTANCE VimControl

\* Op(s, t) for all s in S and t in T, as a sequence.  The concatenation makes
\* TLC evaluate it at once.
Pairs(S, T, Op(_, _)) ==
    <<>> \o [k \in 1 .. (Len(S) * Len(T)) |->
        Op(S[((k - 1) \div Len(T)) + 1], T[((k - 1) % Len(T)) + 1])]

Each(S, Op(_)) == <<>> \o [k \in 1 .. Len(S) |-> Op(S[k])]

C(n) == V!Command(n)

Calls   == <<V!CallStmt(2), V!ListOfCall(2), V!DictOfCall(2)>>
Simple  == <<C(2), C(1), V!ThrowStmt, V!BadSum, V!BadKey, V!BadName, V!CallText,
             V!AwaitText, V!ForIn(V!Value("int", 1), <<C(28)>>),
             V!ReturnStmt, V!AwaitStmt(0), V!AwaitStmt(1), V!AwaitStmt(2)>>
Leaves  == <<V!BreakStmt, V!ContinueStmt>>

Catches(inLoop) ==
    <<V!NoCatch, <<C(4)>>, <<V!ThrowStmt>>, <<V!ReturnStmt>>>>
    \o (IF inLoop THEN <<<<V!BreakStmt>>>> ELSE <<>>)
Finallies == <<<<>>, <<C(6)>>>>

\* try statements around each of S.
Tries(S, catches) ==
    LET Clauses == Pairs(catches, Finallies, LAMBDA c, f : <<c, f>>)
    IN  Pairs(S, Clauses, LAMBDA s, cf : V!Try(<<s, C(8)>>, cf[1], cf[2]))

Conds(S)  == Each(S, LAMBDA s : V!Cond(1, <<s>>, <<C(10)>>))
             \o Each(S, LAMBDA s : V!Cond(0, <<C(10)>>, <<s>>))
Fors(S)   == Each(S, LAMBDA s : V!For(2, <<s, C(12)>>))
Whiles(S) == Each(S, LAMBDA s : V!While(1, <<s, V!BreakStmt>>))

\* Compound statements over the simple ones of S, inside a loop and not.
Compound(S, inLoop) ==
    LET X == IF inLoop THEN S \o Leaves ELSE S
    IN  Tries(X, Catches(inLoop)) \o Conds(X) \o Fors(S \o Leaves) \o Whiles(S \o Leaves)

\* Bodies of a script over S: up to three levels of nesting.
Bodies(S) ==
    LET inner == Compound(S, TRUE)
        plain == Compound(S, FALSE)
        two   == Fors(inner) \o Whiles(inner)
                 \o Tries(plain, <<V!NoCatch, <<C(4)>>>>)
        three == Each(Fors(inner), LAMBDA s : V!Try(<<s>>, <<C(14)>>, <<C(16)>>))
                 \o Each(Tries(Fors(S \o Leaves), <<<<C(4)>>>>),
                         LAMBDA s : V!For(2, <<V!For(1, <<s>>)>>))
    IN  Each(S \o plain \o two \o three, LAMBDA s : <<s, C(18)>>)

\* Branches of an if with elseif clauses, and loops over other values.
Others ==
    LET Arms(a, b) == V!If(<<V!Branch(a, <<C(30), C(1)>>), V!Branch(b, <<C(32)>>),
                             V!Branch(1, <<C(34)>>)>>, <<C(36)>>)
    IN  Each(<<Arms(0, 0), Arms(0, 1), Arms(1, 1)>>,
             LAMBDA s : <<V!For(2, <<V!Try(<<s>>, <<C(38)>>, <<>>)>>), C(40)>>)
        \o Each(<<"text", "dict">>,
                LAMBDA k : <<V!ForIn(V!Value(k, 2), <<C(42)>>), C(44)>>)

\* Statements that end a script only by a limit, or do nothing.
Endless == <<<<V!While(1, <<C(2)>>)>>,
             <<V!While(1, <<V!Try(<<C(1)>>, <<C(2)>>, <<>>)>>)>>,
             <<V!While(0, <<C(2)>>), V!AwaitStmt(0)>>,
             <<V!AwaitStmt(0), V!Cond(1, <<>>, <<>>), C(2)>>>>

Functions ==
    << <<C(20)>>, <<V!ThrowStmt>>, <<V!CallStmt(2)>>, <<V!ListOfCall(2)>>,
       <<V!Try(<<V!CallStmt(2)>>, <<C(22)>>, <<>>)>>,
       <<V!For(2, <<V!Try(<<V!ReturnStmt>>, <<C(22)>>, <<>>)>>)>>,
       <<V!Cond(1, <<C(24)>>, <<V!ReturnStmt>>)>>,
       <<V!Try(<<C(26)>>, <<V!ReturnStmt>>, <<>>)>> >>

\* The parser takes `return` in a function only: a body with one is called.
IsScript(b) == \A k \in 1 .. Len(V!CompileBlock(b, 1, V!Unpatched)) :
                   V!CompileBlock(b, 1, V!Unpatched)[k].op # "Return"

Programs ==
    Each(Bodies(Simple) \o Others \o Endless,
         LAMBDA b : IF IsScript(b) THEN <<b, Functions[1]>>
                    ELSE <<<<V!CallStmt(2), C(46)>>, b>>)
    \o Pairs(SelectSeq(Bodies(Calls), IsScript), Functions, LAMBDA b, f : <<b, f>>)

Compiled(p) == <<V!CompileScript(p[1]), V!CompileFunction(p[2])>>

\* The source of a module is known by what VimControl says of it.
Expected == module.source

MCModules ==
    LET P == Programs
    IN  {[source |-> V!Script(P[k]), functions |-> Compiled(P[k])] : k \in 1 .. Len(P)}

-----------------------------------------------------------------------------
\* How the script ended, in the words of VimControl.  A try without a catch
\* clause throws its error again, which makes it a user exception.
Outcome(out) == IF out \in Catchable THEN "error" ELSE out

IsPrefixOf(s, t) == Len(s) <= Len(t) /\ SubSeq(t, 1, Len(s)) = s

\* The script did what Vim's help says it does; a resource limit may cut it
\* short, but nothing is executed after that.
AsVimDoes ==
    status \in Ended =>
        IF error = Limit
        THEN IsPrefixOf(executed, Expected.log)
        ELSE /\ executed = Expected.log
                 /\ Outcome(IF status = "Completed" THEN "normal" ELSE error)
                      = Outcome(Expected.out)

Departs(parts) == Expected.parts \subseteq parts

\* The compiled script executes the commands, in the order, that Vim's help
\* gives for it, and ends the same way: for every nesting of if, while, for,
\* try, calls and host calls that has none of the departures of VimControl but
\* "abort".  With that one it executes what Vim does up to the first error
\* outside every try, and ends there with an error: what Vim executes after the
\* error is not compared.
FollowsVim == Departs({"abort"}) => AsVimDoes

\* The implicit return is missing, and a branch leads past the end of the code.
LeavesItsCode(code) ==
    \E k \in 1 .. Len(code) : code[k].op \in Jumps /\ code[k].arg > Len(code)

\* Whatever the nesting of statements, the code of a function would pass a
\* verifier, with two exceptions: break or continue leaves a try block, or the
\* function lacks its implicit return.
CompiledIsTyped ==
    "handler" \in Expected.parts \/
    \A f \in 1 .. Len(module.functions) :
        LeavesItsCode(CodeOf(f)) \/ WellTyped(CodeOf(f), Typing(CodeOf(f)))

\* eval.txt: the commands after :finally "are executed whenever the part
\* between the matching :try and the :finally is left".
FinallyAlwaysRuns == Departs({"finally"}) => AsVimDoes

=============================================================================
