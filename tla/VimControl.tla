----------------------------- MODULE VimControl -----------------------------
(***************************************************************************)
(* What a script does according to Vim's help files, which the README      *)
(* names as the authoritative references: a big-step reading of the        *)
(* control statements of references/eval.txt and userfunc.txt, over the    *)
(* statements of module Compiler.                                          *)
(*                                                                         *)
(* A result has the commands executed, how the block was left, and the     *)
(* places in which the help file and this compiler part ways:              *)
(*   "finally"   a finally clause had to run although the part before it   *)
(*               was left by an exception, break, continue or return       *)
(*   "handler"   break or continue left the body of a try                  *)
(*   "iterator"  an exception left a for loop of the function that         *)
(*               catches it                                                *)
(*   "epilogue"  a function ended without an explicit return although its  *)
(*               last statement ends in one                                *)
(*   "diverges"  an endless loop was entered                               *)
(*   "abort"     an error, not a throw, was outside every try: Vim reports *)
(*               it and goes on with the next command (userfunc.txt, "a    *)
(*               function defined without abort"), the code ends the       *)
(*               script.  The result is what was executed up to there.     *)
(***************************************************************************)
EXTENDS Compiler, FiniteSets

CONSTANT MaxCallDepth

CommandErrors == {"HostError", "TypeError", "NameError"}
Errors == CommandErrors \cup {"UserThrown"}

Result(log, out, parts) == [log |-> log, out |-> out, parts |-> parts, left |-> FALSE]
Left(out) == Result(<<>>, out, {})
Normal    == Left("normal")

\* r happens after the log and the departures of q.
After(q, r) == [r EXCEPT !.log = q.log \o @, !.parts = q.parts \cup @]

RECURSIVE Block(_, _, _)
RECURSIVE Statement(_, _, _)
RECURSIVE Iterations(_, _, _, _)

\* One call of function f, d frames deep.
CallOf(f, fs, d) ==
    IF d >= MaxCallDepth THEN Left("ResourceLimit")
    ELSE LET r     == Block(fs[f], fs, d + 1)
             falls == r.out = "normal" /\ EndsInReturn(CompileFunction(fs[f]))
                      /\ EndsInReturn(CompileBlock(fs[f], 1, Unpatched))
         IN  [r EXCEPT !.out   = IF @ = "return" THEN "normal" ELSE @,
                       !.parts = IF falls THEN @ \cup {"epilogue"} ELSE @,
                       !.left  = FALSE]

\* The items of a for loop that are still to come.
Iterations(n, body, fs, d) ==
    IF n = 0 THEN Normal
    ELSE LET r == Block(body, fs, d)
         IN  IF r.out \in {"normal", "continue"}
             THEN After(r, Iterations(n - 1, body, fs, d))
             ELSE IF r.out = "break" THEN [r EXCEPT !.out = "normal"]
             ELSE [r EXCEPT !.left = @ \/ r.out \in Errors]

WhileLoop(s, fs, d) ==
    IF s.cond = 0 THEN Normal
    ELSE LET r == Block(s.body, fs, d)
         IN  IF r.out = "break" THEN [r EXCEPT !.out = "normal"]
             ELSE IF r.out \in {"normal", "continue"}
             THEN [r EXCEPT !.parts = @ \cup {"diverges"}, !.out = "normal"]
             ELSE r

Iterated(s, fs, d) ==
    IF s.over.kind = "int" THEN Left("TypeError")
    ELSE Iterations(s.over.arg, s.body, fs, d)

\* The first branch whose condition holds, or else the else part.
Chosen(s) ==
    LET true == {k \in 1 .. Len(s.branches) : s.branches[k].cond = 1}
    IN  IF true = {} THEN s.else
        ELSE s.branches[CHOOSE k \in true : \A j \in true : k <= j].body

\* The body, and the catch clause if it takes an exception of the body.
Guarded(s, fs, d) ==
    LET r == Block(s.body, fs, d)
    IN  IF r.out \in Errors /\ s.catch # NoCatch
        THEN After([r EXCEPT !.parts = IF r.left THEN @ \cup {"iterator"} ELSE @],
                   Block(s.catch, fs, d))
        ELSE IF r.out \in {"break", "continue"}
        THEN [r EXCEPT !.parts = @ \cup {"handler"}]
        ELSE r

\* "executed whenever the part between the matching :try and the :finally is
\* left"; what was pending is resumed, unless the finally clause is left too.
\* A resource limit ends the script, which Vim does not know.
Cleaned(s, fs, d) ==
    LET r == Guarded(s, fs, d)
        f == Block(s.finally, fs, d)
    IN  IF r.out = "ResourceLimit" \/ s.finally = <<>> THEN r
        ELSE IF r.out = "normal" THEN After(r, f)
        ELSE [After(r, IF f.out = "normal"
                       THEN [f EXCEPT !.out = r.out, !.left = r.left] ELSE f)
              EXCEPT !.parts = @ \cup {"finally"}]

\* An error between :try and :endtry "is converted to an exception".
TryBlock(s, fs, d) ==
    [Cleaned(s, fs, d) EXCEPT !.out = IF @ \in CommandErrors THEN "UserThrown" ELSE @]

Statement(s, fs, d) ==
    CASE s.is = "command"  -> [Left(IF s.c % 2 = 1 THEN "HostError" ELSE "normal")
                               EXCEPT !.log = <<s.c>>]
      [] s.is = "throw"    -> Left("UserThrown")
      [] s.is \in {"break", "continue", "return"} -> Left(s.is)
      [] s.is \in {"call", "list", "dict"} -> CallOf(s.f, fs, d)
      [] s.is \in {"badsum", "badkey", "badcall", "badawait"} -> Left("TypeError")
      [] s.is = "badname"  -> Left("NameError")
      [] s.is = "await"    -> Left(IF s.h = 0 THEN "normal" ELSE "HostError")
      [] s.is = "if"       -> Block(Chosen(s), fs, d)
      [] s.is = "while"    -> WhileLoop(s, fs, d)
      [] s.is = "for"      -> Iterated(s, fs, d)
      [] s.is = "try"      -> TryBlock(s, fs, d)

Block(b, fs, d) ==
    IF b = <<>> THEN Normal
    ELSE LET r == Statement(Head(b), fs, d)
         IN  IF r.out = "normal" THEN After(r, Block(Tail(b), fs, d)) ELSE r

\* A script: its functions, the first one being the script itself.
Script(fs) ==
    LET r == Block(fs[1], fs, 1)
    IN  IF r.out \in CommandErrors THEN [r EXCEPT !.parts = @ \cup {"abort"}] ELSE r
=============================================================================
