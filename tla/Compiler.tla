------------------------------ MODULE Compiler ------------------------------
(***************************************************************************)
(* The control-flow part of src/compiler.rs: how a statement becomes       *)
(* bytecode for the machine of module Vm.                                  *)
(*                                                                         *)
(* A statement is a record with a field "is".  A block is a sequence of    *)
(* statements.  Addresses count from 1 and are absolute, as in the         *)
(* bytecode; the code's backpatching becomes a first pass over the body    *)
(* that gives its length.                                                  *)
(***************************************************************************)
EXTENDS Integers, Sequences

Value(k, n)     == [kind |-> k, arg |-> n]
Push(k, n)      == [op |-> "LoadConstant", value |-> Value(k, n)]
I(op)           == [op |-> op, arg |-> 0]
Goto(op, label) == [op |-> op, arg |-> label]

\* The jump of a `break` whose loop has not been closed yet.
Unpatched == 0

\* The statements, with the source they stand for.
Command(c)        == [is |-> "command", c |-> c]      \* odd commands fail
ThrowStmt         == [is |-> "throw"]
BreakStmt         == [is |-> "break"]
ContinueStmt      == [is |-> "continue"]
ReturnStmt        == [is |-> "return"]
CallStmt(f)       == [is |-> "call", f |-> f]         \* call F()
ListOfCall(f)     == [is |-> "list", f |-> f]         \* let x = [1, F()]
DictOfCall(f)     == [is |-> "dict", f |-> f]         \* let x = {'a': F()}
BadSum            == [is |-> "badsum"]                \* let x = [1, 1 + []]
BadKey            == [is |-> "badkey"]                \* let x = [1, {[]: 1}]
BadName           == [is |-> "badname"]               \* let x = [1, unknown]
CallText          == [is |-> "badcall"]               \* call 'a'()
AwaitText         == [is |-> "badawait"]              \* await 'a'
AwaitStmt(h)      == [is |-> "await", h |-> h]        \* await host_h()
If(branches, e)   == [is |-> "if", branches |-> branches, else |-> e]
Branch(b, body)   == [cond |-> b, body |-> body]      \* if or elseif
Cond(b, t, e)     == If(<<Branch(b, t)>>, e)
While(b, body)    == [is |-> "while", cond |-> b, body |-> body]
ForIn(v, body)    == [is |-> "for", over |-> v, body |-> body]
For(n, body)      == ForIn(Value("list", n), body)
Try(body, c, fin) == [is |-> "try", body |-> body, catch |-> c, finally |-> fin]

\* A try without a catch clause.
NoCatch == <<[is |-> "none"]>>

Patched(code, end) ==
    [k \in 1 .. Len(code) |->
        IF code[k] = Goto("Jump", Unpatched) THEN Goto("Jump", end) ELSE code[k]]

RECURSIVE CompileBlock(_, _, _)
RECURSIVE CompileStmt(_, _, _)
RECURSIVE CompileIf(_, _, _)

\* The first branch of an if, and the if without it.
First(s)   == Head(s.branches)
Without(s) == [s EXCEPT !.branches = Tail(@)]

\* Mutant of CompileIf: the jump over the other branches is forgotten.
CompileIfFallsThrough(s, at, loop) ==
    IF s.branches = <<>> THEN CompileBlock(s.else, at, loop)
    ELSE LET body == CompileBlock(First(s).body, at + 2, loop)
             next == at + 2 + Len(body) + 1
         IN  <<Push("int", First(s).cond), Goto("JumpIfFalse", next)>> \o body
             \o <<Goto("Jump", next)>> \o CompileIf(Without(s), next, loop)

\* compile_if: the if, each elseif and the else, and a jump from the end of each
\* over the rest.
CompileIf(s, at, loop) ==
    IF s.branches = <<>> THEN CompileBlock(s.else, at, loop)
    ELSE LET body == CompileBlock(First(s).body, at + 2, loop)
             next == at + 2 + Len(body) + 1
             rest == CompileIf(Without(s), next, loop)
         IN  <<Push("int", First(s).cond), Goto("JumpIfFalse", next)>> \o body
             \o <<Goto("Jump", next + Len(rest))>> \o rest

\* compile_while
CompileWhile(s, at) ==
    LET body == CompileBlock(s.body, at + 2, at)
        end  == at + 2 + Len(body) + 1
    IN  <<Push("int", s.cond), Goto("JumpIfFalse", end)>>
        \o Patched(body, end) \o <<Goto("Jump", at)>>

\* Mutant of CompileFor: `break` leaves the iterator.
CompileForBreaksOut(s, at) ==
    LET start   == at + 2
        body    == CompileBlock(s.body, start + 2, start)
        cleanup == start + 2 + Len(body) + 1
    IN  <<[op |-> "LoadConstant", value |-> s.over], I("IterStart"), Goto("IterNext", cleanup), I("Store")>>
        \o Patched(body, cleanup + 1) \o <<Goto("Jump", start), I("IterEnd")>>

\* compile_for: `continue` goes to IterNext, `break` to IterEnd.
CompileFor(s, at) ==
    LET start   == at + 2
        body    == CompileBlock(s.body, start + 2, start)
        cleanup == start + 2 + Len(body) + 1
    IN  <<[op |-> "LoadConstant", value |-> s.over], I("IterStart"), Goto("IterNext", cleanup), I("Store")>>
        \o Patched(body, cleanup) \o <<Goto("Jump", start), I("IterEnd")>>

\* compile_try: the first catch clause takes every exception; a try without
\* one throws again, past its own finally.
CompileTry(s, at, loop) ==
    LET body    == CompileBlock(s.body, at + 1, loop)
        handler == at + 1 + Len(body) + 2
        catch   == IF s.catch = NoCatch THEN <<I("Throw")>>
                   ELSE <<I("Pop")>> \o CompileBlock(s.catch, handler + 1, loop)
        finally == handler + Len(catch)
    IN  <<Goto("TryBegin", handler)>> \o body
        \o <<I("TryEnd"), Goto("Jump", finally)>> \o catch
        \o CompileBlock(s.finally, finally, loop)

\* compile_stmt, for a statement at address at; loop is the address that
\* `continue` jumps to.  Expressions go through compile_expr.
CompileStmt(s, at, loop) ==
    CASE s.is = "command"  -> <<Goto("ExecuteCommand", s.c), I("Pop")>>
      [] s.is = "throw"    -> <<Push("text", 0), I("Throw")>>
      [] s.is = "break"    -> <<Goto("Jump", Unpatched)>>
      [] s.is = "continue" -> <<Goto("Jump", loop)>>
      [] s.is = "return"   -> <<Push("int", 1), I("Return")>>
      [] s.is = "call"     -> <<Push("closure", s.f), I("Call"), I("Pop")>>
      [] s.is = "list"     -> <<Push("int", 1), Push("closure", s.f), I("Call"),
                                Goto("BuildList", 2), I("Store")>>
      [] s.is = "dict"     -> <<Push("text", 1), Push("closure", s.f), I("Call"),
                                Goto("BuildDictionary", 1), I("Store")>>
      [] s.is = "badsum"   -> <<Push("int", 1), Push("int", 1), Push("list", 0),
                                I("Binary"), Goto("BuildList", 2), I("Store")>>
      [] s.is = "badkey"   -> <<Push("int", 1), Push("list", 0), Push("int", 1),
                                Goto("BuildDictionary", 1), Goto("BuildList", 2), I("Store")>>
      [] s.is = "badname"  -> <<Push("int", 1), I("LoadGlobal"), Goto("BuildList", 2),
                                I("Store")>>
      [] s.is = "await"    -> <<Push("host", s.h), I("Call"), I("Await"), I("Pop")>>
      [] s.is = "badcall"  -> <<Push("text", 0), I("Call"), I("Pop")>>
      [] s.is = "badawait" -> <<Push("text", 0), I("Await"), I("Pop")>>
      [] s.is = "if"       -> CompileIf(s, at, loop)
      [] s.is = "while"    -> CompileWhile(s, at)
      [] s.is = "for"      -> CompileFor(s, at)
      [] s.is = "try"      -> CompileTry(s, at, loop)

CompileBlock(b, at, loop) ==
    IF b = <<>> THEN <<>>
    ELSE LET first == CompileStmt(Head(b), at, loop)
         IN  first \o CompileBlock(Tail(b), at + Len(first), loop)

\* The epilogue of a function; compile() gives the script its own without
\* asking, compile_function_body only when the code does not end in a Return.
Epilogue == <<Push("null", 0), I("Return")>>

\* compile
CompileScript(body) == CompileBlock(body, 1, Unpatched) \o Epilogue

EndsInReturn(code) == code # <<>> /\ code[Len(code)] = I("Return")

\* compile_function_body
CompileFunction(body) ==
    LET code == CompileBlock(body, 1, Unpatched)
    IN  IF EndsInReturn(code) THEN code ELSE code \o Epilogue
=============================================================================
