------------------------------ MODULE CodeTypes ------------------------------
(***************************************************************************)
(* What a verifier of bytecode would ask of the code that Vm runs, and     *)
(* what the machine promises for code that passes.  The interpreter has no *)
(* verifier: vm.rs relies on compiler.rs, and reports "operand stack       *)
(* underflow", "iterator stack underflow", "instruction pointer is out of  *)
(* bounds" or a missing function as internal errors, which no script can   *)
(* catch.                                                                  *)
(*                                                                         *)
(* A type of an instruction is what holds of the frame when control gets   *)
(* there: how many operands the frame has on the stack, how many iterators *)
(* it has at least, and the address of its innermost handler (0: none).    *)
(***************************************************************************)
EXTENDS Vm

PointType == [height : Nat, iterators : Nat, handler : Nat]
Entry     == [height |-> 0, iterators |-> 0, handler |-> 0]

\* What an instruction takes off the stack and leaves on it.
Pops(i) ==
    CASE i.op \in {"Store", "Pop", "JumpIfFalse", "Return", "IterStart",
                   "Throw", "Await"} -> 1
      [] i.op = "Binary"    -> 2
      [] i.op = "BuildList" -> i.arg
      [] i.op = "BuildDictionary" -> 2 * i.arg
      [] i.op = "Call"      -> i.arg + 1
      [] OTHER              -> 0

Pushes(i) ==
    IF i.op \in {"LoadConstant", "LoadGlobal", "Binary", "BuildList",
                 "BuildDictionary", "Call", "IterNext", "Await", "ExecuteCommand"}
    THEN 1 ELSE 0

Continues(i) == i.op \notin {"Jump", "Return", "Throw"}

\* The type after instruction i, of type p, if control goes on to the next
\* one; outer is the handler around the one that TryEnd takes away.
Following(p, i, outer) ==
    [height    |-> p.height - Pops(i) + Pushes(i),
     iterators |-> CASE i.op = "IterStart" -> p.iterators + 1
                     [] i.op = "IterEnd"   -> p.iterators - 1
                     [] OTHER              -> p.iterators,
     handler   |-> CASE i.op = "TryBegin"  -> i.arg
                     [] i.op = "TryEnd"    -> outer
                     [] OTHER              -> p.handler]

\* The type of the instruction that i jumps to, or of the handler it installs,
\* which finds the exception on the stack.
AtTarget(p, i) ==
    [p EXCEPT !.height = IF i.op = "TryBegin" THEN @ + 1 ELSE @ - Pops(i)]

\* T types the instruction at k and agrees with where control goes from there:
\* the operands, iterators and handlers it needs are there, and whatever fails
\* under a handler leaves at least the operands the handler expects.
Typed(code, T, k) ==
    LET i == code[k]
        p == T[k]
        h == p.handler
    IN  /\ Pops(i) <= p.height
        /\ i.op \in {"IterNext", "IterEnd"} => p.iterators > 0
        /\ i.op = "TryEnd" => h # 0
        /\ h # 0 => /\ h <= Len(code)
                    /\ T[h].height <= p.height - Pops(i) + 1
                    /\ T[h].iterators <= p.iterators
        /\ i.op \in Jumps => /\ i.arg <= Len(code)
                             /\ T[i.arg] = AtTarget(p, i)
        /\ Continues(i) => /\ k < Len(code)
                           /\ T[k + 1] = Following(p, i, IF h = 0 THEN 0 ELSE T[h].handler)

WellTyped(code, T) ==
    /\ code # <<>>
    /\ T \in [1 .. Len(code) -> PointType]
    /\ T[1] = Entry
    /\ \A k \in 1 .. Len(code) : Typed(code, T, k)

\* The types of code as a compiler lays it out: an instruction has the type of
\* the first jump to it from above, or else what the one before it leaves.
\* Upto[k] has the types of the first k instructions.
Typing(code) ==
    LET Above(k) == {b \in 1 .. (k - 1) : code[b].op \in Jumps /\ code[b].arg = k}
        First(S) == CHOOSE b \in S : \A c \in S : b <= c
        Begin(h) == CHOOSE b \in 1 .. Len(code) : code[b] = [op |-> "TryBegin", arg |-> h]
        After(T, k) ==
            IF Above(k) # {}
            THEN LET b == First(Above(k)) IN AtTarget(T[b], code[b])
            ELSE IF Continues(code[k - 1])
            THEN Following(T[k - 1], code[k - 1],
                           IF T[k - 1].handler = 0 THEN 0 ELSE T[Begin(T[k - 1].handler)].handler)
            ELSE [T[k - 1] EXCEPT !.height = 0]
        Upto[k \in 1 .. Len(code)] ==
            IF k = 1 THEN <<Entry>> ELSE LET T == Upto[k - 1] IN Append(T, After(T, k))
    IN  Upto[Len(code)]

\* Every function of the module is well typed, and the functions it names
\* exist.
Verified ==
    \A f \in 1 .. Len(module.functions) :
        /\ WellTyped(CodeOf(f), Typing(CodeOf(f)))
        /\ \A k \in 1 .. Len(CodeOf(f)) :
              (CodeOf(f)[k].op = "LoadConstant" /\ CodeOf(f)[k].value.kind = "closure")
                => CodeOf(f)[k].value.arg <= Len(module.functions)
-----------------------------------------------------------------------------
(* The machine as its code is typed.                                       *)

TypesOf(frame) == Typing(CodeOf(frame.function))
Point(frame)   == TypesOf(frame)[frame.ip]

\* Where the operands of frame i end, of the frames fs, with n operands in all.
End(fs, i, n) == IF i < Len(fs) THEN fs[i + 1].stack_base ELSE n

\* A frame that has called another, or the host, has no result yet: `due` is 1
\* for the top frame if it waits for the host.
Due(fs, i, due) == IF i < Len(fs) THEN 1 ELSE due

\* Each frame stands at an instruction of its function, has exactly the
\* operands of that instruction's type and at least its iterators.
FramesFit(fs, n, due) ==
    /\ fs[1].stack_base = 0
    /\ \A i \in 1 .. Len(fs) :
          /\ fs[i].ip <= Len(CodeOf(fs[i].function))
          /\ Len(fs[i].iterators) >= Point(fs[i]).iterators
          /\ Point(fs[i]).height >= Due(fs, i, due)
          /\ End(fs, i, n) = fs[i].stack_base + Point(fs[i]).height - Due(fs, i, due)

\* The handler around handler x in the same frame, by the machine's list.
Outer(exs, x) ==
    IF x > 1 /\ exs[x - 1].frame_depth = exs[x].frame_depth
    THEN exs[x - 1].handler_ip ELSE 0

\* The innermost handler of a frame is the one of its instruction's type, each
\* handler lies in the one of its own type, and restores as many operands as
\* its type says, without the exception.
HandlersFit(fs, exs) ==
    /\ \A x \in 1 .. Len(exs) :
          LET e == exs[x]
              f == fs[e.frame_depth]
              p == TypesOf(f)[e.handler_ip]
          IN  /\ e.stack_depth = f.stack_base + p.height - 1
              /\ p.handler = Outer(exs, x)
              /\ (x = Len(exs) \/ exs[x + 1].frame_depth # e.frame_depth)
                    => Point(f).handler = e.handler_ip
    /\ \A i \in 1 .. Len(fs) :
          (\A x \in 1 .. Len(exs) : exs[x].frame_depth # i) => Point(fs[i]).handler = 0

WaitsForHost == IF request = "none" THEN 0 ELSE 1

\* For code that a verifier would pass, the machine's stacks are at every step
\* what the types of the code say, in every frame: after errors that unwind
\* several calls in the middle of an expression, calls refused by the host,
\* futures that fail, throws out of handlers and returns out of try blocks.
\* And it never ends in an internal error: no underflow of the operand or the
\* iterator stack, no address outside the code, no missing function.
StackAsTyped ==
    Verified =>
        /\ error # "Internal"
        /\ status \notin Ended =>
              /\ FramesFit(frames, Len(stack), WaitsForHost)
              /\ HandlersFit(frames, exceptions)

\* Every step uses up something that is never given back: instructions, or the
\* answers due for the current one.  So a script ends, however the host behaves,
\* if only the machine is stepped and answered: the part of EveryScriptEnds that
\* needs no fairness.
StepsLeft ==
    IF status \in Ended THEN 0
    ELSE 3 * budget + (CASE request = "none"    -> 1
                         [] request = "await"   -> 2
                         [] OTHER               -> 3)

RunsOut == [][StepsLeft' < StepsLeft /\ StepsLeft' >= 0]_vars
=============================================================================
