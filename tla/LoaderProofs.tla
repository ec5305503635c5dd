----------------------------- MODULE LoaderProofs -----------------------------
(***************************************************************************)
(* Proofs about Loader, for any scripts, texts, references (cyclic ones    *)
(* included) and registries.                                               *)
(***************************************************************************)
EXTENDS Loader, HostProofs, FiniteSetTheorems

GlobalsType == [Names -> Global \cup {Unset}]

\* The types the arguments below need, and when a script can run.
Typed ==
    /\ text \in Texts
    /\ loaded \in [Scripts -> Nat]
    /\ globals \in GlobalsType
    /\ sources \in Nat
    /\ queue \in Seq(Paths)
    /\ call \in Paths \cup {NoPath}
    /\ stack \in Seq(FrameType)
    /\ ip \in Nat
    /\ ip > 0 => /\ stack # <<>>
                 /\ call = NoPath
                 /\ saved.globals \in GlobalsType

\* Every step that touches none of the variables above.
Elsewhere ==
    UNCHANGED <<text, loaded, globals, sources, queue, call, stack, ip, saved>>

LEMMA EmbeddedStepsAreElsewhere ==
    ASSUME \/ \E c \in Embedded, b \in Buffers : Embed(c, b)
           \/ Acknowledge \/ EditorAnswers
           \/ \E m \in Modes, k \in Keys, b \in Buffers \cup {NoBuffer} :
                 UnmapKey(m, k, b)
           \/ \E e \in Events, s \in Subjects : Fire(e, s)
           \/ Request
           \/ UNCHANGED vars
    PROVE  Elsewhere
<1>1. CASE \E c \in Embedded, b \in Buffers : Embed(c, b)
  BY <1>1 DEF Embed, Elsewhere
<1>2. CASE Acknowledge \/ EditorAnswers
  BY <1>2 DEF Acknowledge, EditorAnswers, Elsewhere, loaderVars
<1>3. CASE \E m \in Modes, k \in Keys, b \in Buffers \cup {NoBuffer} :
              UnmapKey(m, k, b)
  BY <1>3 DEF UnmapKey, Elsewhere
<1>4. CASE \E e \in Events, s \in Subjects : Fire(e, s)
  BY <1>4 DEF Fire, Elsewhere
<1>5. CASE Request
  BY <1>5 DEF Request, Elsewhere, loaderVars
<1>6. CASE UNCHANGED vars
  BY <1>6 DEF vars, Elsewhere, loaderVars
<1> QED BY <1>1, <1>2, <1>3, <1>4, <1>5, <1>6

\* An error leaves no load in progress.
LEMMA ReturnErrorFacts ==
    ASSUME Typed, ReturnError
    PROVE  /\ stack' = <<>> /\ stack' \in Seq(FrameType)
           /\ call' = NoPath
           /\ queue' \in Seq(Paths)
<1>1. CASE queue # <<>>
  <2>1. Tail(queue) \in Seq(Paths)
    BY <1>1, HeadTailProperties DEF Typed
  <2> QED BY <1>1, <2>1 DEF ReturnError, AfterFailure
<1>2. CASE queue = <<>>
  BY <1>2 DEF ReturnError, Typed
<1>3. stack' = <<>> /\ call' = NoPath
  BY DEF ReturnError
<1>4. <<>> \in Seq(FrameType)
  BY EmptySeq
<1> QED BY <1>1, <1>2, <1>3, <1>4

LEMMA ReturnOkFacts ==
    ASSUME Typed, NEW callers, ReturnOk(callers)
    PROVE  queue' \in Seq(Paths)
<1>1. CASE callers = <<>> /\ queue # <<>>
  <2>1. Tail(queue) \in Seq(Paths)
    BY <1>1, HeadTailProperties DEF Typed
  <2> QED BY <1>1, <2>1 DEF ReturnOk
<1>2. CASE ~(callers = <<>> /\ queue # <<>>)
  BY <1>2 DEF ReturnOk, Typed
<1> QED BY <1>1, <1>2

LEMMA StackFacts ==
    ASSUME Typed, stack # <<>>
    PROVE  /\ Len(stack) \in Nat \ {0}
           /\ Top \in FrameType
           /\ Current = text[Top.script]
           /\ Top.script \in Scripts
<1>1. stack \in Seq(FrameType)
  BY DEF Typed
<1>2. Len(stack) \in Nat \ {0}
  BY <1>1, EmptySeq
<1>3. Top \in FrameType
  BY <1>1, <1>2, ElementOfSeq DEF Top
<1> QED BY <1>2, <1>3 DEF FrameType, Current

LEMMA PoppedFacts ==
    ASSUME Typed, stack # <<>>
    PROVE  /\ Popped \in Seq(FrameType)
           /\ Len(Popped) = Len(stack) - 1
           /\ \A i \in 1 .. Len(Popped) : Popped[i] = stack[i]
<1>1. stack \in Seq(FrameType) /\ Len(stack) \in Nat \ {0}
  BY StackFacts DEF Typed
<1> DEFINE n == Len(stack) - 1
<1>2. n \in Nat /\ \A i \in 1 .. n : stack[i] \in FrameType
  BY <1>1, ElementOfSeq
<1>3. /\ SubSeq(stack, 1, n) \in Seq(FrameType)
      /\ Len(SubSeq(stack, 1, n)) = IF 1 <= n THEN n - 1 + 1 ELSE 0
      /\ \A i \in 1 .. n - 1 + 1 : SubSeq(stack, 1, n)[i] = stack[1 + i - 1]
  <2> HIDE DEF n
  <2> QED BY <1>2, SubSeqProperties
<1>4. Len(SubSeq(stack, 1, n)) = n
  <2> HIDE DEF n
  <2> QED BY <1>2, <1>3
<1>5. \A i \in 1 .. n : SubSeq(stack, 1, n)[i] = stack[i]
  <2> HIDE DEF n
  <2> QED BY <1>2, <1>3
<1> QED BY <1>3, <1>4, <1>5 DEF Popped

\* Going on to the next reference keeps every frame's script and id.
LEMMA NextReferenceFacts ==
    ASSUME Typed, AtReference
    PROVE  /\ Head(Top.pending) \in Names
           /\ NextReference \in Seq(FrameType)
           /\ Len(NextReference) = Len(stack)
           /\ \A i \in 1 .. Len(stack) :
                 /\ NextReference[i].script = stack[i].script
                 /\ NextReference[i].id = stack[i].id
<1> DEFINE d == Len(stack)
           x == [Top EXCEPT !.pending = Tail(@)]
<1>1. stack \in Seq(FrameType) /\ stack # <<>>
  BY DEF Typed, AtReference, Looking
<1>2. Top \in FrameType /\ d \in 1 .. Len(stack)
  BY <1>1, StackFacts
<1>3. Top.pending \in Seq(Names) /\ Top.pending # <<>>
  BY <1>2 DEF FrameType, AtReference
<1>4. Tail(Top.pending) \in Seq(Names) /\ Head(Top.pending) \in Names
  BY <1>3, HeadTailProperties
<1>5. x \in FrameType /\ x.script = Top.script /\ x.id = Top.id
  BY <1>2, <1>4 DEF FrameType
<1>6. NextReference = [stack EXCEPT ![d] = x]
  BY DEF NextReference, Top
<1> HIDE DEF x
<1>7. /\ NextReference \in Seq(FrameType)
      /\ Len(NextReference) = Len(stack)
      /\ \A i \in 1 .. Len(stack) :
            NextReference[i] = IF i = d THEN x ELSE stack[i]
  BY <1>1, <1>2, <1>5, <1>6, ExceptSeq
<1> QED BY <1>4, <1>5, <1>7 DEF Top
-----------------------------------------------------------------------------
(* Types.                                                                  *)

LEMMA TypedInit == Init => Typed
BY DEF Init, Typed, InitialGlobals, GlobalsType

LEMMA TypedStep == Typed /\ [Next]_vars => Typed'
<1> SUFFICES ASSUME Typed, [Next]_vars PROVE Typed'
  OBVIOUS
<1> USE LoaderAssumption
<1>1. CASE Elsewhere
  BY <1>1 DEF Elsewhere, Typed
<1>2. CASE LoadStartupPlugins
  BY <1>2 DEF LoadStartupPlugins, Typed
<1>3. CASE \E name \in DOMAIN Colors : LoadColorscheme(name)
  BY <1>3 DEF LoadColorscheme, AtRest, Idle, Typed
<1>4. CASE SkipPlugin
  BY <1>4 DEF SkipPlugin, Typed
<1>5. CASE LoadPlugin
  BY <1>5 DEF LoadPlugin, Idle, Typed
<1>6. CASE Missing
  <2>1. ip' = 0 /\ globals' = globals /\ loaded' = loaded
    BY <1>6 DEF Missing, Typed
  <2>2. ReturnError /\ text' = text /\ sources' = sources
    BY <1>6 DEF Missing
  <2> QED BY <2>1, <2>2, ReturnErrorFacts DEF Typed
<1>7. CASE AlreadyLoaded
  BY <1>7, ReturnOkFacts DEF AlreadyLoaded, Typed
<1>8. CASE Enter
  <2>1. /\ Canonical[call] \in Scripts
        /\ text[Canonical[call]].references \in Seq(Names)
        /\ ip = 0
    BY <1>8 DEF Enter, Typed
  <2>2. stack' \in Seq(FrameType)
    BY <1>8, <2>1 DEF Enter, Typed, FrameType, NewId
  <2>3. sources' \in Nat /\ call' = NoPath
    BY <1>8 DEF Enter, NewId, Typed
  <2> QED BY <1>8, <2>1, <2>2, <2>3 DEF Enter, Typed
<1>9. CASE Rejected
  <2>1. ip' = 0 /\ globals' = globals /\ loaded' = loaded
    BY <1>9 DEF Rejected, Looking, Typed
  <2>2. ReturnError /\ text' = text /\ sources' = sources
    BY <1>9 DEF Rejected
  <2> QED BY <2>1, <2>2, ReturnErrorFacts DEF Typed
<1>10. CASE SkipReference
  BY <1>10, NextReferenceFacts DEF SkipReference, AtReference, Looking, Typed
<1>11. CASE Autoload
  <2>1. Head(Top.pending) \in Names
    BY <1>11, StackFacts DEF Autoload, AtReference, Looking, FrameType
  <2>2. call' \in Paths \cup {NoPath}
    BY <1>11, <2>1 DEF Autoload
  <2> QED BY <1>11, <2>2, NextReferenceFacts DEF Autoload, AtReference, Looking, Typed
<1>12. CASE Undiscovered
  <2>1. ip' = 0 /\ globals' = globals /\ loaded' = loaded
    BY <1>12 DEF Undiscovered, AtReference, Looking, Typed
  <2>2. ReturnError /\ text' = text /\ sources' = sources
    BY <1>12 DEF Undiscovered
  <2> QED BY <2>1, <2>2, ReturnErrorFacts DEF Typed
<1>13. CASE Begin
  BY <1>13 DEF Begin, Looking, StartingGlobals, Typed
<1>14. CASE Assign
  <2>1. Here.name \in Names
    BY <1>14, StackFacts DEF Assign, AtStatement, Running, Here, Typed
  <2>2. [owner |-> Top.script, function |-> Here.function] \in Global
    <3>1. /\ ip \in 1 .. Len(text[Top.script].body) /\ Top.script \in Scripts
          /\ Here = text[Top.script].body[ip] /\ Here.op = "set" /\ text \in Texts
      BY <1>14, StackFacts DEF Assign, AtStatement, Running, Here, Typed
    <3>2. Here.function \in BOOLEAN
      BY <3>1
    <3> QED BY <3>1, <3>2 DEF Global
  <2>3. globals' \in GlobalsType
    BY <1>14, <2>1, <2>2 DEF Assign, Typed, GlobalsType
  <2> QED BY <1>14, <2>3 DEF Assign, AtStatement, Running, Typed
<1>15. CASE Guard
  BY <1>15, StackFacts DEF Guard, AtStatement, Running, Typed
<1>16. CASE Evaluate
  BY <1>16 DEF Evaluate, AtStatement, Running, Typed
<1>17. CASE Resume
  BY <1>17 DEF Resume, AtStatement, Running, Typed
<1>18. CASE Finish
  <2>1. loaded' \in [Scripts -> Nat]
    BY <1>18, StackFacts DEF Finish, Running, Typed, FrameType
  <2> QED BY <1>18, <2>1, PoppedFacts, ReturnOkFacts DEF Finish, Running, Typed
<1>19. CASE Fail
  <2>1. ip' = 0 /\ globals' \in GlobalsType /\ loaded' = loaded
    BY <1>19 DEF Fail, Running, Typed
  <2>2. ReturnError /\ text' = text /\ sources' = sources
    BY <1>19 DEF Fail
  <2> QED BY <2>1, <2>2, ReturnErrorFacts DEF Typed
<1> QED
  BY <1>1, <1>2, <1>3, <1>4, <1>5, <1>6, <1>7, <1>8, <1>9, <1>10, <1>11, <1>12,
     <1>13, <1>14, <1>15, <1>16, <1>17, <1>18, <1>19, EmbeddedStepsAreElsewhere
  DEF Next, LoadStep

\* The types and the shape of a load hold in every reachable state.
THEOREM AlwaysTyped == Spec => []Typed
BY TypedInit, TypedStep, PTL DEF Spec
-----------------------------------------------------------------------------
(* What a step can do to the loads in progress.                            *)

SameLoads ==
    /\ UNCHANGED <<text, loaded, sources>>
    /\ Len(stack') = Len(stack)
    /\ \A i \in 1 .. Len(stack) : /\ stack'[i].script = stack[i].script
                                  /\ stack'[i].id = stack[i].id

Abandoned == UNCHANGED <<text, loaded, sources>> /\ stack' = <<>>

LEMMA LoadsChange ==
    ASSUME Typed, [Next]_vars
    PROVE  SameLoads \/ Abandoned \/ Enter \/ Finish
<1>1. ASSUME UNCHANGED <<text, loaded, sources, stack>>
      PROVE  SameLoads
  BY <1>1 DEF SameLoads
<1>2. ASSUME AtReference, stack' = NextReference, UNCHANGED <<text, loaded, sources>>
      PROVE  SameLoads
  BY <1>2, NextReferenceFacts DEF SameLoads
<1>3. ASSUME ReturnError, UNCHANGED <<text, loaded, sources>>
      PROVE  Abandoned
  BY <1>3 DEF ReturnError, Abandoned
<1>4. CASE Elsewhere
  BY <1>1, <1>4 DEF Elsewhere
<1>5. CASE LoadStartupPlugins \/ SkipPlugin \/ LoadPlugin \/ AlreadyLoaded
  BY <1>1, <1>5 DEF LoadStartupPlugins, SkipPlugin, LoadPlugin, AlreadyLoaded
<1>6. CASE \E name \in DOMAIN Colors : LoadColorscheme(name)
  BY <1>1, <1>6 DEF LoadColorscheme
<1>7. CASE Begin \/ Assign \/ Guard \/ Evaluate \/ Resume
  BY <1>1, <1>7 DEF Begin, Assign, Guard, Evaluate, Resume
<1>8. CASE SkipReference \/ Autoload
  BY <1>2, <1>8 DEF SkipReference, Autoload
<1>9. CASE Missing \/ Rejected \/ Undiscovered \/ Fail
  BY <1>3, <1>9 DEF Missing, Rejected, Undiscovered, Fail
<1> QED
  BY <1>4, <1>5, <1>6, <1>7, <1>8, <1>9, EmbeddedStepsAreElsewhere
  DEF Next, LoadStep
-----------------------------------------------------------------------------
(* Namespaces.  Every id has been a source, so a new one is in no use.     *)

DistinctIds ==
    /\ \A s \in Scripts : loaded[s] <= sources
    /\ \A s, t \in Scripts : loaded[s] = loaded[t] => s = t \/ loaded[s] = 0
    /\ \A i \in 1 .. Len(stack) :
          /\ stack[i].id \in Nat \ {0} /\ stack[i].id <= sources
          /\ \A s \in Scripts : loaded[s] # stack[i].id
          /\ \A j \in 1 .. Len(stack) : stack[i].id = stack[j].id => i = j

LEMMA DistinctIdsInit == Init => DistinctIds
BY DEF Init, DistinctIds

LEMMA DistinctIdsStep == Typed /\ Typed' /\ DistinctIds /\ [Next]_vars => DistinctIds'
<1> SUFFICES ASSUME Typed, Typed', DistinctIds, [Next]_vars PROVE DistinctIds'
  OBVIOUS
<1>1. CASE SameLoads
  BY <1>1 DEF SameLoads, DistinctIds
<1>2. CASE Abandoned
  <2>1. Len(stack') = 0
    BY <1>2 DEF Abandoned
  <2> QED BY <1>2, <2>1 DEF Abandoned, DistinctIds
<1>3. CASE Enter
  <2> DEFINE f == [script |-> Canonical[call], id |-> sources + 1,
                   pending |-> text[Canonical[call]].references]
  <2>1. /\ stack' = Append(stack, f) /\ f.id = sources + 1
        /\ sources' = sources + 1 /\ loaded' = loaded
        /\ f \in FrameType
    BY <1>3, LoaderAssumption DEF Enter, NewId, Typed, FrameType
  <2> HIDE DEF f
  <2>2. /\ Len(stack') = Len(stack) + 1
        /\ \A i \in 1 .. Len(stack) : stack'[i] = stack[i]
        /\ stack'[Len(stack) + 1] = f
    BY <2>1, AppendProperties DEF Typed
  <2>3. sources \in Nat /\ Len(stack) \in Nat /\ loaded \in [Scripts -> Nat]
    BY DEF Typed
  <2> QED BY <2>1, <2>2, <2>3 DEF DistinctIds
<1>4. CASE Finish
  <2>1. stack # <<>>
    BY <1>4 DEF Finish, Running
  <2>2. /\ Top = stack[Len(stack)] /\ Len(stack) \in Nat \ {0}
        /\ Top.script \in Scripts
    BY <2>1, StackFacts DEF Top
  <2>3. /\ Len(stack') = Len(stack) - 1
        /\ \A i \in 1 .. Len(stack) - 1 : stack'[i] = stack[i]
    BY <1>4, <2>1, PoppedFacts DEF Finish
  <2>4. /\ loaded' = [loaded EXCEPT ![Top.script] = Top.id]
        /\ sources' = sources /\ loaded \in [Scripts -> Nat]
    BY <1>4 DEF Finish, Typed
  <2>5. \A s \in Scripts : loaded'[s] = IF s = Top.script THEN Top.id ELSE loaded[s]
    BY <2>2, <2>4
  <2> QED BY <2>2, <2>3, <2>4, <2>5, SMTT(40) DEF DistinctIds
<1> QED BY <1>1, <1>2, <1>3, <1>4, LoadsChange

\* No two scripts, loaded or being loaded, share the id that names their
\* s: variables, however many loads have failed (plugin.rs, load_script).
THEOREM NamespacesAlwaysDistinct == Spec => []NamespacesDistinct
<1>1. Typed /\ DistinctIds => NamespacesDistinct
  BY DEF Typed, DistinctIds, NamespacesDistinct
<1> QED
  BY <1>1, TypedInit, TypedStep, DistinctIdsInit, DistinctIdsStep, PTL DEF Spec
-----------------------------------------------------------------------------
(* Globals.  A failure brings back the globals from before the script, so  *)
(* those must define what is loaded too; and a script on its way has set   *)
(* what its statements so far set for sure.                                *)

DefinedIn(g) ==
    \A s \in Scripts : loaded[s] # 0 =>
        \A i \in 1 .. Len(text[s].body) :
            SetsForSure(s, i) => g[text[s].body[i].name] # Unset

DefinedSoFar ==
    ip > 0 =>
        \A i \in 1 .. Len(Current.body) :
            SetsForSure(Top.script, i) /\ i < ip
                => globals[Current.body[i].name] # Unset

Defined ==
    /\ DefinedIn(globals)
    /\ ip > 0 => DefinedIn(saved.globals)
    /\ DefinedSoFar

\* Steps that change none of the variables Defined reads, or abandon the
\* script before it has run.
LEMMA DefinedElsewhere ==
    ASSUME Typed, Defined, ip' = 0, UNCHANGED <<text, loaded, globals>>
    PROVE  Defined'
BY DEF Defined, DefinedIn, DefinedSoFar, SetsForSure

LEMMA DefinedInit == Init => Defined
BY DEF Init, Defined, DefinedIn, DefinedSoFar

\* The running script goes on; what was set stays set, and the statement it
\* leaves behind has set its global if it is one that does.
LEMMA DefinedGoesOn ==
    ASSUME Typed, Typed', Defined, Running,
           UNCHANGED <<text, loaded, stack, saved>>,
           \A n \in Names : globals[n] # Unset => globals'[n] # Unset,
           \A i \in 1 .. Len(Current.body) :
               SetsForSure(Top.script, i) /\ i < ip' /\ ~(i < ip)
                   => globals'[Current.body[i].name] # Unset
    PROVE  Defined'
<1>1. /\ Top' = Top /\ Current' = Current /\ Top.script \in Scripts
      /\ Current = text[Top.script]
  BY StackFacts DEF Running, Top, Current
<1>2. \A s \in Scripts : \A i \in 1 .. Len(text[s].body) :
          /\ SetsForSure(s, i)' = SetsForSure(s, i)
          /\ SetsForSure(s, i) => text[s].body[i].name \in Names
  BY LoaderAssumption DEF SetsForSure, Typed
<1>3. DefinedIn(globals)'
  BY <1>2 DEF Defined, DefinedIn
<1>4. DefinedIn(saved.globals)'
  BY <1>2 DEF Defined, DefinedIn, Running
<1>5. DefinedSoFar'
  BY <1>1, <1>2 DEF Defined, DefinedSoFar, Running
<1> QED BY <1>3, <1>4, <1>5 DEF Defined

LEMMA DefinedStep == Typed /\ Typed' /\ Defined /\ [Next]_vars => Defined'
<1> SUFFICES ASSUME Typed, Typed', Defined, [Next]_vars PROVE Defined'
  OBVIOUS
<1>1. CASE Elsewhere
  <2>1. Top' = Top /\ Current' = Current
    BY <1>1 DEF Elsewhere, Top, Current
  <2> QED BY <1>1, <2>1 DEF Elsewhere, Defined, DefinedIn, DefinedSoFar, SetsForSure
<1>2. CASE LoadStartupPlugins \/ SkipPlugin \/ LoadPlugin
  BY <1>2, DefinedElsewhere
  DEF LoadStartupPlugins, SkipPlugin, LoadPlugin, AtRest, Idle, Typed
<1>3. CASE \E name \in DOMAIN Colors : LoadColorscheme(name)
  BY <1>3, DefinedElsewhere DEF LoadColorscheme, AtRest, Idle, Typed
<1>4. CASE Missing \/ AlreadyLoaded \/ Enter
  BY <1>4, DefinedElsewhere DEF Missing, AlreadyLoaded, Enter, Typed
<1>5. CASE Rejected \/ SkipReference \/ Autoload \/ Undiscovered
  BY <1>5, DefinedElsewhere
  DEF Rejected, SkipReference, Autoload, Undiscovered, AtReference, Looking
<1>6. CASE Begin
  <2>1. /\ ip' = 1 /\ saved'.globals = globals
        /\ UNCHANGED <<text, loaded, globals, stack>>
    BY <1>6 DEF Begin, StartingGlobals
  <2>2. DefinedIn(globals)' /\ DefinedIn(saved.globals)'
    BY <2>1 DEF Defined, DefinedIn, SetsForSure
  <2>3. DefinedSoFar'
    BY <2>1 DEF DefinedSoFar
  <2> QED BY <2>2, <2>3 DEF Defined
<1>7. ASSUME Running, UNCHANGED <<text, loaded, stack, saved, globals>>,
             \A i \in 1 .. Len(Current.body) :
                 i < ip' /\ ~(i < ip) => ~SetsForSure(Top.script, i)
      PROVE  Defined'
  BY <1>7, DefinedGoesOn
<1>8. ASSUME Running, UNCHANGED <<text, loaded, stack, saved, globals>>,
             ip' = ip + 1, Here.op # "set"
      PROVE  Defined'
  <2>1. ~SetsForSure(Top.script, ip)
    BY <1>8, StackFacts DEF SetsForSure, Here, Running
  <2>2. \A i \in 1 .. Len(Current.body) : i < ip' /\ ~(i < ip) => i = ip
    BY <1>8 DEF Typed
  <2> QED BY <1>7, <1>8, <2>1, <2>2
<1>9. CASE Assign
  <2>1. /\ Running /\ ip' = ip + 1 /\ ip \in Nat /\ ip <= Len(Current.body)
        /\ UNCHANGED <<text, loaded, stack, saved>>
        /\ globals' = [globals EXCEPT ![Here.name] =
                          [owner |-> Top.script, function |-> Here.function]]
        /\ globals \in [Names -> Global \cup {Unset}]
        /\ Here.op = "set" /\ ip > 0
    BY <1>9 DEF Assign, AtStatement, Running, Typed, GlobalsType
  <2>2. /\ Top.script \in Scripts /\ Current = text[Top.script]
         /\ text \in Texts /\ Here = Current.body[ip]
    BY <2>1, StackFacts DEF Running, Here, Typed
  <2>3. [owner |-> Top.script, function |-> Here.function] # Unset
    BY <2>2, LoaderAssumption DEF Unset
  <2>4. ip \in 1 .. Len(text[Top.script].body)
    BY <2>1, <2>2, LoaderAssumption
  <2>5. /\ Top.script \in Scripts
        /\ Here = text[Top.script].body[ip] /\ Here.name \in Names
    BY <2>1, <2>2, <2>3, <2>4, LoaderAssumption
  <2>6. /\ globals'[Here.name] # Unset
        /\ \A n \in Names : globals[n] # Unset => globals'[n] # Unset
    BY <2>1, <2>3, <2>5
  <2>7. \A i \in 1 .. Len(Current.body) :
            i < ip' /\ ~(i < ip) => Current.body[i] = Here
    BY <2>1 DEF Here
  <2> QED BY <2>1, <2>6, <2>7, DefinedGoesOn
<1>10. CASE Guard
  <2>1. /\ Running /\ Here.op = "guard" /\ ip \in Nat /\ ip > 0
        /\ UNCHANGED <<text, loaded, stack, saved, globals>>
    BY <1>10 DEF Guard, AtStatement, Running, Typed
  <2>2. \A i \in 1 .. Len(Current.body) : ~(i < ip) => ~SetsForSure(Top.script, i)
    BY <2>1, StackFacts DEF SetsForSure, Here, Running
  <2> QED BY <1>7, <2>1, <2>2
<1>11. CASE Evaluate
  BY <1>8, <1>11 DEF Evaluate, AtStatement
<1>12. CASE Resume
  BY <1>8, <1>12 DEF Resume, AtStatement
<1>13. CASE Finish
  <2>1. /\ Running /\ ip' = 0 /\ ip > Len(Current.body)
        /\ UNCHANGED <<text, globals>>
        /\ loaded' = [loaded EXCEPT ![Top.script] = Top.id]
        /\ ip \in Nat /\ loaded \in [Scripts -> Nat]
    BY <1>13 DEF Finish, Typed
  <2>2. Top.script \in Scripts /\ Current = text[Top.script]
    BY <2>1, StackFacts DEF Running
  <2>3. \A i \in 1 .. Len(text[Top.script].body) :
            SetsForSure(Top.script, i)
                => globals[text[Top.script].body[i].name] # Unset
    <3> SUFFICES ASSUME NEW i \in 1 .. Len(text[Top.script].body)
                 PROVE  SetsForSure(Top.script, i)
                            => globals[text[Top.script].body[i].name] # Unset
      OBVIOUS
    <3>1. Len(text[Top.script].body) \in Nat
      BY <2>2, LoaderAssumption DEF Typed
    <3>2. i < ip
      BY <2>1, <2>2, <3>1
    <3> QED BY <2>1, <2>2, <3>2 DEF Defined, DefinedSoFar, Running
  <2>4. \A s \in Scripts : loaded'[s] # 0 => s = Top.script \/ loaded[s] # 0
    BY <2>1, <2>2
  <2>5. DefinedIn(globals)'
    BY <2>1, <2>3, <2>4 DEF Defined, DefinedIn, SetsForSure
  <2> QED BY <2>1, <2>5 DEF Defined, DefinedSoFar
<1>14. CASE Fail
  <2>1. /\ ip > 0 /\ ip' = 0 /\ globals' = saved.globals
        /\ UNCHANGED <<text, loaded>>
    BY <1>14 DEF Fail, Running
  <2> QED BY <2>1 DEF Defined, DefinedIn, DefinedSoFar, SetsForSure
<1> QED
  BY <1>1, <1>2, <1>3, <1>4, <1>5, <1>6, <1>9, <1>10, <1>11, <1>12, <1>13, <1>14,
     EmbeddedStepsAreElsewhere
  DEF Next, LoadStep

\* What a loaded script defines unconditionally stays defined, whatever is
\* loaded in and after it and fails (plugin.rs replaces its globals as a whole).
THEOREM LoadedAlwaysStaysDefined == Spec => []LoadedStaysDefined
<1>1. Defined => LoadedStaysDefined
  BY DEF Defined, DefinedIn, LoadedStaysDefined
<1> QED
  BY <1>1, TypedInit, TypedStep, DefinedInit, DefinedStep, PTL DEF Spec
-----------------------------------------------------------------------------
(* What reaches the editor.                                                *)

\* The registries are the script's or the embedding program's to change by a
\* command; a failure and a firing change them without one.
LEMMA SentChanges ==
    ASSUME [Next]_vars
    PROVE  \/ UNCHANGED sent
           \/ \E c \in Embedded, b \in Buffers : Command(c, Embedder, b)
           \/ Running /\ Command(Here.command, Top.script, NoBuffer)
<1>1. CASE UNCHANGED vars
  BY <1>1 DEF vars, hostVars
<1>2. CASE LoadStartupPlugins \/ Acknowledge \/ EditorAnswers
  BY <1>2 DEF LoadStartupPlugins, Acknowledge, EditorAnswers, Answered, hostVars
<1>3. CASE \E name \in DOMAIN Colors : LoadColorscheme(name)
  BY <1>3 DEF LoadColorscheme, hostVars
<1>4. CASE \E c \in Embedded, b \in Buffers : Embed(c, b)
  BY <1>4 DEF Embed
<1>5. CASE \E m \in Modes, k \in Keys, b \in Buffers \cup {NoBuffer} :
              UnmapKey(m, k, b)
  BY <1>5 DEF UnmapKey, Unmap
<1>6. CASE \E e \in Events, s \in Subjects : Fire(e, s)
  BY <1>6 DEF Fire, FireEvent
<1>7. CASE \/ SkipPlugin \/ LoadPlugin \/ Missing \/ AlreadyLoaded \/ Enter
           \/ Rejected \/ SkipReference \/ Autoload \/ Undiscovered
  BY <1>7 DEF SkipPlugin, LoadPlugin, Missing, AlreadyLoaded, Enter, Rejected,
     SkipReference, Autoload, Undiscovered, hostVars
<1>8. CASE Begin \/ Assign \/ Guard \/ Evaluate \/ Resume \/ Finish \/ Fail
  BY <1>8 DEF Begin, Assign, Guard, Evaluate, Resume, Finish, Fail, hostVars
<1>9. CASE Request
  BY <1>9 DEF Request, AtStatement
<1> QED
  BY <1>1, <1>2, <1>3, <1>4, <1>5, <1>6, <1>7, <1>8, <1>9 DEF Next, LoadStep

LEMMA CommandSends ==
    ASSUME NEW c, NEW owner, NEW buffer, Command(c, owner, buffer),
           OnlyPermittedIsSent
    PROVE  OnlyPermittedIsSent'
<1>1. CASE CallFunction(c)
  BY <1>1 DEF CallFunction, Callable, Refuse, OnlyPermittedIsSent
<1>4. CASE AccessOption(c)
  BY <1>4 DEF AccessOption, Refuse, OnlyPermittedIsSent
<1>2. CASE RunCommand(c)
  <2>1. CASE Prepared(c) = Unexpandable \/ ~Accepted(Prepared(c))
    BY <1>2, <2>1 DEF RunCommand, Refuse, OnlyPermittedIsSent
  <2>2. CASE Prepared(c) # Unexpandable /\ Accepted(Prepared(c))
    <3>1. PICK n \in Natives : /\ Resolved(Prepared(c).name) = {n}
                               /\ Prepared(c).bang => n \in AcceptsBang
                               /\ n \in Permitted
      BY <2>2 DEF Accepted
    <3>2. (CHOOSE m \in {n} : TRUE) = n
      OBVIOUS
    <3>3. sent' = sent \cup {[name |-> n, bang |-> Prepared(c).bang]}
      BY <1>2, <2>2, <3>1, <3>2 DEF RunCommand
    <3> QED BY <3>1, <3>3 DEF OnlyPermittedIsSent
  <2> QED BY <2>1, <2>2
<1>3. CASE ~CallFunction(c) /\ ~RunCommand(c) /\ ~AccessOption(c)
  <2>1. UNCHANGED sent
    BY <1>3 DEF Command, DefineUserCommand, DeleteUserCommand, Augroup, Autocmd,
       MapKeys, Refuse
  <2> QED BY <2>1 DEF OnlyPermittedIsSent
<1> QED BY <1>1, <1>2, <1>3, <1>4

\* Whatever a script and its user commands make of each other, the editor is
\* asked only for what it has and permits (host.rs, dispatch_command, dispatch).
THEOREM OnlyPermittedIsEverSent == Spec => []OnlyPermittedIsSent
<1>1. Init => OnlyPermittedIsSent
  BY DEF Init, HostInit, OnlyPermittedIsSent
<1>2. OnlyPermittedIsSent /\ [Next]_vars => OnlyPermittedIsSent'
  <2> SUFFICES ASSUME OnlyPermittedIsSent, [Next]_vars PROVE OnlyPermittedIsSent'
    OBVIOUS
  <2>1. CASE UNCHANGED sent
    BY <2>1 DEF OnlyPermittedIsSent
  <2> QED BY <2>1, SentChanges, CommandSends
<1> QED BY <1>1, <1>2, PTL DEF Spec
-----------------------------------------------------------------------------
(* Mappings.  A failure brings back the mappings from before the script, so *)
(* those of buffers must be what they are now.                             *)

Cells == (Buffers \cup {NoBuffer}) \X Modes \X Keys

ByCell(maps) == maps = [k \in Cells |-> maps[k]]

SameInBuffers(maps, others) ==
    \A b \in Buffers, m \in Modes, k \in Keys :
        maps[<<b, m, k>>] = others[<<b, m, k>>]

Mappings ==
    /\ ByCell(keymaps)
    /\ ip > 0 => /\ ByCell(saved.host.keymaps)
                 /\ SameInBuffers(keymaps, saved.host.keymaps)

LEMMA MappingsInit == Init => Mappings
BY DEF Init, HostInit, Mappings, ByCell, Cells

LEMMA CommandMaps ==
    ASSUME NEW c, NEW owner, NEW buffer, Command(c, owner, buffer), ByCell(keymaps)
    PROVE  /\ ByCell(keymaps')
           /\ buffer = NoBuffer => SameInBuffers(keymaps', keymaps)
<1>1. CASE UNCHANGED keymaps
  BY <1>1 DEF SameInBuffers
<1>2. CASE MapKeys(c, owner, buffer) /\ ~UNCHANGED keymaps
  <2> DEFINE target == IF c.args.local THEN buffer ELSE NoBuffer
             cells == {target} \X ModesOf(c.args.prefix) \X {c.args.lhs}
             new == [owner |-> owner, id |-> next_mapping_id]
  <2>1. /\ keymaps' = [k \in DOMAIN keymaps |->
                          IF k \in cells THEN new ELSE keymaps[k]]
        /\ ~(c.args.local /\ buffer = NoBuffer)
    BY <1>2 DEF MapKeys, Refuse, registries
  <2>2. DOMAIN keymaps = Cells
    BY DEF ByCell
  <2> HIDE DEF new
  <2>3. ByCell(keymaps')
    BY <2>1, <2>2 DEF ByCell
  <2>4. ASSUME buffer = NoBuffer, NEW b \in Buffers, NEW m \in Modes, NEW k \in Keys
        PROVE  keymaps'[<<b, m, k>>] = keymaps[<<b, m, k>>]
    <3>1. target = NoBuffer /\ b # NoBuffer
      BY <2>1, <2>4, HostAssumption
    <3>2. <<b, m, k>> \notin cells
      BY <3>1
    <3>3. <<b, m, k>> \in Cells
      BY DEF Cells
    <3> QED BY <2>1, <2>2, <3>2, <3>3
  <2> QED BY <2>3, <2>4 DEF SameInBuffers
<1>3. CASE ~MapKeys(c, owner, buffer) /\ ~UNCHANGED keymaps
  BY <1>3 DEF Command, DefineUserCommand, DeleteUserCommand, Augroup, Autocmd,
     RunCommand, CallFunction, AccessOption, Refuse, registries
<1> QED BY <1>1, <1>2, <1>3

\* What a step can do to the mappings and to what a failure would bring back.
LEMMA MappingsChange ==
    ASSUME Typed, [Next]_vars
    PROVE  \/ UNCHANGED <<keymaps, saved, ip>>
           \/ UNCHANGED keymaps /\ ip' = 0 /\ ~Fail
           \/ UNCHANGED <<keymaps, saved>> /\ Running
           \/ Begin
           \/ \E c \in Embedded, b \in Buffers :
                 Command(c, Embedder, b) /\ ~Running /\ ip' = 0
           \/ \E m \in Modes, k \in Keys, b \in Buffers \cup {NoBuffer} :
                 Unmap(m, k, b) /\ ~Running /\ ip' = 0
           \/ /\ Running /\ Command(Here.command, Top.script, NoBuffer)
              /\ UNCHANGED <<saved, ip>>
           \/ Fail
<1>1. CASE UNCHANGED vars
  BY <1>1 DEF vars, hostVars, loaderVars, registries
<1>2. CASE LoadStartupPlugins \/ Acknowledge \/ EditorAnswers
  BY <1>2
  DEF LoadStartupPlugins, Acknowledge, EditorAnswers, Answered, hostVars, loaderVars,
      registries
<1>3. CASE \E name \in DOMAIN Colors : LoadColorscheme(name)
  BY <1>3 DEF LoadColorscheme, hostVars, registries
<1>4. CASE \E c \in Embedded, b \in Buffers : Embed(c, b)
  <2>1. PICK c \in Embedded, b \in Buffers : Embed(c, b)
    BY <1>4
  <2> QED BY <2>1 DEF Embed, AtRest, Idle, Running, Typed
<1>5. CASE \E m \in Modes, k \in Keys, b \in Buffers \cup {NoBuffer} :
              UnmapKey(m, k, b)
  <2>1. PICK m \in Modes, k \in Keys, b \in Buffers \cup {NoBuffer} :
            UnmapKey(m, k, b)
    BY <1>5
  <2> QED BY <2>1 DEF UnmapKey, AtRest, Idle, Running, Typed
<1>6. CASE \E e \in Events, s \in Subjects : Fire(e, s)
  BY <1>6 DEF Fire, FireEvent
<1>7. CASE \/ SkipPlugin \/ LoadPlugin \/ Missing \/ AlreadyLoaded \/ Enter
           \/ Rejected \/ SkipReference \/ Autoload \/ Undiscovered
  BY <1>7 DEF SkipPlugin, LoadPlugin, Missing, AlreadyLoaded, Enter, Rejected,
     SkipReference, Autoload, Undiscovered, hostVars, registries
<1>8. CASE Begin \/ Fail
  BY <1>8
<1>9. CASE Assign \/ Guard \/ Evaluate \/ Resume
  BY <1>9 DEF Assign, Guard, Evaluate, Resume, AtStatement, hostVars, registries
<1>10. CASE Finish
  BY <1>10 DEF Finish, Fail, hostVars, registries
<1>11. CASE Request
  BY <1>11 DEF Request, AtStatement, loaderVars
<1> QED
  BY <1>1, <1>2, <1>3, <1>4, <1>5, <1>6, <1>7, <1>8, <1>9, <1>10, <1>11
  DEF Next, LoadStep

LEMMA MappingsStep == Typed /\ Mappings /\ [Next]_vars => Mappings'
<1> SUFFICES ASSUME Typed, Mappings, [Next]_vars PROVE Mappings'
  OBVIOUS
<1>1. CASE UNCHANGED <<keymaps, saved, ip>>
  BY <1>1 DEF Mappings
<1>2. CASE UNCHANGED keymaps /\ ip' = 0
  BY <1>2 DEF Mappings
<1>3. CASE UNCHANGED <<keymaps, saved>> /\ Running
  BY <1>3 DEF Mappings, Running
<1>4. CASE Begin
  <2>1. UNCHANGED keymaps /\ saved'.host.keymaps = keymaps
    BY <1>4 DEF Begin, HostState, hostVars, registries
  <2> QED BY <2>1 DEF Mappings, SameInBuffers
<1>5. CASE \E c \in Embedded, b \in Buffers :
              Command(c, Embedder, b) /\ ~Running /\ ip' = 0
  BY <1>5, CommandMaps DEF Mappings
<1>6. CASE \E m \in Modes, k \in Keys, b \in Buffers \cup {NoBuffer} :
              Unmap(m, k, b) /\ ~Running /\ ip' = 0
  BY <1>6 DEF Unmap, Mappings, ByCell
<1>7. CASE /\ Running /\ Command(Here.command, Top.script, NoBuffer)
           /\ UNCHANGED <<saved, ip>>
  <2>1. ByCell(keymaps') /\ SameInBuffers(keymaps', keymaps)
    BY <1>7, CommandMaps DEF Mappings
  <2> QED BY <1>7, <2>1 DEF Mappings, Running, SameInBuffers
<1>8. CASE Fail
  BY <1>8 DEF Fail, RestoreHost, Running, Mappings
<1> QED BY <1>1, <1>2, <1>3, <1>4, <1>5, <1>6, <1>7, <1>8, MappingsChange

\* A script changes no mapping that a buffer has of its own, neither when it
\* runs nor when its failure undoes what it did (host.rs, handle_mapping).
THEOREM BufferMappingsAlwaysShadow == Spec => BufferMappingsShadow
<1>1. Typed /\ Mappings /\ [Next]_vars
        => (Running => \A m \in Modes, k \in Keys, b \in Buffers :
               keymaps[<<b, m, k>>] # NoMapping
                 => Resolve(m, k, b)' = Resolve(m, k, b))
  <2> SUFFICES ASSUME Typed, Mappings, [Next]_vars, Running
               PROVE  \A m \in Modes, k \in Keys, b \in Buffers :
                          keymaps[<<b, m, k>>] # NoMapping
                            => Resolve(m, k, b)' = Resolve(m, k, b)
    OBVIOUS
  <2>1. CASE UNCHANGED keymaps
    BY <2>1 DEF Resolve
  <2>2. CASE Running /\ Command(Here.command, Top.script, NoBuffer)
    <3>1. SameInBuffers(keymaps', keymaps)
      BY <2>2, CommandMaps DEF Mappings
    <3> QED BY <3>1 DEF SameInBuffers, Resolve
  <2>3. CASE Fail
    <3>1. SameInBuffers(keymaps', keymaps)
      BY <2>3 DEF Fail, RestoreHost, Mappings, Running, SameInBuffers
    <3> QED BY <3>1 DEF SameInBuffers, Resolve
  <2>4. CASE Begin
    BY <2>4 DEF Begin, hostVars, registries, Resolve
  <2> QED BY <2>1, <2>2, <2>3, <2>4, MappingsChange DEF Running
<1> QED
  BY <1>1, TypedInit, TypedStep, MappingsInit, MappingsStep, PTL
  DEF Spec, BufferMappingsShadow
-----------------------------------------------------------------------------
(* The registries.  A failure brings back those from before the script, so  *)
(* they must be as sound as the ones in use, also for what has been handed  *)
(* out meanwhile.                                                           *)

\* No command is given.
AnswerGoesOn ==
    \/ answer' \in {answer, "none"}
    \/ answer = "waiting" /\ answer' \in {"ok", "error"}

\* Steps that leave the registries, the globals and loaded_scripts alone.
Quiet ==
    /\ UNCHANGED <<registries, sent, consumed, globals, loaded>>
    /\ AnswerGoesOn
    /\ \/ ip = 0 /\ ip' = 0
       \/ Running /\ ip' > 0 /\ UNCHANGED <<text, stack, saved>>

\* What the embedding program does between two loads.
FromOutside == ip = 0 /\ ip' = 0 /\ UNCHANGED <<globals, loaded>>

ByEmbedder ==
    FromOutside /\ \E c \in Embedded, b \in Buffers : Command(c, Embedder, b)
KeyUnmapped ==
    /\ FromOutside
    /\ \E m \in Modes, k \in Keys, b \in Buffers \cup {NoBuffer} : Unmap(m, k, b)
Fired == FromOutside /\ \E e \in Events, s \in Subjects : FireEvent(e, s)

LEMMA RegistriesChange ==
    ASSUME Typed, [Next]_vars
    PROVE  \/ Quiet \/ ByEmbedder \/ KeyUnmapped \/ Fired
           \/ Begin \/ Assign \/ Request \/ Finish \/ Fail
<1> USE DEF AnswerGoesOn
<1>1. CASE UNCHANGED vars
  BY <1>1 DEF vars, hostVars, loaderVars, Quiet, Running, Typed
<1>2. CASE LoadStartupPlugins \/ Acknowledge
  BY <1>2 DEF LoadStartupPlugins, Acknowledge, AtRest, Idle, Quiet, hostVars, loaderVars,
     Typed
<1>10. CASE EditorAnswers
  BY <1>10 DEF EditorAnswers, Answered, Running, Quiet, registries, loaderVars, Typed
<1>3. CASE \E name \in DOMAIN Colors : LoadColorscheme(name)
  BY <1>3 DEF LoadColorscheme, AtRest, Idle, Quiet, hostVars, Typed
<1>4. CASE \E c \in Embedded, b \in Buffers : Embed(c, b)
  BY <1>4 DEF Embed, AtRest, Idle, ByEmbedder, FromOutside, Typed
<1>5. CASE \E m \in Modes, k \in Keys, b \in Buffers \cup {NoBuffer} :
              UnmapKey(m, k, b)
  BY <1>5 DEF UnmapKey, AtRest, Idle, KeyUnmapped, FromOutside, Typed
<1>6. CASE \E e \in Events, s \in Subjects : Fire(e, s)
  BY <1>6 DEF Fire, AtRest, Idle, Fired, FromOutside, Typed
<1>7. CASE SkipPlugin \/ LoadPlugin \/ Missing \/ AlreadyLoaded \/ Enter
  BY <1>7 DEF SkipPlugin, LoadPlugin, Missing, AlreadyLoaded, Enter, Idle, Quiet,
     hostVars, Typed
<1>8. CASE Rejected \/ SkipReference \/ Autoload \/ Undiscovered
  BY <1>8 DEF Rejected, SkipReference, Autoload, Undiscovered, AtReference, Looking,
     Quiet, hostVars, Typed
<1>9. CASE Guard \/ Evaluate \/ Resume
  <2>1. Running /\ UNCHANGED <<registries, sent, consumed, globals, loaded, text, stack, saved>>
    BY <1>9 DEF Guard, Evaluate, Resume, AtStatement, hostVars
  <2>2. AnswerGoesOn
    BY <1>9 DEF Guard, Evaluate, Resume, hostVars
  <2>3. ip' > 0
    <3>1. CASE Guard
      <4>1. Len(Current.body) \in Nat
        BY <2>1, StackFacts, LoaderAssumption DEF Running, Typed
      <4> QED BY <3>1, <4>1 DEF Guard, Typed
    <3>2. CASE Evaluate \/ Resume
      BY <3>2 DEF Evaluate, Resume, Typed
    <3> QED BY <1>9, <3>1, <3>2
  <2> QED BY <2>1, <2>2, <2>3 DEF Quiet
<1> QED
  BY <1>1, <1>2, <1>3, <1>4, <1>5, <1>6, <1>7, <1>8, <1>9, <1>10 DEF Next, LoadStep

\* The commands of a script are well formed, and the script can own what they
\* register.
LEMMA RequestFacts ==
    ASSUME Typed, Request
    PROVE  /\ IsCommand(Here.command) /\ Top.script \in Owners
           /\ Command(Here.command, Top.script, NoBuffer)
           /\ Running /\ UNCHANGED loaderVars
<1>1. Running /\ ip <= Len(Current.body) /\ Here.op = "ex" /\ ip \in Nat /\ ip > 0
  BY DEF Request, AtStatement, Running, Typed
<1>2. Top.script \in Scripts /\ Current = text[Top.script] /\ text \in Texts
  BY <1>1, StackFacts DEF Running, Typed
<1>3. ip \in 1 .. Len(text[Top.script].body)
  BY <1>1, <1>2, LoaderAssumption
<1> QED BY <1>1, <1>2, <1>3, LoaderAssumption DEF Request, Here

SoundIn(host) ==
    /\ host.user_commands \in CommandsByName
    /\ host.keymaps \in Keymaps
    /\ host.current_augroup \in Groups \cup {NoGroup}
    /\ host.next_mapping_id \in Nat
    /\ SoundHandlers(host.handlers, host.next_event_handler_id)
    /\ UsedUp(host.handlers, host.next_event_handler_id, consumed)

\* What is in use, and what a failure of the running script would bring back.
SoundRegistries ==
    /\ SoundIn(HostState)
    /\ TypedAnswers
    /\ ip > 0 => SoundIn(saved.host)

LEMMA SoundIsTyped ==
    SoundRegistries => /\ TypedRegistries /\ TypedAnswers
                       /\ SoundHandlers(handlers, next_event_handler_id)
                       /\ UsedUp(handlers, next_event_handler_id, consumed)
BY DEF SoundRegistries, SoundIn, HostState, TypedRegistries

LEMMA SoundInit == Init => SoundRegistries
<1> SUFFICES ASSUME Init PROVE SoundRegistries
  OBVIOUS
<1>1. user_commands \in CommandsByName /\ keymaps \in Keymaps
  BY DEF Init, HostInit, CommandsByName, Keymaps
<1>2. /\ <<>> \in Seq(Handler) /\ <<>> \in Seq(Nat) /\ Len(<<>>) = 0
      /\ Members(<<>>) = {} /\ InOrder(<<>>)
  BY EmptySeq DEF Members, InOrder
<1>3. SoundHandlers(handlers, next_event_handler_id)
  <2>1. \A e \in Events : handlers[e] = <<>>
    BY DEF Init, HostInit
  <2> QED BY <1>2, <2>1 DEF Init, HostInit, SoundHandlers
<1>4. UsedUp(handlers, next_event_handler_id, consumed)
  <2>1. consumed = <<>>
    BY DEF Init, HostInit
  <2> QED BY <1>2, <2>1 DEF UsedUp
<1> QED
  BY <1>1, <1>3, <1>4
  DEF Init, HostInit, SoundRegistries, SoundIn, HostState, TypedAnswers

\* The same commands keep what is saved out of the way of what was handed out.
LEMMA CommandKeepsSound ==
    ASSUME NEW c, NEW owner \in Owners, NEW buffer, IsCommand(c),
           Command(c, owner, buffer), SoundRegistries,
           ip' > 0 => ip > 0 /\ UNCHANGED saved
    PROVE  SoundRegistries'
<1>1. /\ TypedRegistries /\ TypedAnswers
      /\ SoundHandlers(handlers, next_event_handler_id)
      /\ UsedUp(handlers, next_event_handler_id, consumed)
      /\ current_augroup \in Groups \cup {NoGroup}
  BY SoundIsTyped DEF TypedRegistries
<1>2. TypedRegistries' /\ TypedAnswers'
  BY <1>1, CommandTypes
<1>3. /\ SoundHandlers(handlers', next_event_handler_id')
      /\ UsedUp(handlers', next_event_handler_id', consumed)
      /\ consumed' = consumed
  BY <1>1, CommandHandles
<1>4. SoundIn(HostState)'
  BY <1>2, <1>3 DEF SoundIn, HostState, TypedRegistries
<1>5. ip' > 0 => SoundIn(saved.host)'
  BY <1>3 DEF SoundRegistries, SoundIn
<1> QED BY <1>2, <1>4, <1>5 DEF SoundRegistries

LEMMA SoundStep == Typed /\ SoundRegistries /\ [Next]_vars => SoundRegistries'
<1> SUFFICES ASSUME Typed, SoundRegistries, [Next]_vars PROVE SoundRegistries'
  OBVIOUS
<1>0. /\ TypedRegistries /\ TypedAnswers
      /\ SoundHandlers(handlers, next_event_handler_id)
      /\ UsedUp(handlers, next_event_handler_id, consumed)
  BY SoundIsTyped
<1>1. ASSUME UNCHANGED <<registries, consumed, sent>>, AnswerGoesOn
      PROVE  SoundIn(HostState)' /\ TypedAnswers'
  BY <1>1 DEF AnswerGoesOn, SoundRegistries, SoundIn, HostState, TypedAnswers, registries
<1>2. CASE Quiet
  BY <1>1, <1>2 DEF Quiet, SoundRegistries, SoundIn, Running
<1>3. CASE ByEmbedder
  BY <1>3, CommandKeepsSound, LoaderAssumption DEF ByEmbedder, FromOutside
<1>4. CASE KeyUnmapped
  <2>1. PICK m \in Modes, k \in Keys, b \in Buffers \cup {NoBuffer} : Unmap(m, k, b)
    BY <1>4 DEF KeyUnmapped
  <2>2. keymaps' \in Keymaps
    BY <1>0, <2>1 DEF Unmap, TypedRegistries, Keymaps
  <2> QED
    BY <1>0, <1>4, <2>1, <2>2
    DEF KeyUnmapped, FromOutside, Unmap, SoundRegistries, SoundIn, HostState, TypedAnswers
<1>5. CASE Fired
  <2>1. PICK e \in Events, s \in Subjects : FireEvent(e, s)
    BY <1>5 DEF Fired
  <2>2. /\ SoundHandlers(handlers', next_event_handler_id')
        /\ UsedUp(handlers', next_event_handler_id', consumed')
    BY <1>0, <2>1, FireHandles
  <2>3. /\ UNCHANGED <<user_commands, keymaps, current_augroup, next_mapping_id, sent, answer>>
        /\ ip' = 0
    BY <1>5, <2>1 DEF Fired, FromOutside, FireEvent
  <2> QED
    BY <1>0, <2>2, <2>3
    DEF SoundRegistries, SoundIn, HostState, TypedAnswers, TypedRegistries
<1>6. CASE Begin
  <2>1. UNCHANGED hostVars /\ saved'.host = HostState
    BY <1>6 DEF Begin
  <2>2. SoundIn(HostState)' /\ TypedAnswers'
    BY <1>1, <2>1 DEF hostVars, AnswerGoesOn
  <2>3. SoundIn(saved.host)'
    BY <2>1 DEF SoundRegistries, SoundIn, hostVars
  <2> QED BY <2>2, <2>3 DEF SoundRegistries
<1>7. CASE Assign
  <2>1. UNCHANGED <<hostVars, saved>> /\ ip > 0
    BY <1>7 DEF Assign, AtStatement, Running
  <2> QED BY <1>1, <2>1 DEF hostVars, AnswerGoesOn, SoundRegistries, SoundIn
<1>8. CASE Request
  BY <1>8, RequestFacts, CommandKeepsSound DEF loaderVars
<1>9. CASE Finish
  <2>1. UNCHANGED hostVars /\ ip' = 0
    BY <1>9 DEF Finish
  <2> QED BY <1>1, <2>1 DEF hostVars, AnswerGoesOn, SoundRegistries
<1>10. CASE Fail
  <2>1. /\ ip > 0 /\ ip' = 0 /\ RestoreHost /\ UNCHANGED <<sent, consumed>>
        /\ answer' = "none"
    BY <1>10 DEF Fail, Running
  <2> QED
    BY <2>1 DEF RestoreHost, SoundRegistries, SoundIn, HostState, TypedAnswers
<1> QED
  BY <1>2, <1>3, <1>4, <1>5, <1>6, <1>7, <1>8, <1>9, <1>10, RegistriesChange

\* An event runs its handlers in the order of registration and a ++once one a
\* single time, although a failed script's ids are given again (plugin.rs keeps
\* the old host; integration.rs, register and handlers_for).
THEOREM HandlersAlwaysFireSoundly == Spec => []HandlersFireSoundly
<1>1. SoundRegistries => HandlersFireSoundly
  <2> SUFFICES ASSUME SoundRegistries PROVE HandlersFireSoundly
    OBVIOUS
  <2>1. /\ SoundHandlers(handlers, next_event_handler_id)
        /\ UsedUp(handlers, next_event_handler_id, consumed)
    BY SoundIsTyped
  <2>2. HandlersInOrder
    BY <2>1 DEF SoundHandlers, InOrder, HandlersInOrder, Members
  <2>3. OnceFiresOnce
    BY <2>1 DEF UsedUp, OnceFiresOnce
  <2> QED BY <2>2, <2>3 DEF HandlersFireSoundly
<1> QED BY <1>1, TypedInit, TypedStep, SoundInit, SoundStep, PTL DEF Spec

\* In a group, a command of a script or of the embedding program leaves the
\* handlers of all other groups as they are and in their order (host.rs,
\* handle_autocmd with EventBus::remove_group).
THEOREM GroupsAreAlwaysSeparate == Spec => GroupsAreSeparate
<1>1. Typed /\ SoundRegistries /\ [Next]_vars
        => (answer = "none" /\ answer' # "none" /\ current_augroup # NoGroup
              => \A e \in Events : OutsideGroup(handlers'[e], current_augroup)
                                    = OutsideGroup(handlers[e], current_augroup))
  <2> SUFFICES ASSUME Typed, SoundRegistries, [Next]_vars, answer = "none",
                      answer' # "none", current_augroup # NoGroup, NEW e \in Events
               PROVE  OutsideGroup(handlers'[e], current_augroup)
                        = OutsideGroup(handlers[e], current_augroup)
    OBVIOUS
  <2>0. /\ SoundHandlers(handlers, next_event_handler_id)
        /\ current_augroup \in Groups \cup {NoGroup}
    BY SoundIsTyped DEF TypedRegistries
  <2>1. CASE ByEmbedder
    BY <2>0, <2>1, CommandHandles, LoaderAssumption DEF ByEmbedder
  <2>2. CASE Request
    BY <2>0, <2>2, RequestFacts, CommandHandles
  <2>3. CASE Quiet \/ Fail
    BY <2>3 DEF Quiet, AnswerGoesOn, Fail
  <2>4. CASE KeyUnmapped \/ Fired
    BY <2>4 DEF KeyUnmapped, Fired, Unmap, FireEvent
  <2>5. CASE Begin \/ Assign \/ Finish
    BY <2>5 DEF Begin, Assign, Finish, hostVars
  <2> QED BY <2>1, <2>2, <2>3, <2>4, <2>5, RegistriesChange
<1> QED
  BY <1>1, TypedInit, TypedStep, SoundInit, SoundStep, PTL
  DEF Spec, GroupsAreSeparate

\* Both: no script's registrations reach beyond its open group and the keys that
\* no buffer has mapped for itself.
THEOREM ScriptsAreKeptApart == Spec => ScriptsKeepApart
BY GroupsAreAlwaysSeparate, BufferMappingsAlwaysShadow DEF ScriptsKeepApart
-----------------------------------------------------------------------------
(* All types.  What the loader tells its caller, and how often it is asked. *)

TypedReport ==
    /\ report \in Seq(Entry)
    /\ completions \in Seq(Scripts)
    /\ startups \in 0 .. MaxStartups
    /\ embedded \in 0 .. MaxEmbedded
    /\ firings \in 0 .. MaxFirings

LEMMA TypedReportInit == Init => TypedReport
BY EmptySeq, LoaderAssumption DEF Init, TypedReport

LEMMA TypedReturns ==
    ASSUME Typed, TypedReport
    PROVE  /\ ReturnError => report' \in Seq(Entry)
           /\ \A callers : ReturnOk(callers) => report' \in Seq(Entry)
<1>1. ASSUME NEW ok \in BOOLEAN, queue # <<>>
      PROVE  Append(report, [path |-> Head(queue), ok |-> ok]) \in Seq(Entry)
  <2>1. Head(queue) \in Paths
    BY <1>1, HeadTailProperties DEF Typed
  <2>2. [path |-> Head(queue), ok |-> ok] \in Entry
    BY <2>1 DEF Entry
  <2> QED BY <2>2, AppendProperties DEF TypedReport
<1> QED BY <1>1 DEF ReturnError, ReturnOk, TypedReport

LEMMA TypedReportStep == Typed /\ TypedReport /\ [Next]_vars => TypedReport'
<1> SUFFICES ASSUME Typed, TypedReport, [Next]_vars PROVE TypedReport'
  OBVIOUS
<1> USE LoaderAssumption
<1>1. ASSUME UNCHANGED <<report, completions, startups, embedded, firings>>
      PROVE  TypedReport'
  BY <1>1 DEF TypedReport
<1>2. CASE UNCHANGED vars \/ Acknowledge \/ EditorAnswers
  BY <1>1, <1>2 DEF vars, Acknowledge, EditorAnswers, loaderVars
<1>3. CASE LoadStartupPlugins
  <2>1. report' = <<>> /\ <<>> \in Seq(Entry)
    BY <1>3, EmptySeq DEF LoadStartupPlugins
  <2> QED BY <1>3, <2>1 DEF LoadStartupPlugins, TypedReport
<1>4. CASE \E name \in DOMAIN Colors : LoadColorscheme(name)
  BY <1>4 DEF LoadColorscheme, TypedReport
<1>5. CASE \E c \in Embedded, b \in Buffers : Embed(c, b)
  BY <1>5 DEF Embed, TypedReport
<1>6. CASE \E m \in Modes, k \in Keys, b \in Buffers \cup {NoBuffer} :
              UnmapKey(m, k, b)
  BY <1>6 DEF UnmapKey, TypedReport
<1>7. CASE \E e \in Events, s \in Subjects : Fire(e, s)
  BY <1>7 DEF Fire, TypedReport
<1>8. CASE SkipPlugin \/ LoadPlugin \/ Enter \/ SkipReference \/ Autoload \/ Begin
  BY <1>1, <1>8 DEF SkipPlugin, LoadPlugin, Enter, SkipReference, Autoload, Begin
<1>9. CASE Assign \/ Guard \/ Evaluate \/ Request \/ Resume
  BY <1>1, <1>9 DEF Assign, Guard, Evaluate, Request, Resume, loaderVars
<1>10. CASE Missing \/ Rejected \/ Undiscovered \/ Fail
  <2>1. ReturnError /\ UNCHANGED <<completions, startups, embedded, firings>>
    BY <1>10 DEF Missing, Rejected, Undiscovered, Fail
  <2> QED BY <2>1, TypedReturns DEF TypedReport
<1>11. CASE AlreadyLoaded
  BY <1>11, TypedReturns DEF AlreadyLoaded, TypedReport
<1>12. CASE Finish
  <2>1. Top.script \in Scripts
    BY <1>12, StackFacts DEF Finish, Running
  <2>2. completions' \in Seq(Scripts)
    BY <1>12, <2>1, AppendProperties DEF Finish, TypedReport
  <2> QED BY <1>12, <2>2, TypedReturns DEF Finish, TypedReport
<1> QED
  BY <1>2, <1>3, <1>4, <1>5, <1>6, <1>7, <1>8, <1>9, <1>10, <1>11, <1>12
  DEF Next, LoadStep

\* Every variable of the loader and of the host keeps its type (plugin.rs and
\* host.rs), whatever sequence of loads, failures and outside calls leads to it.
THEOREM AlwaysTypeOK == Spec => []TypeOK
<1>1. Typed /\ SoundRegistries /\ TypedReport => TypeOK
  <2> SUFFICES ASSUME Typed, SoundRegistries, TypedReport PROVE TypeOK
    OBVIOUS
  <2>1. HostTypeOK
    BY SoundIsTyped
    DEF HostTypeOK, TypedRegistries, TypedAnswers, CommandsByName, Keymaps,
        SoundHandlers, UsedUp
  <2> QED BY <2>1 DEF Typed, TypedReport, TypeOK, GlobalsType
<1> QED
  BY <1>1, TypedInit, TypedStep, SoundInit, SoundStep, TypedReportInit,
     TypedReportStep, PTL DEF Spec
-----------------------------------------------------------------------------
(* Whose entries the registries and the globals hold.  A load in progress   *)
(* that waits for others has left nothing yet, so what a failure brings     *)
(* back is free of all that are not loaded.                                 *)

Traces(host, g) ==
    OwnersOf(host.user_commands, host.keymaps, host.handlers)
      \cup {g[n].owner : n \in Names}

OnlyOfLoaded(left, running) ==
    \A s \in left \cap Scripts : loaded[s] # 0 \/ s \in running

AtWork == IF ip > 0 THEN {Top.script} ELSE {}

NoTrace ==
    /\ OnlyOfLoaded(Traces(HostState, globals), AtWork)
    /\ ip > 0 => OnlyOfLoaded(Traces(saved.host, saved.globals), {})

LEMMA NoTraceInit == Init => NoTrace
<1> SUFFICES ASSUME Init PROVE NoTrace
  OBVIOUS
<1>1. /\ \A u \in UserNames : user_commands[u].owner = "nobody"
      /\ \A k \in DOMAIN keymaps : keymaps[k].owner = "nobody"
      /\ \A n \in Names : globals[n] = Unset
      /\ \A e \in Events : handlers[e] = <<>>
  BY DEF Init, HostInit, NoCommand, NoMapping, InitialGlobals
<1>2. Members(<<>>) = {}
  BY DEF Members
<1>3. Traces(HostState, globals) \subseteq {"nobody"}
  BY <1>1, <1>2 DEF Traces, OwnersOf, HostState, Unset
<1>4. "nobody" \notin Scripts
  BY LoaderAssumption
<1> QED BY <1>3, <1>4 DEF NoTrace, OnlyOfLoaded, Init

\* The entries in use grow by some that no unloaded script owns but the one at
\* work, which stays.
LEMMA NoTraceGrows ==
    ASSUME NoTrace, UNCHANGED loaded, NEW more,
           Traces(HostState, globals)' \subseteq Traces(HostState, globals) \cup more,
           more \cap Scripts \subseteq AtWork,
           \/ ip = 0 /\ ip' = 0
           \/ ip > 0 /\ ip' > 0 /\ UNCHANGED <<stack, saved>>
    PROVE  NoTrace'
<1>1. CASE ip = 0 /\ ip' = 0
  BY <1>1 DEF NoTrace, OnlyOfLoaded, AtWork
<1>2. CASE ip > 0 /\ ip' > 0 /\ UNCHANGED <<stack, saved>>
  <2>1. AtWork' = AtWork
    BY <1>2 DEF AtWork, Top
  <2> QED BY <1>2, <2>1 DEF NoTrace, OnlyOfLoaded
<1> QED BY <1>1, <1>2

LEMMA NoTraceStep ==
    Typed /\ Typed' /\ SoundRegistries /\ NoTrace /\ [Next]_vars => NoTrace'
<1> SUFFICES ASSUME Typed, Typed', SoundRegistries, NoTrace, [Next]_vars
             PROVE  NoTrace'
  OBVIOUS
<1> DEFINE owners == OwnersOf(user_commands, keymaps, handlers)
<1>1. /\ Traces(HostState, globals) = owners \cup {globals[n].owner : n \in Names}
      /\ Traces(HostState, globals)' = owners' \cup {globals'[n].owner : n \in Names}
  BY DEF Traces, HostState
<1>2. /\ TypedRegistries
      /\ SoundHandlers(handlers, next_event_handler_id)
  BY SoundIsTyped
<1>3. /\ "nobody" \notin Scripts /\ Embedder \notin Scripts /\ Embedder \in Owners
      /\ \A c \in Embedded : IsCommand(c)
  BY LoaderAssumption
<1>4. UNCHANGED registries => owners' = owners
  BY DEF registries
<1> HIDE DEF owners
<1>5. CASE Quiet
  <2>1. Traces(HostState, globals)' \subseteq Traces(HostState, globals) \cup {}
    BY <1>1, <1>4, <1>5 DEF Quiet
  <2> QED BY <1>5, <2>1, NoTraceGrows DEF Quiet, Running
<1>6. CASE ByEmbedder
  <2>1. owners' \subseteq owners \cup {Embedder, "nobody"}
    BY <1>2, <1>3, <1>6, CommandLeaves DEF ByEmbedder, owners
  <2>2. Traces(HostState, globals)'
          \subseteq Traces(HostState, globals) \cup {Embedder, "nobody"}
    BY <1>1, <1>6, <2>1 DEF ByEmbedder, FromOutside
  <2> QED BY <1>3, <1>6, <2>2, NoTraceGrows DEF ByEmbedder, FromOutside
<1>7. CASE KeyUnmapped
  <2>1. owners' \subseteq owners \cup {"nobody"}
    BY <1>7, UnmapLeaves DEF KeyUnmapped, owners
  <2>2. Traces(HostState, globals)' \subseteq Traces(HostState, globals) \cup {"nobody"}
    BY <1>1, <1>7, <2>1 DEF KeyUnmapped, FromOutside
  <2> QED BY <1>3, <1>7, <2>2, NoTraceGrows DEF KeyUnmapped, FromOutside
<1>8. CASE Fired
  <2>1. owners' \subseteq owners
    BY <1>2, <1>8, FireLeaves DEF Fired, owners
  <2>2. Traces(HostState, globals)' \subseteq Traces(HostState, globals) \cup {}
    BY <1>1, <1>8, <2>1 DEF Fired, FromOutside
  <2> QED BY <1>8, <2>2, NoTraceGrows DEF Fired, FromOutside
<1>9. CASE Begin
  <2>1. /\ ip = 0 /\ ip' > 0 /\ UNCHANGED <<registries, globals, loaded>>
        /\ saved' = [globals |-> globals, host |-> HostState]
    BY <1>9 DEF Begin, Looking, StartingGlobals, hostVars
  <2>2. Traces(HostState, globals)' = Traces(HostState, globals)
    BY <1>1, <1>4, <2>1
  <2>3. Traces(saved'.host, saved'.globals) = Traces(HostState, globals)
    BY <2>1 DEF Traces
  <2>4. OnlyOfLoaded(Traces(HostState, globals), {})
    BY <2>1 DEF NoTrace, AtWork
  <2> QED BY <2>1, <2>2, <2>3, <2>4 DEF NoTrace, OnlyOfLoaded
<1>10. CASE Assign
  <2>1. /\ ip > 0 /\ ip' = ip + 1 /\ ip \in Nat
        /\ UNCHANGED <<registries, loaded, stack, saved>>
        /\ globals' = [globals EXCEPT ![Here.name] =
                          [owner |-> Top.script, function |-> Here.function]]
        /\ globals \in [Names -> Global \cup {Unset}]
    BY <1>10 DEF Assign, AtStatement, Running, hostVars, Typed, GlobalsType
  <2>2. \A n \in Names : globals'[n].owner \in {globals[n].owner, Top.script}
    BY <2>1
  <2>3. Traces(HostState, globals)' \subseteq Traces(HostState, globals) \cup {Top.script}
    BY <1>1, <1>4, <2>1, <2>2
  <2>4. {Top.script} \cap Scripts \subseteq AtWork
    BY <2>1 DEF AtWork
  <2>5. ip > 0 /\ ip' > 0 /\ UNCHANGED <<stack, saved>> /\ UNCHANGED loaded
    BY <2>1
  <2> QED BY <2>3, <2>4, <2>5, NoTraceGrows
<1>11. CASE Request
  <2>1. /\ IsCommand(Here.command) /\ Top.script \in Owners
        /\ Command(Here.command, Top.script, NoBuffer)
        /\ ip > 0 /\ UNCHANGED <<ip, globals, loaded, stack, saved>>
    BY <1>11, RequestFacts DEF Running, loaderVars
  <2>2. owners' \subseteq owners \cup {Top.script, "nobody"}
    BY <1>2, <2>1, CommandLeaves DEF owners
  <2>3. Traces(HostState, globals)'
          \subseteq Traces(HostState, globals) \cup {Top.script, "nobody"}
    BY <1>1, <2>1, <2>2
  <2>4. {Top.script, "nobody"} \cap Scripts \subseteq AtWork
    BY <1>3, <2>1 DEF AtWork
  <2> QED BY <2>1, <2>3, <2>4, NoTraceGrows
<1>12. CASE Finish
  <2>1. /\ ip > 0 /\ ip' = 0 /\ UNCHANGED <<registries, globals>>
        /\ loaded' = [loaded EXCEPT ![Top.script] = Top.id]
        /\ loaded \in [Scripts -> Nat]
    BY <1>12 DEF Finish, Running, hostVars, Typed
  <2>2. Top.script \in Scripts /\ Top.id # 0
    BY <1>12, StackFacts DEF Finish, Running, FrameType
  <2>3. \A s \in Scripts : loaded[s] # 0 \/ s = Top.script => loaded'[s] # 0
    BY <2>1, <2>2
  <2>4. Traces(HostState, globals)' = Traces(HostState, globals)
    BY <1>1, <1>4, <2>1
  <2>5. AtWork = {Top.script} /\ AtWork' = {}
    BY <2>1 DEF AtWork
  <2> QED BY <2>1, <2>3, <2>4, <2>5 DEF NoTrace, OnlyOfLoaded
<1>13. CASE Fail
  <2>1. /\ ip > 0 /\ ip' = 0 /\ UNCHANGED loaded
        /\ globals' = saved.globals /\ RestoreHost
    BY <1>13 DEF Fail, Running
  <2>2. Traces(HostState, globals)' = Traces(saved.host, saved.globals)
    BY <2>1 DEF RestoreHost, Traces, HostState
  <2> QED BY <2>1, <2>2 DEF NoTrace, OnlyOfLoaded
<1> QED
  BY <1>5, <1>6, <1>7, <1>8, <1>9, <1>10, <1>11, <1>12, <1>13, RegistriesChange

\* And who has opened the open group.
GroupOpened(g, running) ==
    \/ g = NoGroup
    \/ \E c \in Embedded : Opens(c, g)
    \/ \E s \in Scripts : OpensGroup(s, g) /\ (loaded[s] # 0 \/ s \in running)

GroupIsOpened ==
    /\ GroupOpened(current_augroup, AtWork)
    /\ ip > 0 => GroupOpened(saved.host.current_augroup, {})

LEMMA CommandOpens ==
    ASSUME NEW c, NEW owner, NEW buffer, Command(c, owner, buffer)
    PROVE  \/ current_augroup' = current_augroup
           \/ current_augroup' = NoGroup
           \/ Opens(c, current_augroup')
<1>1. CASE Augroup(c)
  BY <1>1 DEF Augroup, Refuse, registries, Opens
<1>2. CASE ~Augroup(c)
  BY <1>2 DEF Command, DefineUserCommand, DeleteUserCommand, Autocmd, MapKeys,
     RunCommand, CallFunction, AccessOption, Refuse, registries
<1> QED BY <1>1, <1>2

LEMMA TextStays ==
    ASSUME Typed, [Next]_vars
    PROVE  text' = text
BY LoadsChange DEF SameLoads, Abandoned, Enter, Finish

LEMMA GroupIsOpenedStep ==
    Typed /\ Typed' /\ GroupIsOpened /\ [Next]_vars => GroupIsOpened'
<1> SUFFICES ASSUME Typed, Typed', GroupIsOpened, [Next]_vars PROVE GroupIsOpened'
  OBVIOUS
<1>0. \A s \in Scripts : \A g : OpensGroup(s, g)' <=> OpensGroup(s, g)
  BY TextStays DEF OpensGroup
<1>2. ASSUME UNCHANGED <<loaded, current_augroup>>,
             \/ ip = 0 /\ ip' = 0
             \/ ip > 0 /\ ip' > 0 /\ UNCHANGED <<stack, saved>>
      PROVE  GroupIsOpened'
  <2>1. AtWork' = AtWork
    <3>1. CASE ip = 0 /\ ip' = 0
      BY <3>1 DEF AtWork
    <3>2. CASE ip > 0 /\ ip' > 0 /\ UNCHANGED <<stack, saved>>
      BY <3>2 DEF AtWork, Top
    <3> QED BY <1>2, <3>1, <3>2
  <2>2. GroupOpened(current_augroup, AtWork)'
    BY <1>0, <1>2, <2>1 DEF GroupIsOpened, GroupOpened
  <2>3. ip' > 0 => GroupOpened(saved.host.current_augroup, {})'
    BY <1>0, <1>2 DEF GroupIsOpened, GroupOpened
  <2> QED BY <2>2, <2>3 DEF GroupIsOpened
<1>3. CASE Quiet
  BY <1>2, <1>3 DEF Quiet, registries, Running
<1>4. CASE ByEmbedder
  <2>1. PICK c \in Embedded, b \in Buffers : Command(c, Embedder, b)
    BY <1>4 DEF ByEmbedder
  <2>2. ip = 0 /\ ip' = 0 /\ UNCHANGED loaded
    BY <1>4 DEF ByEmbedder, FromOutside
  <2>3. CASE current_augroup' = current_augroup
    BY <1>2, <2>2, <2>3
  <2>4. CASE current_augroup' = NoGroup \/ Opens(c, current_augroup')
    BY <2>1, <2>2, <2>4 DEF GroupIsOpened, GroupOpened
  <2> QED BY <2>1, <2>3, <2>4, CommandOpens
<1>5. CASE KeyUnmapped \/ Fired
  BY <1>2, <1>5 DEF KeyUnmapped, Fired, FromOutside, Unmap, FireEvent
<1>6. CASE Assign
  BY <1>2, <1>6 DEF Assign, AtStatement, Running, hostVars, registries, Typed
<1>7. CASE Begin
  <2>1. /\ ip = 0 /\ ip' > 0 /\ UNCHANGED <<current_augroup, loaded, stack>>
        /\ saved'.host.current_augroup = current_augroup
    BY <1>7 DEF Begin, Looking, hostVars, registries, HostState
  <2>2. GroupOpened(current_augroup, {})
    BY <2>1 DEF GroupIsOpened, AtWork
  <2> QED BY <1>0, <2>1, <2>2 DEF GroupIsOpened, GroupOpened
<1>8. CASE Request
  <2>1. /\ ip \in 1 .. Len(text[Top.script].body) /\ Top.script \in Scripts
        /\ Here = text[Top.script].body[ip] /\ Here.op = "ex" /\ ip > 0
    BY <1>8, StackFacts, LoaderAssumption DEF Request, AtStatement, Running, Here, Typed
  <2>2. UNCHANGED <<ip, loaded, stack, saved>>
    BY <1>8 DEF Request, loaderVars
  <2>3. Command(Here.command, Top.script, NoBuffer)
    BY <1>8 DEF Request
  <2>4. CASE current_augroup' = current_augroup
    BY <1>2, <2>1, <2>2, <2>4
  <2>5. CASE current_augroup' = NoGroup \/ Opens(Here.command, current_augroup')
    <3>1. AtWork' = {Top.script}
      BY <2>1, <2>2 DEF AtWork, Top
    <3>2. \/ current_augroup' = NoGroup
          \/ OpensGroup(Top.script, current_augroup')
      BY <2>1, <2>5 DEF OpensGroup
    <3>3. GroupOpened(current_augroup, AtWork)'
      BY <1>0, <2>1, <3>1, <3>2 DEF GroupOpened
    <3>4. GroupOpened(saved.host.current_augroup, {})'
      BY <1>0, <2>1, <2>2 DEF GroupIsOpened, GroupOpened
    <3> QED BY <3>3, <3>4 DEF GroupIsOpened
  <2> QED BY <2>3, <2>4, <2>5, CommandOpens
<1>9. CASE Finish
  <2>1. /\ ip > 0 /\ ip' = 0 /\ UNCHANGED current_augroup
        /\ loaded' = [loaded EXCEPT ![Top.script] = Top.id]
        /\ loaded \in [Scripts -> Nat]
    BY <1>9 DEF Finish, Running, hostVars, registries, Typed
  <2>2. Top.script \in Scripts /\ Top.id # 0
    BY <1>9, StackFacts DEF Finish, Running, FrameType
  <2>3. \A s \in Scripts : loaded[s] # 0 \/ s \in AtWork => loaded'[s] # 0
    BY <2>1, <2>2 DEF AtWork
  <2> QED BY <1>0, <2>1, <2>3 DEF GroupIsOpened, GroupOpened
<1>10. CASE Fail
  <2>1. /\ ip > 0 /\ ip' = 0 /\ UNCHANGED loaded
        /\ current_augroup' = saved.host.current_augroup
    BY <1>10 DEF Fail, Running, RestoreHost
  <2> QED BY <1>0, <2>1 DEF GroupIsOpened, GroupOpened
<1> QED
  BY <1>3, <1>4, <1>5, <1>6, <1>7, <1>8, <1>9, <1>10, RegistriesChange

\* A script that is not loaded has left no command, mapping, handler, global or
\* open group, however deep in the loads of others and at whatever statement it
\* has failed (plugin.rs keeps its own host and globals until a script has
\* succeeded).
THEOREM FailuresLeaveNoTrace == Spec => []NoTraceOfFailures
<1>1. Init => GroupIsOpened
  BY DEF Init, HostInit, GroupIsOpened, GroupOpened
<1>2. Typed /\ NoTrace /\ GroupIsOpened => NoTraceOfFailures
  <2> SUFFICES ASSUME Typed, NoTrace, GroupIsOpened PROVE NoTraceOfFailures
    OBVIOUS
  <2>1. \A s \in Scripts : s \in AtWork => Running /\ Top.script = s
    BY DEF AtWork, Running, Typed
  <2>2. ASSUME NEW s \in Scripts, LeftBy(s)
        PROVE  loaded[s] # 0 \/ (Running /\ Top.script = s)
    <3>1. s \in Traces(HostState, globals)
      BY <2>2 DEF LeftBy, Traces, OwnersOf, HostState, Members
    <3> QED BY <2>1, <3>1 DEF NoTrace, OnlyOfLoaded
  <2>3. \/ current_augroup = NoGroup
        \/ \E c \in Embedded : Opens(c, current_augroup)
        \/ \E s \in Scripts :
              /\ OpensGroup(s, current_augroup)
              /\ loaded[s] # 0 \/ (Running /\ Top.script = s)
    BY <2>1 DEF GroupIsOpened, GroupOpened
  <2> QED BY <2>2, <2>3 DEF NoTraceOfFailures
<1> QED
  BY <1>1, <1>2, TypedInit, TypedStep, SoundInit, SoundStep, NoTraceInit, NoTraceStep,
     GroupIsOpenedStep, PTL
  DEF Spec
-----------------------------------------------------------------------------
(* References.  The loop of autoload_references has passed a prefix of the  *)
(* references of each load in progress: all of these are there, or their    *)
(* file is loaded, but for the last one when the load waits for its file.   *)

\* What has been loaded or set stays so; only a failure takes globals back.
Grows ==
    /\ \A s \in Scripts : loaded[s] # 0 => loaded'[s] # 0
    /\ \A n \in Names : globals[n] # Unset => globals'[n] # Unset

LEMMA GrowsUnlessFail ==
    ASSUME Typed, [Next]_vars
    PROVE  /\ Grows \/ Fail
           /\ \A s \in Scripts : loaded[s] # 0 => loaded'[s] # 0
<1>1. CASE UNCHANGED <<globals, loaded>>
  BY <1>1 DEF Grows
<1>2. CASE Assign
  <2>1. /\ globals' = [globals EXCEPT ![Here.name] =
                          [owner |-> Top.script, function |-> Here.function]]
        /\ globals \in [Names -> Global \cup {Unset}] /\ loaded' = loaded
    BY <1>2 DEF Assign, Typed, GlobalsType
  <2>2. [owner |-> Top.script, function |-> Here.function] # Unset
    BY <1>2, StackFacts, LoaderAssumption DEF Assign, AtStatement, Running, Unset
  <2> QED BY <2>1, <2>2 DEF Grows
<1>3. CASE Finish
  <2>1. Top.script \in Scripts /\ Top.id # 0
    BY <1>3, StackFacts DEF Finish, Running, FrameType
  <2>2. /\ loaded' = [loaded EXCEPT ![Top.script] = Top.id] /\ globals' = globals
        /\ loaded \in [Scripts -> Nat]
    BY <1>3 DEF Finish, Typed
  <2> QED BY <2>1, <2>2 DEF Grows
<1>4. CASE Fail
  BY <1>4 DEF Fail
<1>5. CASE Quiet \/ ByEmbedder \/ KeyUnmapped \/ Fired \/ Begin \/ Request
  BY <1>1, <1>5 DEF Quiet, ByEmbedder, KeyUnmapped, Fired, FromOutside, Begin,
     StartingGlobals, Request, loaderVars
<1> QED BY <1>1, <1>2, <1>3, <1>4, <1>5, RegistriesChange DEF Grows

LEMMA LoadedStays ==
    ASSUME \A s \in Scripts : loaded[s] # 0 => loaded'[s] # 0,
           NEW p \in Paths, IsLoaded(p)
    PROVE  IsLoaded(p)'
BY LoaderAssumption DEF IsLoaded

Satisfied(f, g) ==
    g[f] # Unset \/ (AutoloadFor[f] # NoPath /\ IsLoaded(AutoloadFor[f]))

LEMMA SatisfiedStays ==
    ASSUME Grows, NEW f \in Names, Satisfied(f, globals)
    PROVE  Satisfied(f, globals)'
<1>1. CASE globals[f] # Unset
  BY <1>1 DEF Grows, Satisfied
<1>2. CASE AutoloadFor[f] # NoPath /\ IsLoaded(AutoloadFor[f])
  <2>1. AutoloadFor[f] \in Paths
    BY <1>2, LoaderAssumption
  <2>2. IsLoaded(AutoloadFor[f])'
    BY <1>2, <2>1, LoadedStays DEF Grows
  <2> QED BY <1>2, <2>2 DEF Satisfied
<1> QED BY <1>1, <1>2 DEF Satisfied

References(k) == text[stack[k].script].references
Passed(k)     == Len(References(k)) - Len(stack[k].pending)

\* The load that frame k waits for is the frame above it, or asked for.
WaitsFor(k, p) ==
    IF k = Len(stack) THEN call = p ELSE stack[k + 1].script = Canonical[p]

Following(k) ==
    /\ Passed(k) \in Nat
    /\ \A i \in 1 .. Len(stack[k].pending) :
          stack[k].pending[i] = References(k)[Passed(k) + i]
    /\ \A i \in 1 .. Passed(k) :
          \/ Satisfied(References(k)[i], globals)
          \/ /\ i = Passed(k)
             /\ AutoloadFor[References(k)[i]] # NoPath
             /\ WaitsFor(k, AutoloadFor[References(k)[i]])

Followed == \A k \in 1 .. Len(stack) : Following(k)

LEMMA FrameFacts ==
    ASSUME Typed, NEW k \in 1 .. Len(stack)
    PROVE  /\ stack[k] \in FrameType
           /\ stack[k].script \in Scripts
           /\ stack[k].pending \in Seq(Names)
           /\ References(k) \in Seq(Names)
           /\ \A i \in 1 .. Len(References(k)) : References(k)[i] \in Names
<1>1. stack[k] \in FrameType
  BY ElementOfSeq DEF Typed
<1>2. stack[k].script \in Scripts /\ stack[k].pending \in Seq(Names)
  BY <1>1 DEF FrameType
<1>3. References(k) \in Seq(Names)
  BY <1>2, LoaderAssumption DEF References, Typed
<1> QED BY <1>1, <1>2, <1>3, ElementOfSeq

\* A load that is not at its loop stays where it is, and when it no longer
\* waits, what it has waited for is loaded.
LEMMA FrameStays ==
    ASSUME Typed, NEW k \in 1 .. Len(stack), Following(k), Grows,
           text' = text, stack'[k] = stack[k],
           \A p \in Paths : WaitsFor(k, p) => WaitsFor(k, p)' \/ IsLoaded(p)'
    PROVE  Following(k)'
<1>1. References(k)' = References(k) /\ Passed(k)' = Passed(k)
  BY DEF References, Passed
<1>2. /\ Passed(k) \in Nat
      /\ \A i \in 1 .. Len(References(k)) : References(k)[i] \in Names
      /\ Len(References(k)) \in Nat /\ Len(stack[k].pending) \in Nat
  BY FrameFacts DEF Following
<1>3. ASSUME NEW i \in 1 .. Passed(k)
      PROVE  \/ Satisfied(References(k)[i], globals)'
             \/ /\ i = Passed(k)
                /\ AutoloadFor[References(k)[i]] # NoPath
                /\ WaitsFor(k, AutoloadFor[References(k)[i]])'
  <2> DEFINE f == References(k)[i]
  <2>1. f \in Names
    BY <1>2 DEF Passed
  <2>2. AutoloadFor[f] # NoPath => AutoloadFor[f] \in Paths
    BY <2>1, LoaderAssumption
  <2>3. f' = f
    BY <1>1
  <2>4. CASE Satisfied(f, globals)
    <3>1. \A n \in Names : Satisfied(n, globals) => Satisfied(n, globals)'
      BY SatisfiedStays
    <3> HIDE DEF f
    <3>2. Satisfied(f, globals)'
      BY <2>1, <2>3, <2>4, <3>1 DEF Satisfied
    <3> QED BY <3>2 DEF f
  <2>5. CASE /\ i = Passed(k) /\ AutoloadFor[f] # NoPath
             /\ WaitsFor(k, AutoloadFor[f])
    <3>1. CASE WaitsFor(k, AutoloadFor[f])'
      BY <2>5, <3>1
    <3>2. CASE ~WaitsFor(k, AutoloadFor[f])'
      <4> HIDE DEF f
      <4>1. \/ WaitsFor(k, AutoloadFor[f])' 
            \/ IsLoaded(AutoloadFor[f])'
        BY <2>2, <2>3, <2>5 DEF WaitsFor, IsLoaded
      <4>2. Satisfied(f, globals)'
        BY <2>3, <2>5, <3>2, <4>1 DEF Satisfied
      <4> QED BY <4>2 DEF f
    <3> QED BY <3>1, <3>2
  <2> QED BY <2>4, <2>5 DEF Following
<1>4. \A i \in 1 .. Len(stack'[k].pending) :
          stack'[k].pending[i] = References(k)'[Passed(k)' + i]
  BY <1>1 DEF Following
<1> QED BY <1>1, <1>2, <1>3, <1>4 DEF Following

\* The loop goes on to a reference that is there, or whose file is asked for.
LEMMA TopAdvances ==
    ASSUME Typed, AtReference, NEW d \in 1 .. Len(stack), d = Len(stack),
           Following(d), UNCHANGED <<text, globals, loaded>>, stack' = NextReference,
           \/ globals[Head(Top.pending)] # Unset
           \/ /\ AutoloadFor[Head(Top.pending)] # NoPath
              /\ call' = AutoloadFor[Head(Top.pending)]
    PROVE  /\ Following(d)'
           /\ Len(stack') = Len(stack)
           /\ \A k \in 1 .. Len(stack) : /\ k # d => stack'[k] = stack[k]
                                         /\ stack'[k].script = stack[k].script
<1>old. PICK old : old = Top.pending
  OBVIOUS
<1>rest. PICK rest : rest = Tail(old)
  OBVIOUS
<1>0. PICK x : x = [Top EXCEPT !.pending = Tail(@)]
  OBVIOUS
<1>1. /\ Top = stack[d] /\ stack[d] \in FrameType /\ old \in Seq(Names) /\ old # <<>>
      /\ stack \in Seq(FrameType) /\ call = NoPath
  BY <1>old, FrameFacts DEF Top, AtReference, Looking, Typed
<1>2. /\ rest \in Seq(Names) /\ Head(old) = old[1] /\ Len(old) \in Nat \ {0}
      /\ Len(rest) = Len(old) - 1
      /\ \A i \in 1 .. Len(rest) : rest[i] = old[i + 1]
  BY <1>rest, <1>1, HeadTailProperties, EmptySeq
<1>3. /\ x \in FrameType /\ x.script = stack[d].script /\ x.pending = rest
  BY <1>0, <1>old, <1>rest, <1>1, <1>2 DEF FrameType
<1>4. NextReference = [stack EXCEPT ![d] = x]
  BY <1>0 DEF NextReference, Top
<1>5. /\ Len(stack') = Len(stack)
      /\ \A k \in 1 .. Len(stack) : stack'[k] = IF k = d THEN x ELSE stack[k]
  BY <1>1, <1>3, <1>4, ExceptSeq
<1>6. /\ \A k \in 1 .. Len(stack) : /\ k # d => stack'[k] = stack[k]
                                    /\ stack'[k].script = stack[k].script
      /\ stack'[d].pending = rest
  BY <1>3, <1>5
<1>refs. PICK refs : refs = References(d)
  OBVIOUS
<1>n. PICK n : n = Passed(d)
  OBVIOUS
<1>f. PICK f : f = Head(old)
  OBVIOUS
<1>7. /\ n \in Nat /\ n + 1 = Len(refs) - Len(rest)
      /\ f = refs[n + 1]
      /\ \A i \in 1 .. Len(rest) : rest[i] = refs[n + 1 + i]
      /\ Len(refs) \in Nat /\ refs \in Seq(Names)
  <2>1. refs \in Seq(Names) /\ Len(refs) \in Nat
    BY <1>refs, FrameFacts
  <2>2. n \in Nat /\ n = Len(refs) - Len(old)
    BY <1>old, <1>refs, <1>n, <1>1 DEF Following, Passed
  <2>3. \A i \in 1 .. Len(old) : old[i] = refs[n + i]
    BY <1>old, <1>refs, <1>n, <1>1 DEF Following
  <2>4. ASSUME NEW i \in 1 .. Len(rest)
        PROVE  rest[i] = refs[n + 1 + i]
    <3>1. i + 1 \in 1 .. Len(old) /\ n + (i + 1) = n + 1 + i
      BY <1>2, <2>2
    <3>2. rest[i] = refs[n + (i + 1)]
      BY <1>2, <2>3, <3>1
    <3> QED BY <3>1, <3>2
  <2>5. f = refs[n + 1]
    BY <1>f, <1>2, <2>3
  <2>6. n + 1 = Len(refs) - Len(rest)
    BY <1>2, <2>1, <2>2
  <2> QED BY <2>1, <2>2, <2>4, <2>5, <2>6
<1>8. References(d)' = refs /\ Passed(d)' = n + 1
  <2>1. References(d)' = refs
    BY <1>refs, <1>6 DEF References
  <2> QED BY <1>6, <1>7, <2>1 DEF Passed
<1>9. \A g \in Names : Satisfied(g, globals) => Satisfied(g, globals)'
  BY DEF Satisfied, IsLoaded
<1>10. d = Len(stack')
  BY <1>5
<1>11. \A i \in 1 .. n : Satisfied(refs[i], globals)
  <2> TAKE i \in 1 .. n
  <2>1. refs[i] \in Names
    BY <1>2, <1>7
  <2>2. AutoloadFor[refs[i]] # NoPath => ~WaitsFor(d, AutoloadFor[refs[i]])
    BY <1>1 DEF WaitsFor
  <2> QED BY <1>refs, <1>n, <2>2 DEF Following
<1>12. \/ Satisfied(f, globals)'
       \/ AutoloadFor[f] # NoPath /\ WaitsFor(d, AutoloadFor[f])'
  <2>1. CASE globals[f] # Unset
    BY <2>1 DEF Satisfied
  <2>2. CASE AutoloadFor[f] # NoPath /\ call' = AutoloadFor[f]
    BY <1>10, <2>2 DEF WaitsFor
  <2> QED BY <1>old, <1>f, <2>1, <2>2
<1>13. Following(d)'
  <2>1. ASSUME NEW i \in 1 .. n + 1
        PROVE  \/ Satisfied(refs[i], globals)'
               \/ /\ i = n + 1
                  /\ AutoloadFor[refs[i]] # NoPath
                  /\ WaitsFor(d, AutoloadFor[refs[i]])'
    <3>1. CASE i = n + 1
      BY <1>7, <1>12, <3>1
    <3>2. CASE i # n + 1
      <4>1. i \in 1 .. n /\ refs[i] \in Names
        BY <1>2, <1>7, <3>2
      <4> QED BY <1>9, <1>11, <4>1
    <3> QED BY <3>1, <3>2
  <2>2. \A i \in 1 .. Len(stack'[d].pending) :
            stack'[d].pending[i] = References(d)'[Passed(d)' + i]
    BY <1>6, <1>7, <1>8
  <2>3. Passed(d)' \in Nat
    BY <1>7, <1>8
  <2> QED BY <1>8, <2>1, <2>2, <2>3 DEF Following
<1> QED BY <1>5, <1>6, <1>13

LEMMA FollowedInit == Init => Followed
<1> SUFFICES ASSUME Init PROVE Len(stack) = 0
  BY DEF Followed
<1> QED BY DEF Init

\* A load that is asked for comes on top of the one that waits for it.
LEMMA FollowedEnter ==
    ASSUME Typed, Followed, Grows, Enter
    PROVE  Followed'
<1>0. PICK f : f = [script |-> Canonical[call], id |-> NewId,
                    pending |-> text[Canonical[call]].references]
  OBVIOUS
<1>1. /\ stack' = Append(stack, f) /\ text' = text
      /\ f.script = Canonical[call] /\ f.pending = text[Canonical[call]].references
      /\ call \in Paths /\ Canonical[call] # NoPath
  BY <1>0 DEF Enter, Typed
<1>2. Canonical[call] \in Scripts /\ f.pending \in Seq(Names)
  BY <1>1, LoaderAssumption DEF Typed
<1>3. f \in FrameType
  BY <1>0, <1>1, <1>2 DEF FrameType, NewId, Typed
<1>4. /\ Len(stack) \in Nat /\ Len(stack') = Len(stack) + 1
      /\ \A i \in 1 .. Len(stack) : stack'[i] = stack[i]
      /\ stack'[Len(stack) + 1] = f
  BY <1>1, <1>3, AppendProperties DEF Typed
<1>5. ASSUME NEW k \in 1 .. Len(stack)
      PROVE  Following(k)'
  <2>1. \A p \in Paths : WaitsFor(k, p) => WaitsFor(k, p)'
    BY <1>1, <1>4 DEF WaitsFor
  <2> QED BY <1>1, <1>4, <2>1, FrameStays DEF Followed
<1>6. ASSUME NEW k, k = Len(stack) + 1
      PROVE  Following(k)'
  <2>1. stack'[k] = f /\ References(k)' = f.pending
    BY <1>1, <1>4, <1>6 DEF References
  <2>2. Len(f.pending) \in Nat
    BY <1>2
  <2>3. Passed(k)' = 0
    BY <2>1, <2>2 DEF Passed
  <2> QED BY <2>1, <2>2, <2>3 DEF Following
<1>7. \A k \in 1 .. Len(stack') : k \in 1 .. Len(stack) \/ k = Len(stack) + 1
  BY <1>4
<1> QED BY <1>5, <1>6, <1>7 DEF Followed

\* A load that ends leaves the one that waits for it with its file loaded.
LEMMA FollowedFinish ==
    ASSUME Typed, Followed, Grows, Finish
    PROVE  Followed'
<1>1. /\ stack # <<>> /\ text' = text /\ stack' = Popped
      /\ loaded' = [loaded EXCEPT ![Top.script] = Top.id]
      /\ loaded \in [Scripts -> Nat] /\ call' = NoPath
  BY DEF Finish, Running, Typed
<1>2. /\ Len(stack) \in Nat \ {0} /\ Top = stack[Len(stack)]
      /\ Top.script \in Scripts /\ Top.id # 0
  BY <1>1, StackFacts DEF FrameType, Top
<1>3. /\ Len(stack') = Len(stack) - 1
      /\ \A i \in 1 .. Len(stack) - 1 : stack'[i] = stack[i]
  BY <1>1, PoppedFacts
<1>4. loaded'[Top.script] # 0 /\ Top.script # NoPath
  BY <1>1, <1>2, LoaderAssumption
<1>5. ASSUME NEW k \in 1 .. Len(stack')
      PROVE  Following(k)'
  <2>1. k \in 1 .. Len(stack) /\ k # Len(stack) /\ k + 1 \in 1 .. Len(stack)
    BY <1>2, <1>3
  <2>2. ASSUME NEW p \in Paths, WaitsFor(k, p)
        PROVE  WaitsFor(k, p)' \/ IsLoaded(p)'
    <3>1. stack[k + 1].script = Canonical[p]
      BY <2>1, <2>2 DEF WaitsFor
    <3>2. CASE k = Len(stack')
      <4>1. Canonical[p] = Top.script
        BY <1>2, <1>3, <3>1, <3>2
      <4> QED BY <1>4, <4>1 DEF IsLoaded
    <3>3. CASE k # Len(stack')
      <4>1. stack'[k + 1] = stack[k + 1]
        BY <1>2, <1>3, <3>3
      <4> QED BY <3>1, <3>3, <4>1 DEF WaitsFor
    <3> QED BY <3>2, <3>3
  <2>3. stack'[k] = stack[k] /\ Following(k)
    BY <1>2, <1>3, <2>1 DEF Followed
  <2> QED BY <1>1, <2>1, <2>2, <2>3, FrameStays
<1> QED BY <1>5 DEF Followed

\* Steps between these.
LEMMA FollowedRests ==
    ASSUME Typed, Followed, Grows, UNCHANGED <<text, stack>>,
           \/ call' = call
           \/ call # NoPath /\ IsLoaded(call)
    PROVE  Followed'
<1>1. ASSUME NEW k \in 1 .. Len(stack)
      PROVE  Following(k)'
  <2>1. ASSUME NEW p \in Paths, WaitsFor(k, p)
        PROVE  WaitsFor(k, p)' \/ IsLoaded(p)'
    <3>1. CASE call' = call
      BY <2>1, <3>1 DEF WaitsFor
    <3>2. CASE k # Len(stack)
      BY <2>1, <3>2 DEF WaitsFor
    <3>3. CASE k = Len(stack) /\ IsLoaded(call)
      <4>1. IsLoaded(p)
        BY <2>1, <3>3 DEF WaitsFor
      <4> QED BY <4>1, LoadedStays DEF Grows
    <3> QED BY <3>1, <3>2, <3>3
  <2> QED BY <2>1, FrameStays DEF Followed
<1> QED BY <1>1 DEF Followed

LEMMA FollowedStep == Typed /\ Followed /\ [Next]_vars => Followed'
<1> SUFFICES ASSUME Typed, Followed, [Next]_vars PROVE Followed'
  OBVIOUS
<1>1. CASE stack' = <<>>
  <2>1. Len(stack') = 0
    BY <1>1
  <2> QED BY <2>1 DEF Followed
<1>2. ASSUME ~Fail PROVE Grows
  BY <1>2, GrowsUnlessFail
<1>3. CASE Enter
  BY <1>2, <1>3, FollowedEnter DEF Enter, Fail, Running, Typed
<1>4. CASE Finish
  BY <1>2, <1>4, FollowedFinish DEF Finish, Fail
<1>5. CASE AlreadyLoaded
  <2>1. ~Fail
    BY <1>5 DEF AlreadyLoaded, Fail, Running, Typed
  <2> QED BY <1>2, <1>5, <2>1, FollowedRests DEF AlreadyLoaded
<1>6. CASE SkipReference \/ Autoload
  <2>1. /\ AtReference /\ stack' = NextReference /\ UNCHANGED <<text, globals, loaded>>
        /\ \/ globals[Head(Top.pending)] # Unset
           \/ /\ AutoloadFor[Head(Top.pending)] # NoPath
              /\ call' = AutoloadFor[Head(Top.pending)]
    BY <1>6 DEF SkipReference, Autoload, Needless, Unset
  <2>2. PICK d : d = Len(stack)
    OBVIOUS
  <2>3. d \in 1 .. Len(stack) /\ d = Len(stack) /\ Len(stack) \in Nat
    BY <2>1, <2>2, StackFacts DEF AtReference, Looking
  <2>4. Following(d)
    BY <2>3 DEF Followed
  <2>5. /\ Following(d)' /\ Len(stack') = Len(stack)
        /\ \A k \in 1 .. Len(stack) : /\ k # d => stack'[k] = stack[k]
                                      /\ stack'[k].script = stack[k].script
    BY <2>1, <2>3, <2>4, TopAdvances
  <2>6. ASSUME NEW k \in 1 .. Len(stack), k # d
        PROVE  Following(k)'
    <3>1. k + 1 \in 1 .. Len(stack) /\ k # Len(stack) /\ k # Len(stack')
      BY <2>3, <2>5, <2>6
    <3>2. \A p \in Paths : WaitsFor(k, p) => WaitsFor(k, p)'
      BY <2>5, <3>1 DEF WaitsFor
    <3>3. Grows
      BY <2>1 DEF Grows
    <3> QED BY <2>1, <2>5, <2>6, <3>2, <3>3, FrameStays DEF Followed
  <2> QED BY <2>5, <2>6 DEF Followed
<1>7. CASE Elsewhere
  BY <1>7, FollowedRests DEF Elsewhere, Grows
<1>8. CASE LoadStartupPlugins \/ SkipPlugin
  BY <1>8, FollowedRests DEF LoadStartupPlugins, SkipPlugin, Grows
<1>9. CASE LoadPlugin \/ (\E name \in DOMAIN Colors : LoadColorscheme(name))
  <2>1. stack' = <<>>
    BY <1>9 DEF LoadPlugin, LoadColorscheme, AtRest, Idle
  <2> QED BY <1>1, <2>1
<1>10. CASE Begin \/ Assign \/ Guard \/ Evaluate \/ Resume
  <2>1. UNCHANGED <<text, stack, call>>
    BY <1>10 DEF Begin, Assign, Guard, Evaluate, Resume
  <2>2. CASE Fail
    BY <1>1, <2>2 DEF Fail, ReturnError
  <2> QED BY <1>2, <2>1, <2>2, FollowedRests
<1>11. CASE Missing \/ Rejected \/ Undiscovered \/ Fail
  BY <1>1, <1>11 DEF Missing, Rejected, Undiscovered, Fail, ReturnError
<1> QED
  BY <1>3, <1>4, <1>5, <1>6, <1>7, <1>8, <1>9, <1>10, <1>11, EmbeddedStepsAreElsewhere
  DEF Next, LoadStep

\* When the loop is through, all references are there or their files loaded;
\* the script has started with that.
Started ==
    ip > 0 =>
        \A i \in 1 .. Len(Current.references) :
            Satisfied(Current.references[i], saved.globals)

LEMMA StartedInit == Init => Started
BY DEF Init, Started

LEMMA StartedStep == Typed /\ Followed /\ Started /\ [Next]_vars => Started'
<1> SUFFICES ASSUME Typed, Followed, Started, [Next]_vars PROVE Started'
  OBVIOUS
<1>1. CASE ip' = 0
  BY <1>1 DEF Started
<1>2. CASE ip > 0 /\ UNCHANGED <<text, stack, saved, loaded>>
  <2>1. Current' = Current
    BY <1>2 DEF Current, Top
  <2> QED BY <1>2, <2>1 DEF Started, Satisfied, IsLoaded
<1>3. CASE Begin
  <2>1. /\ stack # <<>> /\ call = NoPath /\ Top.pending = <<>>
        /\ UNCHANGED <<text, stack, loaded>> /\ saved'.globals = globals
    BY <1>3 DEF Begin, Looking
  <2>2. PICK d : d = Len(stack)
    OBVIOUS
  <2>3. d \in 1 .. Len(stack) /\ Top = stack[d] /\ Current = text[Top.script]
    BY <2>1, <2>2, StackFacts DEF Top
  <2>4. Following(d)
    BY <2>3 DEF Followed
  <2>5. /\ References(d) = Current.references /\ Passed(d) = Len(Current.references)
        /\ \A i \in 1 .. Len(Current.references) : Current.references[i] \in Names
    <3>1. References(d) = Current.references
      BY <2>3 DEF References
    <3>2. /\ Len(References(d)) \in Nat
          /\ \A i \in 1 .. Len(References(d)) : References(d)[i] \in Names
      BY <2>3, FrameFacts
    <3>3. Len(stack[d].pending) = 0
      BY <2>1, <2>3
    <3>4. Passed(d) = Len(References(d))
      BY <3>2, <3>3 DEF Passed
    <3> QED BY <3>1, <3>2, <3>4
  <2>6. ASSUME NEW i \in 1 .. Len(Current.references)
        PROVE  Satisfied(Current.references[i], globals)
    <3>1. \A p \in Paths : ~WaitsFor(d, p)
      BY <2>1, <2>2, LoaderAssumption DEF WaitsFor
    <3>2. \/ Satisfied(References(d)[i], globals)
          \/ /\ AutoloadFor[References(d)[i]] # NoPath
             /\ WaitsFor(d, AutoloadFor[References(d)[i]])
      BY <2>4, <2>5 DEF Following
    <3>3. AutoloadFor[References(d)[i]] \in Paths \cup {NoPath}
      BY <2>5, LoaderAssumption
    <3> QED BY <2>5, <3>1, <3>2, <3>3
  <2>7. Current' = Current
    BY <2>1 DEF Current, Top
  <2> QED BY <2>1, <2>6, <2>7 DEF Started, Satisfied, IsLoaded
<1>4. CASE Quiet \/ ByEmbedder \/ KeyUnmapped \/ Fired
  BY <1>1, <1>2, <1>4 DEF Quiet, ByEmbedder, KeyUnmapped, Fired, FromOutside, Running
<1>5. CASE Assign \/ Request
  BY <1>2, <1>5 DEF Assign, Request, AtStatement, Running, loaderVars
<1>6. CASE Finish \/ Fail
  BY <1>1, <1>6 DEF Finish, Fail
<1> QED BY <1>3, <1>4, <1>5, <1>6, RegistriesChange

\* A script runs only when each function it refers to was there or the file
\* that should bring it has been loaded (plugin.rs, load_script goes through
\* autoload_references first), through any nesting of loads.
THEOREM DependenciesAlwaysFirst == Spec => []DependenciesFirst
<1>1. Typed /\ Started => DependenciesFirst
  BY DEF Typed, Started, DependenciesFirst, Satisfied, Running
<1> QED
  BY <1>1, TypedInit, TypedStep, FollowedInit, FollowedStep, StartedInit,
     StartedStep, PTL DEF Spec
-----------------------------------------------------------------------------
(* The report.  load_startup_plugins is through with a prefix of the paths: *)
(* its entries are of that prefix, in its order, and leave none of it out;  *)
(* and the load in progress at the bottom of all is that of the next path.  *)

Done == Len(StartupPaths) - Len(queue)

Queued ==
    /\ Done \in Nat
    /\ \A i \in 1 .. Len(queue) : queue[i] = StartupPaths[Done + i]

\* Entries of the first n paths, in their order.
InTurnOf(n) ==
    \A j \in 1 .. Len(report) :
        /\ \E b \in 1 .. n : report[j].path = StartupPaths[b]
        /\ \A i \in 1 .. Len(report) : i < j =>
              \E a \in 1 .. n, b \in 1 .. n :
                  /\ a < b
                  /\ report[i].path = StartupPaths[a] /\ report[j].path = StartupPaths[b]

AtHead ==
    queue # <<>> => /\ stack = <<>> => call \in {NoPath, Head(queue)}
                    /\ stack # <<>> => stack[1].script = Canonical[Head(queue)]

EntryIsTrue(i) == report[i].ok => IsLoaded(report[i].path)
AllTrue        == \A i \in 1 .. Len(report) : EntryIsTrue(i)
AllAccounted   == startups > 0 => \A n \in 1 .. Done : Accounted(StartupPaths[n])

Reported == Queued /\ AllTrue /\ InTurnOf(Done) /\ AllAccounted /\ AtHead

LEMMA ReportedInit == Init => Reported
<1> SUFFICES ASSUME Init PROVE Reported
  OBVIOUS
<1>1. /\ queue = <<>> /\ startups = 0 /\ Len(queue) = 0
      /\ Len(report) = 0
  BY DEF Init
<1>2. Len(StartupPaths) \in Nat
  BY LoaderAssumption
<1> QED BY <1>1, <1>2 DEF Reported, AllTrue, AllAccounted, Queued, Done, AtHead, InTurnOf

LEMMA QueueAdvances ==
    ASSUME Typed, Queued, queue # <<>>, queue' = Tail(queue), NEW n, n = Done
    PROVE  /\ Queued' /\ Done' = n + 1
           /\ n \in Nat /\ n + 1 \in 1 .. Len(StartupPaths)
           /\ Head(queue) = StartupPaths[n + 1] /\ Head(queue) \in Paths
<1>rest. PICK rest : rest = Tail(queue)
  OBVIOUS
<1>1. /\ Len(queue) \in Nat \ {0} /\ Head(queue) = queue[1]
      /\ rest \in Seq(Paths) /\ Len(rest) = Len(queue) - 1
      /\ \A i \in 1 .. Len(rest) : rest[i] = queue[i + 1]
      /\ Head(queue) \in Paths
  BY <1>rest, HeadTailProperties, EmptySeq DEF Typed
<1>2. Len(StartupPaths) \in Nat
  BY LoaderAssumption
<1>3. /\ n \in Nat /\ n = Len(StartupPaths) - Len(queue)
      /\ \A i \in 1 .. Len(queue) : queue[i] = StartupPaths[n + i]
  BY DEF Queued, Done
<1>4. queue' = rest /\ Done' = n + 1
  <2>1. queue' = rest
    BY <1>rest
  <2>2. Len(StartupPaths) - Len(rest) = n + 1
    BY <1>1, <1>2, <1>3
  <2> QED BY <2>1, <2>2 DEF Done
<1>5. ASSUME NEW i \in 1 .. Len(rest)
      PROVE  rest[i] = StartupPaths[n + 1 + i]
  <2>1. i + 1 \in 1 .. Len(queue) /\ n + (i + 1) = n + 1 + i
    BY <1>1, <1>3
  <2>2. rest[i] = StartupPaths[n + (i + 1)]
    BY <1>1, <1>3, <2>1
  <2> QED BY <2>1, <2>2
<1>6. n + 1 \in 1 .. Len(StartupPaths)
  BY <1>1, <1>2, <1>3
<1>7. Head(queue) = StartupPaths[n + 1]
  BY <1>1, <1>3
<1>8. Queued'
  BY <1>3, <1>4, <1>5 DEF Queued
<1> QED BY <1>1, <1>3, <1>4, <1>6, <1>7, <1>8

\* What was accounted for, and said to be loaded, is so for good.
LEMMA EntriesStay ==
    ASSUME Typed, TypedReport, Reported,
           \A s \in Scripts : loaded[s] # 0 => loaded'[s] # 0,
           \A i \in 1 .. Len(report) :
               i \in 1 .. Len(report') /\ report'[i] = report[i]
    PROVE  /\ \A i \in 1 .. Len(report) : EntryIsTrue(i)'
           /\ \A p \in Paths : Accounted(p) => Accounted(p)'
<1>1. ASSUME NEW i \in 1 .. Len(report)
      PROVE  EntryIsTrue(i)'
  <2>1. report'[i] = report[i] /\ report[i] \in Entry
    <3>1. report \in Seq(Entry)
      BY DEF TypedReport
    <3> QED BY <3>1, ElementOfSeq
  <2>p. PICK p : p = report[i].path
    OBVIOUS
  <2>2. p \in Paths
    BY <2>1, <2>p DEF Entry
  <2>3. CASE report[i].ok
    <3>1. IsLoaded(p)
      BY <1>1, <2>3, <2>p DEF Reported, AllTrue, EntryIsTrue
    <3>2. IsLoaded(p)'
      BY <2>2, <3>1, LoadedStays
    <3> QED BY <2>1, <2>p, <3>2 DEF EntryIsTrue, IsLoaded
  <2>4. CASE ~report[i].ok
    BY <2>1, <2>4 DEF EntryIsTrue
  <2> QED BY <2>3, <2>4
<1>2. ASSUME NEW p \in Paths, Accounted(p)
      PROVE  Accounted(p)'
  <2>1. CASE KnownAs(p)
    BY <2>1 DEF Accounted, KnownAs
  <2>2. CASE \E i \in 1 .. Len(report) : report[i].path = p
    BY <2>2 DEF Accounted
  <2> QED BY <1>2, <2>1, <2>2 DEF Accounted
<1> QED BY <1>1, <1>2

\* Steps that leave the queue alone.
LEMMA ReportedRests ==
    ASSUME Typed, TypedReport, Reported, UNCHANGED <<queue, report, startups>>,
           \A s \in Scripts : loaded[s] # 0 => loaded'[s] # 0, AtHead'
    PROVE  Reported'
<1>1. Queued' /\ Done' = Done /\ InTurnOf(Done)'
  <2>1. Done' = Done
    BY DEF Done
  <2>2. Queued'
    BY <2>1 DEF Reported, Queued
  <2>3. PICK n : n = Done
    OBVIOUS
  <2>4. InTurnOf(n)
    BY <2>3 DEF Reported
  <2>5. InTurnOf(n)'
    BY <2>3, <2>4 DEF InTurnOf
  <2> QED BY <2>1, <2>2, <2>3, <2>5
<1>2. /\ \A i \in 1 .. Len(report) : EntryIsTrue(i)'
      /\ \A p \in Paths : Accounted(p) => Accounted(p)'
  <2>1. \A i \in 1 .. Len(report) : i \in 1 .. Len(report') /\ report'[i] = report[i]
    OBVIOUS
  <2> QED BY <2>1, EntriesStay
<1>3. ASSUME startups' > 0, NEW n \in 1 .. Done
      PROVE  Accounted(StartupPaths[n])'
  <2>1. Done \in Nat /\ Done <= Len(StartupPaths)
    BY LoaderAssumption DEF Typed, Reported, Queued, Done
  <2>2. n \in 1 .. Len(StartupPaths)
    BY <2>1, LoaderAssumption
  <2>3. StartupPaths[n] \in Paths
    BY <2>2, LoaderAssumption, ElementOfSeq
  <2> QED BY <1>2, <1>3, <2>3 DEF Reported, AllAccounted
<1>4. AllTrue' /\ AllAccounted'
  BY <1>1, <1>2, <1>3 DEF AllTrue, AllAccounted
<1> QED BY <1>1, <1>4 DEF Reported

\* Steps with which load_startup_plugins is through with a path.
LEMMA ReportedAdvances ==
    ASSUME Typed, TypedReport, Reported, queue # <<>>, queue' = Tail(queue),
           UNCHANGED startups, \A s \in Scripts : loaded[s] # 0 => loaded'[s] # 0,
           stack' = <<>>, call' = NoPath, NEW p, p = Head(queue),
           \/ KnownAs(p)' /\ report' = report
           \/ \E ok \in BOOLEAN :
                 /\ report' = Append(report, [path |-> p, ok |-> ok])
                 /\ ok => IsLoaded(p)'
    PROVE  Reported'
<1>n. PICK n : n = Done
  OBVIOUS
<1>l. PICK l : l = Len(report)
  OBVIOUS
<1>1. /\ Queued' /\ Done' = n + 1 /\ n \in Nat /\ n + 1 \in 1 .. Len(StartupPaths)
      /\ p = StartupPaths[n + 1] /\ p \in Paths
  BY <1>n, QueueAdvances DEF Reported
<1>2. \A m \in 1 .. n + 1 : m \in 1 .. n \/ m = n + 1
  BY <1>1
<1>3. l \in Nat /\ \A ok \in BOOLEAN : [path |-> p, ok |-> ok] \in Entry
  BY <1>1, <1>l DEF TypedReport, Entry
<1>4. \/ KnownAs(p)' /\ report' = report
      \/ /\ Len(report') = l + 1 /\ report'[l + 1].path = p
         /\ report'[l + 1].ok => IsLoaded(p)'
         /\ \A i \in 1 .. l : report'[i] = report[i]
  <2>1. CASE KnownAs(p)' /\ report' = report
    BY <2>1
  <2>2. ASSUME NEW ok \in BOOLEAN, report' = Append(report, [path |-> p, ok |-> ok]),
               ok => IsLoaded(p)'
        PROVE  /\ Len(report') = l + 1 /\ report'[l + 1].path = p
               /\ report'[l + 1].ok => IsLoaded(p)'
               /\ \A i \in 1 .. l : report'[i] = report[i]
    <3> DEFINE e == [path |-> p, ok |-> ok]
    <3>1. e \in Entry /\ e.path = p /\ e.ok = ok /\ report \in Seq(Entry)
      BY <1>3 DEF TypedReport
    <3> HIDE DEF e
    <3>2. report' = Append(report, e)
      BY <2>2 DEF e
    <3>3. /\ Len(report') = l + 1 /\ report'[l + 1] = e
          /\ \A i \in 1 .. l : report'[i] = report[i]
      BY <1>l, <3>1, <3>2, AppendProperties
    <3> QED BY <2>2, <3>1, <3>3
  <2> QED BY <2>1, <2>2
<1>5. \A i \in 1 .. l : i \in 1 .. Len(report') /\ report'[i] = report[i]
  BY <1>3, <1>4, <1>l
<1>6. /\ \A i \in 1 .. l : EntryIsTrue(i)'
      /\ \A q \in Paths : Accounted(q) => Accounted(q)'
  BY <1>5, <1>l, EntriesStay
<1>7. \A i \in 1 .. Len(report') : i \in 1 .. l \/ (i = l + 1 /\ Len(report') = l + 1)
  BY <1>3, <1>4, <1>l
<1>8. AllTrue'
  <2>1. ASSUME NEW i \in 1 .. Len(report'), i = l + 1, Len(report') = l + 1
        PROVE  EntryIsTrue(i)'
    <3>1. report'[i].path = p /\ (report'[i].ok => IsLoaded(p)')
      BY <1>3, <1>4, <1>l, <2>1
    <3> QED BY <3>1 DEF EntryIsTrue, IsLoaded
  <2> QED BY <1>6, <1>7, <2>1 DEF AllTrue
<1>9. ASSUME startups' > 0, NEW m \in 1 .. n + 1
      PROVE  Accounted(StartupPaths[m])'
  <2>1. CASE m = n + 1
    <3>1. CASE KnownAs(p)'
      BY <1>1, <2>1, <3>1 DEF Accounted, KnownAs
    <3>2. CASE Len(report') = l + 1 /\ report'[l + 1].path = p
      <4>1. l + 1 \in 1 .. Len(report')
        BY <1>3, <3>2
      <4> QED BY <1>1, <2>1, <3>2, <4>1 DEF Accounted
    <3> QED BY <1>4, <3>1, <3>2
  <2>2. CASE m \in 1 .. n
    <3>1. Accounted(StartupPaths[m])
      BY <1>9, <1>n, <2>2 DEF Reported, AllAccounted
    <3>2. m \in 1 .. Len(StartupPaths)
      BY <1>1, <2>2, LoaderAssumption
    <3>3. StartupPaths[m] \in Paths
      BY <3>2, LoaderAssumption, ElementOfSeq
    <3> QED BY <1>6, <3>1, <3>3
  <2> QED BY <1>2, <2>1, <2>2
<1>10. InTurnOf(n + 1)'
  <2> SUFFICES ASSUME NEW j \in 1 .. Len(report')
               PROVE  /\ \E b \in 1 .. n + 1 : report'[j].path = StartupPaths[b]
                      /\ \A i \in 1 .. Len(report') : i < j =>
                            \E a \in 1 .. n + 1, b \in 1 .. n + 1 :
                                /\ a < b
                                /\ report'[i].path = StartupPaths[a]
                                /\ report'[j].path = StartupPaths[b]
    BY DEF InTurnOf
  <2>0. InTurnOf(n) /\ 1 .. n \subseteq 1 .. n + 1
    BY <1>1, <1>n DEF Reported
  <2>1. ASSUME NEW i \in 1 .. l
        PROVE  \E b \in 1 .. n : report'[i].path = StartupPaths[b]
    BY <1>5, <1>l, <2>0, <2>1 DEF InTurnOf
  <2>2. CASE j \in 1 .. l
    <3>1. ASSUME NEW i \in 1 .. Len(report'), i < j
          PROVE  \E a \in 1 .. n + 1, b \in 1 .. n + 1 :
                     /\ a < b
                     /\ report'[i].path = StartupPaths[a]
                     /\ report'[j].path = StartupPaths[b]
      <4>1. i \in 1 .. l
        BY <1>3, <2>2, <3>1
      <4>2. report'[i] = report[i] /\ report'[j] = report[j]
        BY <1>5, <2>2, <4>1
      <4>3. \E a \in 1 .. n, b \in 1 .. n :
                /\ a < b
                /\ report[i].path = StartupPaths[a] /\ report[j].path = StartupPaths[b]
        BY <1>l, <2>0, <2>2, <3>1, <4>1 DEF InTurnOf
      <4> QED BY <2>0, <4>2, <4>3
    <3> QED BY <2>0, <2>1, <2>2, <3>1
  <2>3. CASE j = l + 1 /\ Len(report') = l + 1
    <3>1. report'[j].path = StartupPaths[n + 1] /\ n + 1 \in 1 .. n + 1
      BY <1>1, <1>3, <1>4, <1>l, <2>3
    <3>2. ASSUME NEW i \in 1 .. Len(report'), i < j
          PROVE  \E a \in 1 .. n + 1, b \in 1 .. n + 1 :
                     /\ a < b
                     /\ report'[i].path = StartupPaths[a]
                     /\ report'[j].path = StartupPaths[b]
      <4>1. i \in 1 .. l
        BY <1>3, <2>3, <3>2
      <4>2. PICK a \in 1 .. n : report'[i].path = StartupPaths[a]
        BY <2>1, <4>1
      <4>3. a \in 1 .. n + 1 /\ a < n + 1
        BY <1>1
      <4> QED BY <3>1, <4>2, <4>3
    <3> QED BY <3>1, <3>2
  <2> QED BY <1>7, <2>2, <2>3
<1>11. AtHead'
  BY DEF AtHead
<1>12. InTurnOf(Done)'
  BY <1>1, <1>10 DEF InTurnOf
<1>13. AllAccounted'
  BY <1>1, <1>9 DEF AllAccounted
<1> QED BY <1>1, <1>8, <1>11, <1>12, <1>13 DEF Reported

\* Every way in which a load fails.
LEMMA ReportedError ==
    ASSUME Typed, TypedReport, Reported, ReturnError, UNCHANGED <<loaded, startups>>
    PROVE  Reported'
<1>1. stack' = <<>> /\ call' = NoPath
  BY DEF ReturnError
<1>2. CASE queue # <<>>
  <2>1. /\ queue' = Tail(queue)
        /\ report' = Append(report, [path |-> Head(queue), ok |-> FALSE])
    BY <1>2 DEF ReturnError, AfterFailure
  <2> QED BY <1>1, <1>2, <2>1, ReportedAdvances
<1>3. CASE queue = <<>>
  <2>1. UNCHANGED <<queue, report>>
    BY <1>3 DEF ReturnError
  <2>2. AtHead'
    BY <1>3, <2>1 DEF AtHead
  <2> QED BY <2>1, <2>2, ReportedRests
<1> QED BY <1>2, <1>3

\* A load that returns to load_startup_plugins has loaded the next path.
LEMMA ReportedOk ==
    ASSUME Typed, TypedReport, Reported, NEW callers, ReturnOk(callers),
           UNCHANGED startups, \A s \in Scripts : loaded[s] # 0 => loaded'[s] # 0,
           stack' = callers, call' = NoPath,
           callers = <<>> /\ queue # <<>>
               => \A p : p = Head(queue) => IsLoaded(p)',
           callers # <<>> => stack # <<>> /\ callers[1].script = stack[1].script
    PROVE  Reported'
<1>1. CASE callers = <<>> /\ queue # <<>>
  <2>1. /\ queue' = Tail(queue)
        /\ report' = Append(report, [path |-> Head(queue), ok |-> TRUE])
    BY <1>1 DEF ReturnOk
  <2> QED BY <1>1, <2>1, ReportedAdvances
<1>2. CASE ~(callers = <<>> /\ queue # <<>>)
  <2>1. UNCHANGED <<queue, report>>
    BY <1>2 DEF ReturnOk
  <2>2. AtHead'
    BY <1>2, <2>1 DEF AtHead, Reported
  <2> QED BY <2>1, <2>2, ReportedRests
<1> QED BY <1>1, <1>2

LEMMA ReportedStep == Typed /\ TypedReport /\ Reported /\ [Next]_vars => Reported'
<1> SUFFICES ASSUME Typed, TypedReport, Reported, [Next]_vars PROVE Reported'
  OBVIOUS
<1>0. \A s \in Scripts : loaded[s] # 0 => loaded'[s] # 0
  BY GrowsUnlessFail
<1>1. ASSUME UNCHANGED <<queue, report, startups, call, stack>>
      PROVE  Reported'
  <2>1. AtHead'
    BY <1>1 DEF Reported, AtHead
  <2> QED BY <1>0, <1>1, <2>1, ReportedRests
<1>2. CASE LoadStartupPlugins
  <2>1. /\ queue' = StartupPaths /\ report' = <<>>
        /\ stack' = <<>> /\ call' = NoPath
    BY <1>2 DEF LoadStartupPlugins, AtRest, Idle
  <2>2. Len(StartupPaths) \in Nat /\ Done' = 0
    BY <2>1, LoaderAssumption DEF Done
  <2>3. Queued' /\ AtHead'
    BY <2>1, <2>2 DEF Queued, AtHead
  <2>4. Len(report') = 0
    BY <2>1
  <2> QED BY <2>2, <2>3, <2>4 DEF Reported, AllTrue, AllAccounted, InTurnOf
<1>3. CASE SkipPlugin
  <2>1. /\ queue # <<>> /\ queue' = Tail(queue) /\ UNCHANGED <<report, startups, loaded>>
        /\ stack' = <<>> /\ call' = NoPath /\ KnownAs(Head(queue))
    BY <1>3 DEF SkipPlugin, Idle
  <2>2. ASSUME NEW p, p = Head(queue)
        PROVE  KnownAs(p)'
    BY <2>1, <2>2 DEF KnownAs
  <2> QED BY <1>0, <2>1, <2>2, ReportedAdvances
<1>4. CASE LoadPlugin
  <2>1. UNCHANGED <<queue, report, startups>> /\ stack' = <<>> /\ call' = Head(queue)
    BY <1>4 DEF LoadPlugin, Idle
  <2>2. AtHead'
    BY <2>1 DEF AtHead
  <2> QED BY <1>0, <2>1, <2>2, ReportedRests
<1>5. CASE \E name \in DOMAIN Colors : LoadColorscheme(name)
  <2>1. UNCHANGED <<queue, report, startups>> /\ queue = <<>>
    BY <1>5 DEF LoadColorscheme, AtRest
  <2>2. AtHead'
    BY <2>1 DEF AtHead
  <2> QED BY <1>0, <2>1, <2>2, ReportedRests
<1>6. CASE Missing \/ Rejected \/ Undiscovered \/ Fail
  BY <1>6, ReportedError DEF Missing, Rejected, Undiscovered, Fail
<1>7. CASE AlreadyLoaded
  <2>1. /\ call # NoPath /\ IsLoaded(call) /\ call' = NoPath /\ ReturnOk(stack)
        /\ UNCHANGED <<loaded, startups, stack>>
    BY <1>7 DEF AlreadyLoaded
  <2>2. ASSUME stack = <<>>, queue # <<>>, NEW p, p = Head(queue)
        PROVE  IsLoaded(p)'
    BY <2>1, <2>2 DEF Reported, AtHead, IsLoaded
  <2> QED BY <1>0, <2>1, <2>2, ReportedOk
<1>8. CASE Enter
  <2>f. PICK f : f = [script |-> Canonical[call], id |-> NewId,
                      pending |-> text[Canonical[call]].references]
    OBVIOUS
  <2>1. /\ UNCHANGED <<queue, report, startups>> /\ stack' = Append(stack, f)
        /\ f.script = Canonical[call] /\ call # NoPath
    BY <1>8, <2>f DEF Enter
  <2>2. f \in FrameType
    BY <1>8, <2>f, LoaderAssumption DEF Enter, NewId, Typed, FrameType
  <2>3. /\ Len(stack) \in Nat
        /\ \A i \in 1 .. Len(stack) : Append(stack, f)[i] = stack[i]
        /\ Append(stack, f)[Len(stack) + 1] = f
        /\ Append(stack, f) # <<>>
    BY <2>2, AppendProperties DEF Typed
  <2>4. CASE stack = <<>>
    <3>1. stack'[1] = f
      BY <2>1, <2>3, <2>4
    <3>2. queue # <<>> => call = Head(queue)
      BY <2>1, <2>4 DEF Reported, AtHead
    <3>3. AtHead'
      BY <2>1, <2>3, <3>1, <3>2 DEF AtHead
    <3> QED BY <1>0, <2>1, <3>3, ReportedRests
  <2>5. CASE stack # <<>>
    <3>1. stack'[1] = stack[1]
      BY <2>1, <2>3, <2>5, StackFacts
    <3>2. AtHead'
      BY <2>1, <2>3, <2>5, <3>1 DEF Reported, AtHead
    <3> QED BY <1>0, <2>1, <3>2, ReportedRests
  <2> QED BY <2>4, <2>5
<1>9. CASE SkipReference \/ Autoload
  <2>1. /\ AtReference /\ stack # <<>> /\ stack' = NextReference
        /\ UNCHANGED <<queue, report, startups>>
    BY <1>9 DEF SkipReference, Autoload, AtReference, Looking
  <2>2. /\ Len(stack') = Len(stack) /\ Len(stack) \in Nat \ {0}
        /\ stack'[1].script = stack[1].script
    BY <2>1, NextReferenceFacts, StackFacts
  <2>3. stack' # <<>>
    BY <2>2
  <2>4. AtHead'
    BY <2>1, <2>2, <2>3 DEF Reported, AtHead
  <2> QED BY <1>0, <2>1, <2>4, ReportedRests
<1>10. CASE Finish
  <2>1. /\ stack # <<>> /\ stack' = Popped /\ ReturnOk(Popped) /\ UNCHANGED startups
        /\ loaded' = [loaded EXCEPT ![Top.script] = Top.id]
        /\ loaded \in [Scripts -> Nat] /\ call' = NoPath
    BY <1>10 DEF Finish, Running, Typed
  <2>2. /\ Len(stack) \in Nat \ {0} /\ Top = stack[Len(stack)]
        /\ Top.script \in Scripts /\ Top.id # 0
    BY <2>1, StackFacts DEF FrameType, Top
  <2>3. /\ Len(Popped) = Len(stack) - 1
        /\ \A i \in 1 .. Len(stack) - 1 : Popped[i] = stack[i]
        /\ Popped \in Seq(FrameType)
    BY <2>1, PoppedFacts
  <2>4. ASSUME Popped = <<>>, queue # <<>>, NEW p, p = Head(queue)
        PROVE  IsLoaded(p)'
    <3>1. Len(stack) = 1
      <4>1. Len(Popped) = 0
        BY <2>4
      <4> QED BY <2>2, <2>3, <4>1
    <3>2. Canonical[p] = Top.script
      BY <2>1, <2>2, <2>4, <3>1 DEF Reported, AtHead
    <3>3. loaded'[Top.script] # 0 /\ Top.script # NoPath
      BY <2>1, <2>2, LoaderAssumption
    <3> QED BY <3>2, <3>3 DEF IsLoaded
  <2>5. ASSUME Popped # <<>>
        PROVE  Popped[1].script = stack[1].script
    <3>1. 1 \in 1 .. Len(stack) - 1
      BY <2>2, <2>3, <2>5, EmptySeq
    <3> QED BY <2>3, <3>1
  <2> QED BY <1>0, <2>1, <2>4, <2>5, ReportedOk
<1>11. CASE Begin \/ Assign \/ Guard \/ Evaluate \/ Request \/ Resume
  BY <1>1, <1>11 DEF Begin, Assign, Guard, Evaluate, Request, Resume, loaderVars
<1>12. CASE UNCHANGED vars \/ Acknowledge \/ EditorAnswers
  BY <1>1, <1>12 DEF vars, Acknowledge, EditorAnswers, loaderVars
<1>13. CASE \/ \E c \in Embedded, b \in Buffers : Embed(c, b)
            \/ \E m \in Modes, k \in Keys, b \in Buffers \cup {NoBuffer} :
                  UnmapKey(m, k, b)
            \/ \E e \in Events, s \in Subjects : Fire(e, s)
  BY <1>1, <1>13 DEF Embed, UnmapKey, Fire
<1> QED
  BY <1>2, <1>3, <1>4, <1>5, <1>6, <1>7, <1>8, <1>9, <1>10, <1>11, <1>12, <1>13
  DEF Next, LoadStep

\* load_startup_plugins calls loaded only what is loaded, tells of the paths in
\* their order and passes over none in silence: one that is not loaded has its
\* failure (plugin.rs, load_startup_plugins).
THEOREM ReportIsAlwaysTrue == Spec => []ReportIsTrue
<1>1. Typed /\ Reported => ReportIsTrue
  <2> SUFFICES ASSUME Typed, Reported PROVE ReportIsTrue
    OBVIOUS
  <2>1. ASSUME AtRest
        PROVE  Done = Len(StartupPaths)
    <3>1. Len(queue) = 0 /\ Len(StartupPaths) \in Nat
      BY <2>1, LoaderAssumption DEF AtRest
    <3> QED BY <3>1 DEF Done
  <2>2. InTurn
    <3>1. 1 .. Done \subseteq 1 .. Len(StartupPaths)
      BY LoaderAssumption DEF Typed, Reported, Queued, Done
    <3> SUFFICES ASSUME NEW i \in 1 .. Len(report), NEW j \in 1 .. Len(report), i < j
                 PROVE  \E m \in 1 .. Len(StartupPaths), n \in 1 .. Len(StartupPaths) :
                            /\ m < n
                            /\ report[i].path = StartupPaths[m]
                            /\ report[j].path = StartupPaths[n]
      BY DEF InTurn
    <3>2. PICK a \in 1 .. Done, b \in 1 .. Done :
              /\ a < b
              /\ report[i].path = StartupPaths[a] /\ report[j].path = StartupPaths[b]
      BY DEF Reported, InTurnOf
    <3> QED BY <3>1, <3>2
  <2>3. \A i \in 1 .. Len(report) : report[i].ok => IsLoaded(report[i].path)
    BY DEF Reported, AllTrue, EntryIsTrue
  <2>4. AtRest /\ startups > 0 => \A n \in 1 .. Len(StartupPaths) : Accounted(StartupPaths[n])
    BY <2>1 DEF Reported, AllAccounted
  <2> QED BY <2>2, <2>3, <2>4 DEF ReportIsTrue
<1> QED
  BY <1>1, TypedInit, TypedStep, TypedReportInit, TypedReportStep, ReportedInit,
     ReportedStep, PTL DEF Spec
-----------------------------------------------------------------------------
(* Loads that do not wait for themselves.  load_script enters a script in   *)
(* loaded_scripts only when it has run, so that references that lead back   *)
(* to it load it again; where they do not, a script runs to its end once.   *)

Once ==
    /\ LoadedOnce
    /\ \A i \in 1 .. Len(completions) : loaded[completions[i]] # 0
    /\ \A i \in 1 .. Len(stack) : loaded[stack[i].script] = 0

LEMMA OnceInit == Init => Once
<1> SUFFICES ASSUME Init PROVE Len(stack) = 0 /\ Len(completions) = 0
  BY DEF Once, LoadedOnce
<1> QED BY DEF Init

LEMMA CompletionsChange ==
    ASSUME [Next]_vars
    PROVE  UNCHANGED completions \/ Finish
<1>1. CASE UNCHANGED vars \/ LoadStartupPlugins \/ Acknowledge \/ EditorAnswers
  BY <1>1 DEF vars, LoadStartupPlugins, Acknowledge, EditorAnswers, loaderVars
<1>2. CASE \/ \E name \in DOMAIN Colors : LoadColorscheme(name)
           \/ \E c \in Embedded, b \in Buffers : Embed(c, b)
           \/ \E m \in Modes, k \in Keys, b \in Buffers \cup {NoBuffer} :
                 UnmapKey(m, k, b)
           \/ \E e \in Events, s \in Subjects : Fire(e, s)
  BY <1>2 DEF LoadColorscheme, Embed, UnmapKey, Fire
<1>3. CASE \/ SkipPlugin \/ LoadPlugin \/ Missing \/ AlreadyLoaded \/ Enter
           \/ Rejected \/ SkipReference \/ Autoload \/ Undiscovered
  BY <1>3 DEF SkipPlugin, LoadPlugin, Missing, AlreadyLoaded, Enter, Rejected,
     SkipReference, Autoload, Undiscovered
<1>4. CASE \/ Begin \/ Assign \/ Guard \/ Evaluate \/ Request \/ Resume \/ Finish
           \/ Fail
  BY <1>4 DEF Begin, Assign, Guard, Evaluate, Request, Resume, Fail, loaderVars
<1> QED BY <1>1, <1>2, <1>3, <1>4 DEF Next, LoadStep

LEMMA OnceStep ==
    Typed /\ TypedReport /\ NoLoadInsideItself /\ Once /\ [Next]_vars => Once'
<1> SUFFICES ASSUME Typed, TypedReport, NoLoadInsideItself, Once, [Next]_vars
             PROVE  Once'
  OBVIOUS
<1>1. CASE SameLoads /\ ~Finish
  BY <1>1, CompletionsChange DEF SameLoads, Once, LoadedOnce
<1>2. CASE Abandoned /\ ~Finish
  <2>1. Len(stack') = 0
    BY <1>2 DEF Abandoned
  <2> QED BY <1>2, <2>1, CompletionsChange DEF Abandoned, Once, LoadedOnce
<1>3. CASE Enter
  <2>f. PICK f : f = [script |-> Canonical[call], id |-> NewId,
                      pending |-> text[Canonical[call]].references]
    OBVIOUS
  <2>1. /\ stack' = Append(stack, f) /\ f.script = Canonical[call]
        /\ loaded[Canonical[call]] = 0 /\ UNCHANGED <<loaded, completions>>
    BY <1>3, <2>f DEF Enter, IsLoaded
  <2>2. f \in FrameType
    BY <1>3, <2>f, LoaderAssumption DEF Enter, NewId, Typed, FrameType
  <2>3. /\ Len(stack') = Len(stack) + 1 /\ Len(stack) \in Nat
        /\ \A i \in 1 .. Len(stack) : stack'[i] = stack[i]
        /\ stack'[Len(stack) + 1] = f
    BY <2>1, <2>2, AppendProperties DEF Typed
  <2>4. \A i \in 1 .. Len(stack) + 1 : i \in 1 .. Len(stack) \/ i = Len(stack) + 1
    BY <2>3
  <2> QED BY <2>1, <2>3, <2>4 DEF Once, LoadedOnce
<1>4. CASE Finish
  <2>s. PICK s : s = Top.script
    OBVIOUS
  <2>1. /\ stack # <<>> /\ stack' = Popped /\ completions' = Append(completions, s)
        /\ loaded' = [loaded EXCEPT ![s] = Top.id]
        /\ loaded \in [Scripts -> Nat] /\ completions \in Seq(Scripts)
    BY <1>4, <2>s DEF Finish, Running, Typed, TypedReport
  <2>2. /\ Len(stack) \in Nat \ {0} /\ s = stack[Len(stack)].script
        /\ s \in Scripts /\ Top.id # 0
    BY <2>s, <2>1, StackFacts DEF FrameType, Top
  <2>3. /\ Len(stack') = Len(stack) - 1
        /\ \A i \in 1 .. Len(stack) - 1 : stack'[i] = stack[i]
    BY <2>1, PoppedFacts
  <2>4. /\ loaded'[s] # 0 /\ loaded[s] = 0
        /\ \A r \in Scripts : r # s => loaded'[r] = loaded[r]
    BY <2>1, <2>2 DEF Once
  <2>5. ASSUME NEW i \in 1 .. Len(stack')
        PROVE  loaded'[stack'[i].script] = 0
    <3>1. i \in 1 .. Len(stack) /\ i # Len(stack) /\ stack'[i] = stack[i]
      BY <2>2, <2>3
    <3>2. stack[i].script # s
      BY <2>2, <3>1 DEF NoLoadInsideItself
    <3>3. stack[i].script \in Scripts /\ loaded[stack[i].script] = 0
      BY <3>1, FrameFacts DEF Once
    <3> QED BY <2>4, <3>1, <3>2, <3>3
  <2>n. PICK n : n = Len(completions)
    OBVIOUS
  <2>6. /\ n \in Nat /\ Len(completions') = n + 1
        /\ completions'[n + 1] = s
        /\ \A i \in 1 .. n : /\ completions'[i] = completions[i]
                             /\ completions[i] \in Scripts
                             /\ loaded[completions[i]] # 0
    BY <2>n, <2>1, <2>2, AppendProperties, ElementOfSeq DEF Once
  <2>7. \A i \in 1 .. n + 1 : i \in 1 .. n \/ i = n + 1
    BY <2>6
  <2>8. /\ \A i \in 1 .. n : completions'[i] # s
        /\ \A i, j \in 1 .. n : completions'[i] = completions'[j] => i = j
    BY <2>n, <2>4, <2>6 DEF Once, LoadedOnce
  <2>9. LoadedOnce'
    <3> SUFFICES ASSUME NEW i \in 1 .. n + 1, NEW j \in 1 .. n + 1,
                        completions'[i] = completions'[j]
                 PROVE  i = j
      BY <2>6 DEF LoadedOnce
    <3> QED BY <2>6, <2>7, <2>8
  <2>10. \A i \in 1 .. n + 1 : loaded'[completions'[i]] # 0
    BY <2>4, <2>6, <2>7
  <2> QED BY <2>5, <2>6, <2>9, <2>10 DEF Once
<1> QED BY <1>1, <1>2, <1>3, <1>4, LoadsChange

\* A file is run to its end once, by whatever paths it is reached and however
\* often its loads have failed, unless it is loaded for its own load (plugin.rs,
\* load_script with loaded_scripts).
THEOREM AlwaysLoadedOnce == Spec /\ []NoLoadInsideItself => []LoadedOnce
<1>1. Once => LoadedOnce
  BY DEF Once
<1> QED
  BY <1>1, TypedInit, TypedStep, TypedReportInit, TypedReportStep, OnceInit,
     OnceStep, PTL DEF Spec

\* The references of every text lead down in some ranking of the scripts.
LeadDown(rank) ==
    \A t \in Texts, s \in Scripts :
        \A i \in 1 .. Len(t[s].references) :
            LET p == AutoloadFor[t[s].references[i]] IN
            p # NoPath /\ Canonical[p] # NoPath => rank[Canonical[p]] < rank[s]

Descending(rank) ==
    /\ \A i, j \in 1 .. Len(stack) :
          i < j => rank[stack[j].script] < rank[stack[i].script]
    /\ stack # <<>> /\ call # NoPath /\ Canonical[call] # NoPath
         => rank[Canonical[call]] < rank[Top.script]

LEMMA CallChange ==
    ASSUME Typed, [Next]_vars
    PROVE  \/ Abandoned \/ Enter \/ Finish \/ Autoload
           \/ SameLoads /\ call' \in {call, NoPath}
           \/ SameLoads /\ stack = <<>>
<1>1. CASE Elsewhere
  BY <1>1 DEF Elsewhere, SameLoads
<1>2. CASE LoadStartupPlugins \/ SkipPlugin \/ AlreadyLoaded
  BY <1>2 DEF LoadStartupPlugins, SkipPlugin, AlreadyLoaded, SameLoads
<1>3. CASE LoadPlugin \/ (\E name \in DOMAIN Colors : LoadColorscheme(name))
  BY <1>3 DEF LoadPlugin, LoadColorscheme, AtRest, Idle, SameLoads
<1>4. CASE Begin \/ Assign \/ Guard \/ Evaluate \/ Resume
  BY <1>4 DEF Begin, Assign, Guard, Evaluate, Resume, SameLoads
<1>5. CASE SkipReference
  BY <1>5, NextReferenceFacts DEF SkipReference, SameLoads
<1>6. CASE Missing \/ Rejected \/ Undiscovered \/ Fail
  BY <1>6 DEF Missing, Rejected, Undiscovered, Fail, ReturnError, Abandoned
<1> QED
  BY <1>1, <1>2, <1>3, <1>4, <1>5, <1>6, EmbeddedStepsAreElsewhere
  DEF Next, LoadStep

LEMMA DescendingStep ==
    ASSUME NEW rank \in [Scripts -> Nat], LeadDown(rank)
    PROVE  Typed /\ Followed /\ Descending(rank) /\ [Next]_vars => Descending(rank)'
<1> SUFFICES ASSUME Typed, Followed, Descending(rank), [Next]_vars
             PROVE  Descending(rank)'
  OBVIOUS
<1>1. CASE Abandoned
  <2>1. stack' = <<>> /\ Len(stack') = 0
    BY <1>1 DEF Abandoned
  <2> QED BY <2>1 DEF Descending
<1>2. ASSUME SameLoads
      PROVE  /\ \A i, j \in 1 .. Len(stack') :
                   i < j => rank[stack'[j].script] < rank[stack'[i].script]
             /\ stack' # <<>> => stack # <<>> /\ Top'.script = Top.script
  <2>1. \A i, j \in 1 .. Len(stack') :
            i < j => rank[stack'[j].script] < rank[stack'[i].script]
    BY <1>2 DEF SameLoads, Descending
  <2>2. CASE stack = <<>>
    <3>1. Len(stack') = 0
      BY <1>2, <2>2 DEF SameLoads
    <3>2. stack' = <<>>
      BY <3>1, TypedStep, EmptySeq DEF Typed
    <3> QED BY <2>1, <3>2
  <2>3. CASE stack # <<>>
    <3>1. Len(stack) \in 1 .. Len(stack)
      BY <2>3, StackFacts
    <3> QED BY <1>2, <2>1, <2>3, <3>1 DEF SameLoads, Top
  <2> QED BY <2>1, <2>2, <2>3
<1>3. CASE SameLoads /\ (call' \in {call, NoPath} \/ stack = <<>>)
  BY <1>2, <1>3 DEF Descending
<1>4. CASE Autoload
  <2>p. PICK p : p = AutoloadFor[Head(Top.pending)]
    OBVIOUS
  <2>1. /\ AtReference /\ stack # <<>> /\ stack' = NextReference /\ call' = p
        /\ UNCHANGED <<text, loaded, sources>>
    BY <1>4, <2>p DEF Autoload, AtReference, Looking
  <2>2. SameLoads
    BY <2>1, NextReferenceFacts DEF SameLoads
  <2>d. PICK d : d = Len(stack)
    OBVIOUS
  <2>3. d \in 1 .. Len(stack) /\ Top = stack[d]
    BY <2>d, <2>1, StackFacts DEF Top
  <2>old. PICK old : old = Top.pending
    OBVIOUS
  <2>4. /\ Len(old) \in Nat \ {0} /\ Head(old) = old[1] /\ 1 \in 1 .. Len(old)
        /\ old = stack[d].pending
    <3>1. old \in Seq(Names) /\ old # <<>>
      BY <2>old, <2>1, <2>3, FrameFacts DEF AtReference
    <3> QED BY <2>old, <2>3, <3>1, EmptySeq
  <2>5. /\ Passed(d) \in Nat /\ old[1] = References(d)[Passed(d) + 1]
        /\ Passed(d) = Len(References(d)) - Len(old) /\ Len(References(d)) \in Nat
    <3>1. Following(d)
      BY <2>3 DEF Followed
    <3>2. Len(References(d)) \in Nat
      BY <2>3, FrameFacts
    <3>3. Passed(d) = Len(References(d)) - Len(old) /\ Passed(d) \in Nat
      BY <2>4, <3>1 DEF Following, Passed
    <3>4. old[1] = References(d)[Passed(d) + 1]
      BY <2>4, <3>1 DEF Following
    <3> QED BY <3>2, <3>3, <3>4
  <2>6. Passed(d) + 1 \in 1 .. Len(References(d))
    BY <2>4, <2>5
  <2>7. /\ p = AutoloadFor[References(d)[Passed(d) + 1]]
        /\ References(d) = text[Top.script].references /\ Top.script \in Scripts
    BY <2>p, <2>old, <2>1, <2>3, <2>4, <2>5, StackFacts DEF References
  <2>8. p # NoPath /\ Canonical[p] # NoPath => rank[Canonical[p]] < rank[Top.script]
    BY <2>6, <2>7 DEF LeadDown, Typed
  <2> QED BY <1>2, <2>1, <2>2, <2>8 DEF Descending
<1>5. CASE Enter
  <2>f. PICK f : f = [script |-> Canonical[call], id |-> NewId,
                      pending |-> text[Canonical[call]].references]
    OBVIOUS
  <2>1. /\ stack' = Append(stack, f) /\ f.script = Canonical[call] /\ call' = NoPath
        /\ call # NoPath /\ Canonical[call] # NoPath
    BY <1>5, <2>f DEF Enter
  <2>2. f \in FrameType /\ f.script \in Scripts
    BY <1>5, <2>f, LoaderAssumption DEF Enter, NewId, Typed, FrameType
  <2>n. PICK n : n = Len(stack)
    OBVIOUS
  <2>3. /\ Len(stack') = n + 1 /\ n \in Nat
        /\ \A i \in 1 .. n : /\ stack'[i] = stack[i]
                             /\ stack[i].script \in Scripts
        /\ stack'[n + 1] = f
    BY <2>n, <2>1, <2>2, FrameFacts, AppendProperties DEF Typed
  <2>4. ASSUME NEW i \in 1 .. n
        PROVE  rank[f.script] < rank[stack[i].script]
    <3>1. n \in 1 .. n /\ Top = stack[n] /\ stack # <<>>
      BY <2>n, <2>3 DEF Top
    <3>2. rank[f.script] < rank[stack[n].script]
      BY <2>1, <3>1 DEF Descending
    <3>3. i = n \/ rank[stack[n].script] < rank[stack[i].script]
      BY <2>n, <2>3, <3>1 DEF Descending
    <3>4. /\ rank[f.script] \in Nat /\ rank[stack[n].script] \in Nat
          /\ rank[stack[i].script] \in Nat
      BY <2>2, <2>3, <3>1
    <3> QED BY <3>2, <3>3, <3>4
  <2>5. \A i \in 1 .. n + 1 : i \in 1 .. n \/ i = n + 1
    BY <2>3
  <2>6. ASSUME NEW i \in 1 .. n + 1, NEW j \in 1 .. n + 1, i < j
        PROVE  rank[stack'[j].script] < rank[stack'[i].script]
    <3>1. i \in 1 .. n
      BY <2>3, <2>6
    <3>2. CASE j = n + 1
      BY <2>3, <2>4, <3>1, <3>2
    <3>3. CASE j \in 1 .. n
      BY <2>n, <2>3, <2>6, <3>1, <3>3 DEF Descending
    <3> QED BY <2>5, <3>2, <3>3
  <2> QED BY <2>1, <2>3, <2>6 DEF Descending
<1>6. CASE Finish
  <2>1. stack # <<>> /\ stack' = Popped /\ call' = NoPath
    BY <1>6 DEF Finish, Running, Typed
  <2>2. /\ Len(stack) \in Nat \ {0} /\ Len(stack') = Len(stack) - 1
        /\ \A i \in 1 .. Len(stack') : stack'[i] = stack[i] /\ i \in 1 .. Len(stack)
    BY <2>1, StackFacts, PoppedFacts
  <2> QED BY <2>1, <2>2 DEF Descending
<1> QED BY <1>1, <1>3, <1>4, <1>5, <1>6, CallChange

\* When no chain of references leads back to a script, no script is loaded for
\* its own load, whatever fails and whatever has been loaded before (plugin.rs,
\* load_script calls itself for each reference).
THEOREM NoLoadInsideItselfWithoutCycles ==
    ASSUME NEW rank \in [Scripts -> Nat], LeadDown(rank)
    PROVE  Spec => []NoLoadInsideItself
<1>1. Init => Descending(rank)
  <2> SUFFICES ASSUME Init PROVE stack = <<>> /\ Len(stack) = 0
    BY DEF Descending
  <2> QED BY DEF Init
<1>2. Typed /\ Followed /\ Descending(rank) /\ [Next]_vars => Descending(rank)'
  BY DescendingStep
<1>3. Typed /\ Descending(rank) => NoLoadInsideItself
  <2> SUFFICES ASSUME Typed, Descending(rank),
                      NEW i \in 1 .. Len(stack), NEW j \in 1 .. Len(stack), i # j
               PROVE  stack[i].script # stack[j].script
    BY DEF NoLoadInsideItself
  <2>1. /\ rank[stack[i].script] \in Nat /\ rank[stack[j].script] \in Nat
        /\ i \in Nat /\ j \in Nat
    BY FrameFacts
  <2>2. \/ rank[stack[j].script] < rank[stack[i].script]
        \/ rank[stack[i].script] < rank[stack[j].script]
    BY <2>1 DEF Descending
  <2> QED BY <2>1, <2>2
<1> QED
  BY <1>1, <1>2, <1>3, TypedInit, TypedStep, FollowedInit, FollowedStep, PTL DEF Spec

\* So, without such a chain, a file is run to its end once.
COROLLARY LoadedOnceWithoutCycles ==
    ASSUME NEW rank \in [Scripts -> Nat], LeadDown(rank)
    PROVE  Spec => []LoadedOnce
BY NoLoadInsideItselfWithoutCycles, AlwaysLoadedOnce, PTL
===============================================================================
