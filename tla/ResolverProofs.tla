--------------------------- MODULE ResolverProofs ---------------------------
(***************************************************************************)
(* For every vocabulary and every script: the ids of the resolver refer to *)
(* what exists, the slots it gives are those of a call frame, references   *)
(* reach their variables, and constants are set once.                      *)
(***************************************************************************)
EXTENDS Resolver, FiniteSetTheorems, SequenceTheorems, TLAPS

\* Every scope's path ends in the scope, and holds the paths of the scopes it
\* is in.
Paths ==
    \A s \in ScopeIds : LET p == scopes[s].path IN
        /\ Len(p) >= 1
        /\ p[Len(p)] = s
        /\ Len(p) = 1 => scopes[s].kind = "Script"
        /\ \A k \in 1 .. Len(p) :
               /\ Len(scopes[p[k]].path) = k
               /\ \A j \in 1 .. k : scopes[p[k]].path[j] = p[j]

\* Function scopes are those of the functions, one each.
Bodies ==
    /\ \A f \in FunctionIds : Callable(functions[f].scope)
    /\ \A f, g \in FunctionIds : functions[f].scope = functions[g].scope => f = g
    /\ ~Callable(Script)

\* The function scopes around the walk are those of functions on the stack.
OpenAround ==
    \A k \in 1 .. Len(Path) : Callable(Path[k]) =>
        \E m \in 1 .. Len(function_stack) : functions[function_stack[m]].scope = Path[k]

Earlier(owner, i) == {j \in Slotted(owner) : j < i}

\* A slot is the number of the owner's earlier symbols.
SlotsCount ==
    \A i \in SymbolIds : symbols[i].kind \in SlotKinds =>
        symbols[i].slot = Cardinality(Earlier(symbols[i].owner, i))

\* A function that has ended has counted all its symbols.
EndedIsCounted ==
    \A f \in FunctionIds : ~Open(f) =>
        functions[f].local_count = Cardinality(Slotted(functions[f].scope))

\* Parameters come before every other symbol of the function.
ParametersFirst ==
    /\ \A i, j \in SymbolIds :
           /\ symbols[i].kind = "Parameter" /\ j < i
           /\ symbols[j].owner = symbols[i].owner /\ symbols[j].kind \in SlotKinds
           => symbols[j].kind = "Parameter"
    /\ in_parameters =>
           /\ Callable(current_scope)
           /\ \A i \in SymbolIds :
                  symbols[i].owner = current_scope => symbols[i].kind = "Parameter"

-----------------------------------------------------------------------------
(* Sequences and names.                                                    *)

\* A sequence with one more element.
LEMMA Appended ==
    ASSUME NEW S, NEW s \in Seq(S), NEW x \in S
    PROVE  /\ Append(s, x) \in Seq(S)
           /\ Len(Append(s, x)) = Len(s) + 1
           /\ \A i \in 1 .. Len(s) : Append(s, x)[i] = s[i]
           /\ Append(s, x)[Len(s) + 1] = x
  BY AppendProperties

\* An interval with one more element.
LEMMA OneMore ==
    ASSUME NEW a \in Nat, NEW b \in Nat, b = a \/ b = a + 1
    PROVE  \A i \in 1 .. b : i \in 1 .. a \/ (b = a + 1 /\ i = a + 1)
  OBVIOUS

\* A scope's table knows every name that is looked up in it.
LEMMA NamesKnown ==
    ASSUME NEW n \in Written
    PROVE  /\ n \in Names
           /\ n.scope \in Prefixes
           /\ Name("a", n.name) \in Names
           /\ Name("l", n.name) \in Names
<1>1. "a" \in OfFrame /\ "l" \in OfFrame
  BY DEF OfFrame
<1> QED  BY <1>1, ResolverAssumption DEF Names, ResolverAssumption

LEMMA ScriptNames ==
    /\ Version \in Names
    /\ \A p \in Parameters : Name("a", p) \in Names
    /\ \A i \in 1 .. Len(Builtins) : Plain(Builtins[i]) \in Names
<1>1. Version \in Names
  BY DEF Names
<1>2. \A p \in Parameters : Name("a", p) \in Names
  BY DEF Names, Arguments
<1>3. \A i \in 1 .. Len(Builtins) : Plain(Builtins[i]) \in Names
  BY DEF Names
<1> QED  BY <1>1, <1>2, <1>3

-----------------------------------------------------------------------------
(* Type correctness.                                                       *)

LEMMA PathFacts ==
    ASSUME TypeOK
    PROVE  /\ Path \in Seq(Nat)
           /\ \A k \in 1 .. Len(Path) : Path[k] \in ScopeIds
           /\ scopes[current_scope] \in ScopeType
<1>1. /\ scopes \in Seq(ScopeType) /\ current_scope \in 1 .. Len(scopes)
      /\ \A k \in 1 .. Len(Path) : Path[k] \in ScopeIds
  BY DEF TypeOK, IdsExist, ScopeIds, Path
<1>2. scopes[current_scope] \in ScopeType
  BY <1>1, ElementOfSeq
<1>3. Path \in Seq(Nat)
  BY <1>2 DEF ScopeType, Path
<1> QED  BY <1>1, <1>2, <1>3

\* A declaration in a function goes to a scope around it.
LEMMA CallableOrFacts ==
    ASSUME TypeOK, NEW o \in ScopeIds
    PROVE  /\ CallableOr(o) \in ScopeIds
           /\ \/ CallableOr(o) = o
              \/ \E k \in 1 .. Len(Path) : CallableOr(o) = Path[k] /\ Callable(Path[k])
<1> DEFINE Last1(i) == Callable(Path[i]) /\ \A j \in i + 1 .. Len(Path) : ~Callable(Path[j])
<1>1. CASE \E i \in 1 .. Len(Path) : Last1(i)
  <2>1. PICK i \in 1 .. Len(Path) : CallableOr(o) = (IF Path[i] = None THEN o ELSE Path[i])
                                    /\ Last1(i)
    BY <1>1 DEF CallableOr, Innermost
  <2> QED  BY <2>1, PathFacts
<1>2. CASE ~\E i \in 1 .. Len(Path) : Last1(i)
  BY <1>2 DEF CallableOr, Innermost
<1> QED  BY <1>1, <1>2

LEMMA TableFacts ==
    ASSUME TypeOK, NEW s \in ScopeIds, NEW n \in Names
    PROVE  scopes[s].table[n] \in SymbolIds \cup {None}
  BY DEF TypeOK, IdsExist

LEMMA CandidatesFacts ==
    ASSUME TypeOK, NEW s \in ScopeIds, NEW n \in Written
    PROVE  Candidates(s, n) \in SymbolIds \cup {None}
  BY TableFacts, NamesKnown DEF Candidates

LEMMA ScriptIsScope == TypeOK => Script \in ScopeIds /\ current_scope \in ScopeIds
  BY DEF TypeOK, IdsExist, ScopeIds, Script

LEMMA QualifiedFacts ==
    ASSUME TypeOK, NEW n
    PROVE  /\ QualifiedScope(n) \in ScopeIds
           /\ DeclaringScope(n) \in ScopeIds
  BY CallableOrFacts, ScriptIsScope DEF QualifiedScope, DeclaringScope

LEMMA FoundFacts ==
    ASSUME TypeOK, NEW n \in Written
    PROVE  Found(n) \in SymbolIds \cup {None}
<1>1. CASE n.scope # "unqualified"
  BY <1>1, QualifiedFacts, TableFacts, NamesKnown DEF Found
<1>2. CASE n.scope = "unqualified"
  <2> DEFINE Known(i) == /\ Candidates(Path[i], n) # None
                         /\ \A j \in i + 1 .. Len(Path) : ~(Candidates(Path[j], n) # None)
  <2>1. CASE \E i \in 1 .. Len(Path) : Known(i)
    <3>1. PICK i \in 1 .. Len(Path) :
              Found(n) = (IF Path[i] = None THEN None ELSE Candidates(Path[i], n))
      BY <1>2, <2>1 DEF Found, Innermost
    <3> QED  BY <3>1, PathFacts, CandidatesFacts
  <2>2. CASE ~\E i \in 1 .. Len(Path) : Known(i)
    BY <1>2, <2>2 DEF Found, Innermost
  <2> QED  BY <2>1, <2>2
<1> QED  BY <1>1, <1>2

LEMMA CurrentFacts ==
    ASSUME TypeOK
    PROVE  /\ Current \in FunctionIds \cup {None}
           /\ Current # None => Len(function_stack) > 0
                                /\ Current = function_stack[Len(function_stack)]
<1>1. function_stack # <<>> => Len(function_stack) > 0
  BY DEF TypeOK
<1> QED  BY <1>1 DEF TypeOK, IdsExist, Current, Last

LEMMA SlottedFinite ==
    ASSUME TypeOK, NEW owner
    PROVE  /\ IsFiniteSet(Slotted(owner))
           /\ Cardinality(Slotted(owner)) \in Nat
<1>1. Len(symbols) \in Nat
  BY DEF TypeOK
<1>2. IsFiniteSet(1 .. Len(symbols))
  BY <1>1, FS_Interval
<1>3. Slotted(owner) \in SUBSET (1 .. Len(symbols))
  BY DEF Slotted
<1> QED  BY <1>2, <1>3, FS_Subset, FS_CardinalityType

LEMMA NewSymbolType ==
    ASSUME TypeOK, NEW o \in ScopeIds, NEW n \in Names, NEW k \in SlotKinds, NEW m \in BOOLEAN
    PROVE  NewSymbol(o, n, k, m) \in SymbolType
  BY SlottedFinite DEF NewSymbol, Symbol, SymbolType, ScopeIds, TypeOK

\* What define_in does to the symbols.
LEMMA SymbolAdded ==
    ASSUME TypeOK, NEW x \in SymbolType, NEW syms, syms = Append(symbols, x)
    PROVE  /\ syms \in Seq(SymbolType)
           /\ Len(syms) = NewId
           /\ \A i \in SymbolIds : syms[i] = symbols[i]
           /\ syms[NewId] = x
  BY Appended DEF TypeOK, NewId, SymbolIds

\* What define_in does to the scopes.
LEMMA EnteredFacts ==
    ASSUME TypeOK, NEW o \in ScopeIds, NEW n \in Names
    PROVE  /\ Entered(o, n) \in Seq(ScopeType)
           /\ Len(Entered(o, n)) = Len(scopes)
           /\ \A s \in ScopeIds :
                  /\ Entered(o, n)[s].path = scopes[s].path
                  /\ Entered(o, n)[s].kind = scopes[s].kind
                  /\ \A x \in Names : Entered(o, n)[s].table[x] =
                         IF s = o /\ x = n THEN NewId ELSE scopes[s].table[x]
<1> DEFINE t == [scopes[o].table EXCEPT ![n] = NewId]
           y == [scopes[o] EXCEPT !.table = t]
<1>1. scopes[o] \in ScopeType /\ NewId \in Nat
  BY ElementOfSeq DEF TypeOK, ScopeIds, NewId
<1>2. t \in [Names -> Nat] /\ \A z \in Names : t[z] = IF z = n THEN NewId ELSE scopes[o].table[z]
  BY <1>1 DEF ScopeType
<1>3. y \in ScopeType /\ y.path = scopes[o].path /\ y.kind = scopes[o].kind /\ y.table = t
  <2> HIDE DEF t
  <2> QED  BY <1>1, <1>2 DEF ScopeType
<1>4. Entered(o, n) = [scopes EXCEPT ![o] = y]
  BY DEF Entered
<1>5. scopes \in Seq(ScopeType) /\ o \in 1 .. Len(scopes)
  BY DEF TypeOK, ScopeIds
<1> HIDE DEF y, t
<1>6. [scopes EXCEPT ![o] = y] \in Seq(ScopeType) /\ Len([scopes EXCEPT ![o] = y]) = Len(scopes)
  BY <1>3, <1>5, ExceptSeq
<1>7. \A s \in ScopeIds : [scopes EXCEPT ![o] = y][s] = IF s = o THEN y ELSE scopes[s]
  BY <1>5 DEF ScopeIds
<1> QED  BY <1>2, <1>3, <1>4, <1>6, <1>7

\* What push_scope does to the scopes sc, which hold those of the state.
LEMMA Opened ==
    ASSUME TypeOK, NEW sc \in Seq(ScopeType), NEW kind \in {"Function", "Block"}
    PROVE  LET new == Pushed(sc, kind)
           IN  /\ new \in Seq(ScopeType)
               /\ Len(new) = Len(sc) + 1
               /\ \A s \in 1 .. Len(sc) : new[s] = sc[s]
               /\ new[Len(sc) + 1].path = Append(Path, Len(sc) + 1)
               /\ new[Len(sc) + 1].kind = kind
               /\ \A n \in Names : new[Len(sc) + 1].table[n] = None
<1> DEFINE x == [path |-> Append(Path, Len(sc) + 1), kind |-> kind, table |-> NoNames]
<1>1. Append(Path, Len(sc) + 1) \in Seq(Nat)
  BY PathFacts
<1>2. NoNames \in [Names -> Nat] /\ \A n \in Names : NoNames[n] = None
  BY DEF NoNames, None
<1>3. x \in ScopeType
  BY <1>1, <1>2 DEF ScopeType
<1>4. x.path = Append(Path, Len(sc) + 1) /\ x.kind = kind /\ x.table = NoNames
  OBVIOUS
<1>5. Pushed(sc, kind) = Append(sc, x)
  BY DEF Pushed
<1> HIDE DEF x
<1> QED  BY <1>2, <1>3, <1>4, <1>5, Appended

-----------------------------------------------------------------------------
(* What a step does.                                                       *)

\* A step enters no symbol or one: sc are the scopes then.
Enters(sc) ==
    \/ sc = scopes /\ symbols' = symbols
    \/ \E o \in ScopeIds, n \in Names, k \in SlotKinds, m \in BOOLEAN :
           /\ symbols' = Append(symbols, NewSymbol(o, n, k, m))
           /\ sc = Entered(o, n)
           /\ Callable(o) => \E j \in 1 .. Len(Path) : Path[j] = o
           /\ k = "Parameter" => in_parameters /\ o = current_scope
           /\ in_parameters' => k = "Parameter" \/ ~Callable(o) \/ scopes' # sc

FunctionsKept ==
    /\ functions' \in Seq(FunctionType)
    /\ Len(functions') = Len(functions)
    /\ \A f \in FunctionIds :
           /\ functions'[f].scope = functions[f].scope
           /\ functions'[f].local_count = functions[f].local_count
           /\ \A k \in 1 .. Len(functions'[f].captures) :
                  functions'[f].captures[k] \in SymbolIds

Stays ==
    /\ Enters(scopes')
    /\ FunctionsKept
    /\ in_parameters' \in BOOLEAN /\ (in_parameters' => in_parameters)
    /\ UNCHANGED <<current_scope, function_stack>>

Begins == \E sc :
    /\ Enters(sc)
    /\ scopes' = Pushed(sc, "Function")
    /\ functions' = Append(functions, [scope |-> Len(scopes) + 1, captures |-> <<>>,
                                       local_count |-> 0])
    /\ function_stack' = Append(function_stack, Len(functions) + 1)
    /\ current_scope' = Len(scopes) + 1
    /\ in_parameters' = TRUE

\* What bindings, declarations and diagnostics may become.
Notes ==
    /\ \/ bindings' = bindings
       \/ \E s \in 1 .. Len(symbols') :
              bindings' = bindings \cup {[within |-> Current, symbol |-> s]}
    /\ \/ declarations' = declarations
       \/ \E s \in 1 .. Len(symbols') :
              declarations' = Append(declarations, [within |-> Current, symbol |-> s])
    /\ diagnostics' \subseteq {"R001", "R002", "R003"}

LEMMA KeptFunctions == TypeOK /\ UNCHANGED functions => FunctionsKept
  BY DEF TypeOK, IdsExist, FunctionsKept, FunctionIds

\* Symbols stay, and there may be one more.
LEMMA NewIdExists ==
    ASSUME TypeOK, NEW o \in ScopeIds, NEW n \in Names, NEW k \in SlotKinds,
           NEW m \in BOOLEAN, symbols' = Append(symbols, NewSymbol(o, n, k, m))
    PROVE  NewId \in 1 .. Len(symbols') /\ Len(symbols') = NewId
<1>1. NewId \in Nat /\ NewId >= 1
  BY DEF NewId, TypeOK
<1> QED  BY <1>1, NewSymbolType, SymbolAdded

\* A use of a name changes no scope but by the symbol it makes up.
LEMMA UseShape ==
    ASSUME TypeOK, NEW n \in Written, Use(n), ~Callable(Script)
    PROVE  Stays /\ Notes
<1>1. CASE UseKnown(n)
  <2> DEFINE s == Found(n)
  <2>1. s \in SymbolIds
    BY <1>1, FoundFacts DEF UseKnown
  <2>2. FunctionsKept
    <3>1. CASE ~Captures(s)
      BY <1>1, <3>1, KeptFunctions DEF UseKnown
    <3>2. CASE Captures(s)
      <4>1. Current \in FunctionIds
        BY <3>2, CurrentFacts DEF Captures
      <4>2. functions[Current] \in FunctionType /\ functions \in Seq(FunctionType)
        BY <4>1, ElementOfSeq DEF TypeOK, FunctionIds
      <4> DEFINE c == Append(functions[Current].captures, s)
                 g == [functions[Current] EXCEPT !.captures = c]
      <4>3. /\ c \in Seq(Nat)
            /\ \A k \in 1 .. Len(c) : c[k] \in SymbolIds
        <5>1. functions[Current].captures \in Seq(Nat) /\ s \in Nat
          BY <2>1, <4>2 DEF FunctionType, SymbolIds
        <5>2. \A k \in 1 .. Len(functions[Current].captures) :
                  functions[Current].captures[k] \in SymbolIds
          BY <4>1 DEF TypeOK, IdsExist
        <5> HIDE DEF s
        <5> QED  BY <5>1, <5>2, <2>1
      <4>4. /\ g \in FunctionType /\ g.scope = functions[Current].scope
            /\ g.local_count = functions[Current].local_count /\ g.captures = c
        <5> HIDE DEF c
        <5> QED  BY <4>2, <4>3 DEF FunctionType
      <4>5. functions' = [functions EXCEPT ![Current] = g]
        BY <1>1, <3>2 DEF UseKnown
      <4> HIDE DEF g, c
      <4>6. functions' \in Seq(FunctionType) /\ Len(functions') = Len(functions)
        BY <4>1, <4>2, <4>4, <4>5, ExceptSeq DEF FunctionIds
      <4>7. \A f \in FunctionIds : functions'[f] = IF f = Current THEN g ELSE functions[f]
        BY <4>2, <4>5 DEF FunctionIds
      <4> QED  BY <4>3, <4>4, <4>6, <4>7 DEF FunctionsKept, TypeOK, IdsExist
    <3> QED  BY <3>1, <3>2
  <2>3. Stays
    BY <1>1, <2>2 DEF UseKnown, Stays, Enters, TypeOK
  <2>4. Notes
    BY <1>1, <2>1 DEF UseKnown, Notes, Bind, SymbolIds, TypeOK
  <2> QED  BY <2>3, <2>4
<1>2. CASE UseMadeUp(n)
  <2>1. PICK m \in Names, k \in SlotKinds \ {"Parameter"}, b \in BOOLEAN :
            MadeUp(n) = <<m, k, b>>
    <3>1. MadeUp(n) # <<>>
      BY <1>2 DEF UseMadeUp
    <3> QED  BY <3>1, NamesKnown, ScriptNames DEF MadeUp, SlotKinds
  <2>2. DefineIn(Script, m, k, b)
    BY <1>2, <2>1 DEF UseMadeUp
  <2>3. Script \in ScopeIds /\ k \in SlotKinds
    BY ScriptIsScope
  <2>4. Enters(scopes')
    BY <2>2, <2>3 DEF Enters, DefineIn
  <2>5. Stays
    BY <1>2, <2>4, KeptFunctions DEF UseMadeUp, Stays, TypeOK
  <2>6. NewId \in 1 .. Len(symbols')
    BY <2>2, <2>3, NewIdExists DEF DefineIn
  <2>7. Notes
    BY <1>2, <2>6 DEF UseMadeUp, Notes, Bind, TypeOK
  <2> QED  BY <2>5, <2>7
<1>3. CASE UseUnknown(n)
  BY <1>3, KeptFunctions DEF UseUnknown, Stays, Notes, Enters, TypeOK
<1> QED  BY <1>1, <1>2, <1>3 DEF Use

\* A declaration goes to the script or to a scope around the walk.
LEMMA DeclaringFacts ==
    ASSUME TypeOK, Paths, ~Callable(Script), NEW n, NEW o, o = DeclaringScope(n)
    PROVE  /\ o \in ScopeIds
           /\ Callable(o) => \E j \in 1 .. Len(Path) : Path[j] = o
<1>1. o \in ScopeIds
  BY QualifiedFacts
<1>2. o = Script \/ o = CallableOr(Script) \/ o = CallableOr(current_scope)
  BY DEF DeclaringScope
<1>3. /\ CallableOr(Script) = Script
         \/ \E j \in 1 .. Len(Path) : CallableOr(Script) = Path[j]
      /\ CallableOr(current_scope) = current_scope
         \/ \E j \in 1 .. Len(Path) : CallableOr(current_scope) = Path[j]
  BY CallableOrFacts, ScriptIsScope
<1>4. Path[Len(Path)] = current_scope /\ Len(Path) \in 1 .. Len(Path)
  BY ScriptIsScope, PathFacts DEF Paths, Path
<1> QED  BY <1>1, <1>2, <1>3, <1>4

\* A declaration of a name that the owner's scope knows.
LEMMA KnownFacts ==
    ASSUME TypeOK, NEW n \in Written
    PROVE  scopes[DeclaringScope(n)].table[n] \in SymbolIds \cup {None}
  BY QualifiedFacts, TableFacts, NamesKnown

LEMMA AssignShape ==
    ASSUME TypeOK, Paths, ~Callable(Script), NEW n \in Written, NEW c \in BOOLEAN,
           Assign(n, c)
    PROVE  Stays /\ Notes
<1> DEFINE o == DeclaringScope(n)
           s == scopes[o].table[n]
<1>1. FunctionsKept
  BY KeptFunctions DEF Assign
<1>2. CASE s # None
  <2>1. s \in SymbolIds
    BY <1>2, KnownFacts
  <2>2. UNCHANGED <<scopes, symbols>> /\ Declare(s) /\ diagnostics' = diagnostics \cup Complaint(s, c)
    BY <1>2 DEF Assign
  <2>3. Stays
    BY <1>1, <2>2 DEF Assign, Stays, Enters
  <2>4. Notes
    BY <2>1, <2>2 DEF Assign, Declare, Notes, Complaint, SymbolIds, TypeOK
  <2> QED  BY <2>3, <2>4
<1>3. CASE s = None
  <2>1. DefineIn(o, n, "Variable", ~c) /\ Declare(NewId) /\ UNCHANGED diagnostics
    BY <1>3 DEF Assign
  <2>2. /\ o \in ScopeIds /\ n \in Names
        /\ Callable(o) => \E j \in 1 .. Len(Path) : Path[j] = o
    BY DeclaringFacts, NamesKnown
  <2>3. Enters(scopes')
    <3>1. "Variable" \in SlotKinds /\ in_parameters' = FALSE
      BY DEF SlotKinds, Assign
    <3>2. (~c) \in BOOLEAN
      OBVIOUS
    <3> HIDE DEF o
    <3> QED  BY <2>1, <2>2, <3>1, <3>2 DEF Enters, DefineIn
  <2>4. Stays
    BY <1>1, <2>3 DEF Assign, Stays
  <2>5. NewId \in 1 .. Len(symbols')
    BY <2>1, <2>2, NewIdExists DEF DefineIn, SlotKinds
  <2>6. Notes
    BY <2>1, <2>5 DEF Assign, Declare, Notes, TypeOK
  <2> QED  BY <2>4, <2>6
<1> QED  BY <1>2, <1>3

LEMMA ParameterShape ==
    ASSUME TypeOK, Paths, ~Callable(Script), NEW p \in Parameters, Parameter(p)
    PROVE  Stays /\ Notes
<1> DEFINE n == Name("a", p)
<1>1. FunctionsKept
  BY KeptFunctions DEF Parameter
<1>2. Notes
  BY DEF Parameter, Notes, TypeOK
<1>3. CASE UNCHANGED <<scopes, symbols>>
  BY <1>1, <1>2, <1>3 DEF Parameter, Stays, Enters
<1>4. CASE DefineIn(current_scope, n, "Parameter", TRUE)
  <2>1. current_scope \in ScopeIds /\ n \in Names /\ "Parameter" \in SlotKinds
    BY ScriptIsScope, ScriptNames DEF SlotKinds
  <2>2. \E j \in 1 .. Len(Path) : Path[j] = current_scope
    BY <2>1, PathFacts DEF Paths, Path
  <2>3. Enters(scopes')
    <3> HIDE DEF n
    <3> QED  BY <1>4, <2>1, <2>2 DEF Enters, DefineIn, Parameter
  <2> QED  BY <1>1, <1>2, <2>3 DEF Parameter, Stays
<1> QED  BY <1>3, <1>4 DEF Parameter

LEMMA BeginShape ==
    ASSUME TypeOK, Paths, ~Callable(Script), NEW n \in Written, BeginFunction(n)
    PROVE  Begins /\ Notes
<1> DEFINE o == DeclaringScope(n)
           s == scopes[o].table[n]
<1>1. CASE s # None
  <2>1. s \in SymbolIds
    BY <1>1, KnownFacts
  <2>2. Declare(s) /\ scopes' = Pushed(scopes, "Function") /\ UNCHANGED symbols
        /\ diagnostics' = diagnostics \cup {"R002"}
    BY <1>1 DEF BeginFunction
  <2>3. Enters(scopes)
    BY <2>2 DEF Enters
  <2>4. Begins
    BY <2>2, <2>3 DEF Begins, BeginFunction
  <2>5. Notes
    BY <2>1, <2>2 DEF BeginFunction, Declare, Notes, SymbolIds, TypeOK
  <2> QED  BY <2>4, <2>5
<1>2. CASE s = None
  <2>1. /\ Declare(NewId) /\ symbols' = Append(symbols, NewSymbol(o, n, "Function", FALSE))
        /\ scopes' = Pushed(Entered(o, n), "Function") /\ UNCHANGED diagnostics
    BY <1>2 DEF BeginFunction
  <2>2. /\ o \in ScopeIds /\ n \in Names /\ "Function" \in SlotKinds
        /\ Callable(o) => \E j \in 1 .. Len(Path) : Path[j] = o
    BY DeclaringFacts, NamesKnown DEF SlotKinds
  <2>3. scopes' # Entered(o, n)
    <3>1. Entered(o, n) \in Seq(ScopeType)
      BY <2>2, EnteredFacts
    <3>2. Len(scopes') = Len(Entered(o, n)) + 1
      BY <2>1, <3>1, Opened
    <3> QED  BY <3>1, <3>2
  <2>4. Enters(Entered(o, n))
    <3> HIDE DEF o
    <3> QED  BY <2>1, <2>2, <2>3 DEF Enters
  <2>5. Begins
    <3> DEFINE sc == Entered(o, n)
    <3>1. /\ Enters(sc) /\ scopes' = Pushed(sc, "Function")
      BY <2>1, <2>4
    <3> HIDE DEF sc
    <3> QED  BY <3>1 DEF Begins, BeginFunction
  <2>6. NewId \in 1 .. Len(symbols')
    BY <2>1, <2>2, NewIdExists
  <2>7. Notes
    BY <2>1, <2>6 DEF BeginFunction, Declare, Notes, TypeOK
  <2> QED  BY <2>5, <2>7
<1> QED  BY <1>1, <1>2

\* Every step is of one of five shapes.
LEMMA Shapes ==
    ASSUME TypeOK, Paths, ~Callable(Script), Next
    PROVE  Notes /\ (Stays \/ Begins \/ OpenBlock \/ CloseBlock \/ EndFunction)
<1> USE DEF Written
<1>1. ASSUME NEW n \in Written, Use(n) PROVE Stays /\ Notes
  BY <1>1, UseShape
<1>2. ASSUME NEW n \in Variables, NEW c \in BOOLEAN, Assign(n, c) PROVE Stays /\ Notes
  BY <1>2, AssignShape
<1>3. ASSUME NEW n \in FunctionNames, BeginFunction(n) PROVE Begins /\ Notes
  BY <1>3, BeginShape
<1>4. ASSUME NEW p \in Parameters, Parameter(p) PROVE Stays /\ Notes
  BY <1>4, ParameterShape
<1>5. OpenBlock \/ CloseBlock \/ EndFunction => Notes
  BY DEF OpenBlock, CloseBlock, EndFunction, Notes, TypeOK
<1> QED  BY <1>1, <1>2, <1>3, <1>4, <1>5 DEF Next, Walk

-----------------------------------------------------------------------------
(* What every step keeps.                                                  *)

\* The scopes sc and the symbols after a symbol was entered, or none.
LEMMA EntersFacts ==
    ASSUME TypeOK, NEW sc, Enters(sc)
    PROVE  /\ sc \in Seq(ScopeType)
           /\ Len(sc) = Len(scopes)
           /\ \A s \in ScopeIds :
                  /\ sc[s].path = scopes[s].path
                  /\ sc[s].kind = scopes[s].kind
                  /\ \A n \in Names : sc[s].table[n] \in 1 .. Len(symbols') \cup {None}
           /\ symbols' \in Seq(SymbolType)
           /\ Len(symbols') >= Len(symbols)
           /\ \A i \in SymbolIds : symbols'[i] = symbols[i]
           /\ \A i \in 1 .. Len(symbols') : symbols'[i].owner \in ScopeIds
<1>1. CASE sc = scopes /\ symbols' = symbols
  BY <1>1 DEF TypeOK, IdsExist, ScopeIds, SymbolIds
<1>2. ASSUME NEW o \in ScopeIds, NEW n \in Names, NEW k \in SlotKinds, NEW m \in BOOLEAN,
             symbols' = Append(symbols, NewSymbol(o, n, k, m)), sc = Entered(o, n)
      PROVE  /\ sc \in Seq(ScopeType)
             /\ Len(sc) = Len(scopes)
             /\ \A s \in ScopeIds :
                    /\ sc[s].path = scopes[s].path
                    /\ sc[s].kind = scopes[s].kind
                    /\ \A x \in Names : sc[s].table[x] \in 1 .. Len(symbols') \cup {None}
             /\ symbols' \in Seq(SymbolType)
             /\ Len(symbols') >= Len(symbols)
             /\ \A i \in SymbolIds : symbols'[i] = symbols[i]
             /\ \A i \in 1 .. Len(symbols') : symbols'[i].owner \in ScopeIds
  <2> DEFINE added == NewSymbol(o, n, k, m)
  <2>1. added.owner = o
    BY DEF NewSymbol, Symbol
  <2>2. /\ symbols' \in Seq(SymbolType) /\ Len(symbols') = NewId
        /\ \A i \in SymbolIds : symbols'[i] = symbols[i]
        /\ symbols'[NewId] = added
    <3>1. symbols' = Append(symbols, added) /\ added \in SymbolType
      BY <1>2, NewSymbolType
    <3> HIDE DEF added
    <3> QED  BY <3>1, SymbolAdded, ZenonT(40)
  <2>6. sc = Entered(o, n)
    BY <1>2
  <2>3. Len(symbols) \in Nat /\ NewId = Len(symbols) + 1
    BY DEF TypeOK, NewId
  <2> HIDE DEF added
  <2>4. \A i \in 1 .. Len(symbols') : symbols'[i].owner \in ScopeIds
    <3>1. \A i \in 1 .. Len(symbols') : i \in SymbolIds \/ i = NewId
      BY <2>2, <2>3 DEF SymbolIds
    <3> QED  BY <2>1, <2>2, <3>1 DEF TypeOK, IdsExist
  <2>5. /\ Entered(o, n) \in Seq(ScopeType) /\ Len(Entered(o, n)) = Len(scopes)
        /\ \A s \in ScopeIds :
               /\ Entered(o, n)[s].path = scopes[s].path
               /\ Entered(o, n)[s].kind = scopes[s].kind
               /\ \A y \in Names : Entered(o, n)[s].table[y] \in 1 .. Len(symbols') \cup {None}
    <3>1. NewId \in 1 .. Len(symbols') /\ SymbolIds \subseteq 1 .. Len(symbols')
      BY <2>2, <2>3 DEF SymbolIds
    <3>2. \A s \in ScopeIds : \A y \in Names :
              scopes[s].table[y] \in 1 .. Len(symbols') \cup {None}
      BY <3>1 DEF TypeOK, IdsExist
    <3>3. \A s \in ScopeIds : \A y \in Names :
              Entered(o, n)[s].table[y] \in {NewId, scopes[s].table[y]}
      BY EnteredFacts
    <3>4. \A s \in ScopeIds : \A y \in Names :
              Entered(o, n)[s].table[y] \in 1 .. Len(symbols') \cup {None}
      BY <3>1, <3>2, <3>3
    <3>5. /\ Entered(o, n) \in Seq(ScopeType) /\ Len(Entered(o, n)) = Len(scopes)
          /\ \A s \in ScopeIds :
                 /\ Entered(o, n)[s].path = scopes[s].path
                 /\ Entered(o, n)[s].kind = scopes[s].kind
      BY EnteredFacts
    <3> QED  BY <3>4, <3>5
  <2> QED  BY <2>6, <2>2, <2>3, <2>4, <2>5
<1> QED  BY <1>1, <1>2 DEF Enters

\* Scopes and symbols are only added, one at a time.
Grows ==
    /\ scopes' \in Seq(ScopeType)
    /\ symbols' \in Seq(SymbolType)
    /\ Len(symbols') >= Len(symbols)
    /\ \A s \in ScopeIds : /\ scopes'[s].path = scopes[s].path
                           /\ scopes'[s].kind = scopes[s].kind
                           /\ \A n \in Names :
                                  scopes'[s].table[n] \in 1 .. Len(symbols') \cup {None}
    /\ \A i \in SymbolIds : symbols'[i] = symbols[i]
    /\ \A i \in 1 .. Len(symbols') : symbols'[i].owner \in ScopeIds
    /\ \/ Len(scopes') = Len(scopes)
       \/ LET new == Len(scopes) + 1
          IN  /\ Len(scopes') = new
              /\ scopes'[new].path = Append(Path, new)
              /\ scopes'[new].kind # "Script"
              /\ \A n \in Names : scopes'[new].table[n] = None

LEMMA PushedGrows ==
    ASSUME TypeOK, NEW sc, Enters(sc), NEW kind \in {"Function", "Block"},
           scopes' = Pushed(sc, kind)
    PROVE  Grows /\ Len(scopes') = Len(scopes) + 1 /\ scopes'[Len(scopes) + 1].kind = kind
<1>1. /\ sc \in Seq(ScopeType)
      /\ Len(sc) = Len(scopes)
      /\ \A s \in ScopeIds :
             /\ sc[s].path = scopes[s].path
             /\ sc[s].kind = scopes[s].kind
             /\ \A n \in Names : sc[s].table[n] \in 1 .. Len(symbols') \cup {None}
      /\ symbols' \in Seq(SymbolType)
      /\ Len(symbols') >= Len(symbols)
      /\ \A i \in SymbolIds : symbols'[i] = symbols[i]
      /\ \A i \in 1 .. Len(symbols') : symbols'[i].owner \in ScopeIds
  BY EntersFacts
<1>2. /\ scopes' \in Seq(ScopeType)
      /\ Len(scopes') = Len(sc) + 1
      /\ \A s \in 1 .. Len(sc) : scopes'[s] = sc[s]
      /\ scopes'[Len(sc) + 1].path = Append(Path, Len(sc) + 1)
      /\ scopes'[Len(sc) + 1].kind = kind
      /\ \A n \in Names : scopes'[Len(sc) + 1].table[n] = None
  BY <1>1, Opened, SMTT(40)
<1> QED  BY <1>1, <1>2 DEF Grows, ScopeIds

LEMMA StepGrows ==
    ASSUME TypeOK, Stays \/ Begins \/ OpenBlock \/ CloseBlock \/ EndFunction
    PROVE  Grows
<1>1. CASE Stays
  BY <1>1, EntersFacts DEF Stays, Grows
<1>2. CASE Begins
  BY <1>2, PushedGrows DEF Begins
<1>3. CASE OpenBlock
  <2>1. Enters(scopes) /\ scopes' = Pushed(scopes, "Block")
    BY <1>3 DEF OpenBlock, Enters
  <2> QED  BY <2>1, PushedGrows
<1>4. CASE CloseBlock \/ EndFunction
  <2>1. Enters(scopes')
    BY <1>4 DEF CloseBlock, EndFunction, Enters
  <2> QED  BY <2>1, EntersFacts DEF Grows
<1> QED  BY <1>1, <1>2, <1>3, <1>4

\* The stack without its last function.
LEMMA Popped ==
    ASSUME TypeOK, Len(function_stack) > 0, NEW t,
           t = SubSeq(function_stack, 1, Len(function_stack) - 1)
    PROVE  /\ t \in Seq(Nat)
           /\ Len(t) \in Nat /\ Len(t) = Len(function_stack) - 1
           /\ \A i \in 1 .. Len(t) : i \in 1 .. Len(function_stack) /\ t[i] = function_stack[i]
<1> DEFINE n == Len(function_stack) - 1
<1>1. Len(function_stack) \in Nat /\ n \in Nat /\ 1 \in Int /\ n \in Int
      /\ function_stack \in Seq(Nat)
  BY DEF TypeOK
<1>2. \A i \in 1 .. n : i \in 1 .. Len(function_stack) /\ function_stack[i] \in Nat
  BY <1>1, ElementOfSeq
<1>3. t = SubSeq(function_stack, 1, n)
  OBVIOUS
<1> HIDE DEF n
<1>4. n - 1 + 1 = n /\ (IF 1 <= n THEN n - 1 + 1 ELSE 0) = n
  BY <1>1
<1>5. /\ t \in Seq(Nat)
      /\ Len(t) = IF 1 <= n THEN n - 1 + 1 ELSE 0
      /\ \A i \in 1 .. n - 1 + 1 : t[i] = function_stack[1 + i - 1]
  BY <1>1, <1>2, <1>3, SubSeqProperties
<1>6. \A i \in 1 .. n : t[i] = function_stack[i]
  BY <1>1, <1>4, <1>5
<1> QED  BY <1>1, <1>2, <1>4, <1>5, <1>6 DEF n

\* The end of a function writes its local_count.
LEMMA EndFacts ==
    ASSUME TypeOK, EndFunction
    PROVE  /\ Current \in FunctionIds
           /\ functions' \in Seq(FunctionType)
           /\ Len(functions') = Len(functions)
           /\ \A f \in FunctionIds :
                  /\ functions'[f].scope = functions[f].scope
                  /\ functions'[f].captures = functions[f].captures
                  /\ functions'[f].local_count =
                         IF f = Current THEN Cardinality(Slotted(functions[f].scope))
                         ELSE functions[f].local_count
<1> DEFINE c == Cardinality(Slotted(current_scope))
           g == [functions[Current] EXCEPT !.local_count = c]
<1>1. Current \in FunctionIds /\ functions[Current].scope = current_scope
  BY CurrentFacts DEF EndFunction
<1>2. functions[Current] \in FunctionType /\ functions \in Seq(FunctionType)
  BY <1>1, ElementOfSeq DEF TypeOK, FunctionIds
<1>3. c \in Nat
  BY SlottedFinite
<1>4. functions' = [functions EXCEPT ![Current] = g]
  BY DEF EndFunction
<1>5. /\ g \in FunctionType /\ g.scope = functions[Current].scope
      /\ g.captures = functions[Current].captures /\ g.local_count = c
  <2> HIDE DEF c
  <2> QED  BY <1>2, <1>3 DEF FunctionType
<1> HIDE DEF g
<1>6. functions' \in Seq(FunctionType) /\ Len(functions') = Len(functions)
  BY <1>1, <1>2, <1>4, <1>5, ExceptSeq DEF FunctionIds
<1>7. \A f \in FunctionIds : functions'[f] = IF f = Current THEN g ELSE functions[f]
  BY <1>2, <1>4 DEF FunctionIds
<1> QED  BY <1>1, <1>5, <1>6, <1>7

\* A new function is the last one.
LEMMA BeginFacts ==
    ASSUME TypeOK, Begins
    PROVE  /\ functions' \in Seq(FunctionType)
           /\ Len(functions') = Len(functions) + 1
           /\ \A f \in FunctionIds : functions'[f] = functions[f]
           /\ functions'[Len(functions) + 1].scope = Len(scopes) + 1
           /\ functions'[Len(functions) + 1].captures = <<>>
           /\ function_stack' \in Seq(Nat)
           /\ Len(function_stack') = Len(function_stack) + 1
           /\ \A m \in 1 .. Len(function_stack) : function_stack'[m] = function_stack[m]
           /\ function_stack'[Len(function_stack) + 1] = Len(functions) + 1
<1> DEFINE g == [scope |-> Len(scopes) + 1, captures |-> <<>>, local_count |-> 0]
<1>1. /\ functions' = Append(functions, g)
      /\ function_stack' = Append(function_stack, Len(functions) + 1)
  BY DEF Begins
<1>2. functions \in Seq(FunctionType) /\ function_stack \in Seq(Nat)
      /\ Len(functions) + 1 \in Nat /\ Len(scopes) + 1 \in Nat
  BY DEF TypeOK
<1>3. g \in FunctionType /\ g.scope = Len(scopes) + 1 /\ g.captures = <<>>
  BY <1>2 DEF FunctionType
<1> HIDE DEF g
<1>4. /\ functions' \in Seq(FunctionType)
      /\ Len(functions') = Len(functions) + 1
      /\ \A f \in FunctionIds : functions'[f] = functions[f]
      /\ functions'[Len(functions) + 1] = g
  BY <1>1, <1>2, <1>3, Appended DEF FunctionIds
<1>5. /\ function_stack' \in Seq(Nat)
      /\ Len(function_stack') = Len(function_stack) + 1
      /\ \A m \in 1 .. Len(function_stack) : function_stack'[m] = function_stack[m]
      /\ function_stack'[Len(function_stack) + 1] = Len(functions) + 1
  BY <1>1, <1>2, Appended
<1> QED  BY <1>3, <1>4, <1>5

\* The scope around the current one, when there is one.
LEMMA OuterFacts ==
    ASSUME TypeOK, Paths, scopes[current_scope].kind # "Script"
    PROVE  /\ Len(Path) \in Nat /\ Len(Path) > 1
           /\ Outer \in ScopeIds
           /\ Len(scopes[Outer].path) = Len(Path) - 1
           /\ \A j \in 1 .. Len(Path) - 1 : scopes[Outer].path[j] = Path[j]
<1>1. Path \in Seq(Nat) /\ \A k \in 1 .. Len(Path) : Path[k] \in ScopeIds
  BY PathFacts
<1>2. /\ Len(Path) >= 1 /\ Len(Path) # 1
      /\ \A k \in 1 .. Len(Path) : /\ Len(scopes[Path[k]].path) = k
                                  /\ \A j \in 1 .. k : scopes[Path[k]].path[j] = Path[j]
  BY ScriptIsScope DEF Paths, Path
<1>3. Len(Path) \in Nat
  BY <1>1
<1>4. Len(Path) > 1 /\ Len(Path) - 1 \in 1 .. Len(Path)
  <2>1. ASSUME NEW a \in Nat, a >= 1, a # 1 PROVE a > 1 /\ a - 1 \in 1 .. a
    BY <2>1
  <2> QED  BY <1>2, <1>3, <2>1
<1> QED  BY <1>1, <1>2, <1>3, <1>4 DEF Outer

\* Functions and their captures, after every step.
FunctionsGrow ==
    /\ functions' \in Seq(FunctionType)
    /\ Len(functions') >= Len(functions)
    /\ \A f \in 1 .. Len(functions') :
           /\ functions'[f].scope \in 1 .. Len(scopes')
           /\ \A k \in 1 .. Len(functions'[f].captures) :
                  functions'[f].captures[k] \in 1 .. Len(symbols')

LEMMA StepFunctions ==
    ASSUME TypeOK, Stays \/ Begins \/ OpenBlock \/ CloseBlock \/ EndFunction
    PROVE  FunctionsGrow
<1>1. /\ Len(scopes) \in Nat /\ Len(scopes') \in Nat /\ Len(scopes') >= Len(scopes)
      /\ Len(symbols) \in Nat /\ Len(symbols') \in Nat /\ Len(symbols') >= Len(symbols)
      /\ Len(functions) \in Nat
  BY StepGrows DEF Grows, TypeOK
<1>2. \A f \in 1 .. Len(functions) :
         /\ functions[f].scope \in 1 .. Len(scopes')
         /\ \A k \in 1 .. Len(functions[f].captures) :
                functions[f].captures[k] \in 1 .. Len(symbols')
  BY <1>1 DEF TypeOK, IdsExist, FunctionIds, ScopeIds, SymbolIds
<1>3. CASE Stays
  <2>1. FunctionsKept
    BY <1>3 DEF Stays
  <2>2. functions' \in Seq(FunctionType) /\ Len(functions') = Len(functions)
    BY <2>1 DEF FunctionsKept
  <2>3. ASSUME NEW f \in 1 .. Len(functions')
        PROVE  /\ functions'[f].scope \in 1 .. Len(scopes')
               /\ \A k \in 1 .. Len(functions'[f].captures) :
                      functions'[f].captures[k] \in 1 .. Len(symbols')
    <3>1. f \in 1 .. Len(functions) /\ f \in FunctionIds
      BY <2>2, <2>3 DEF FunctionIds
    <3>2. /\ functions'[f].scope = functions[f].scope
          /\ \A k \in 1 .. Len(functions'[f].captures) :
                 functions'[f].captures[k] \in SymbolIds
      BY <2>1, <3>1 DEF FunctionsKept
    <3>3. \A i \in SymbolIds : i \in 1 .. Len(symbols')
      BY <1>1 DEF SymbolIds
    <3> QED  BY <1>2, <3>1, <3>2, <3>3
  <2> QED  BY <1>1, <2>2, <2>3 DEF FunctionsGrow
<1>4. CASE Begins
  <2>1. Len(scopes') = Len(scopes) + 1
    BY <1>4, PushedGrows DEF Begins
  <2>2. \A f \in 1 .. Len(functions') : f \in FunctionIds \/ f = Len(functions) + 1
    BY <1>1, <1>4, BeginFacts DEF FunctionIds
  <2>3. Len(scopes) + 1 \in 1 .. Len(scopes')
    BY <1>1, <2>1
  <2>4. \A f \in FunctionIds :
           /\ functions'[f].scope \in 1 .. Len(scopes')
           /\ \A k \in 1 .. Len(functions'[f].captures) :
                  functions'[f].captures[k] \in 1 .. Len(symbols')
    BY <1>2, <1>4, BeginFacts DEF FunctionIds
  <2>5. LET f == Len(functions) + 1 IN
           /\ functions'[f].scope \in 1 .. Len(scopes')
           /\ \A k \in 1 .. Len(functions'[f].captures) :
                  functions'[f].captures[k] \in 1 .. Len(symbols')
    BY <1>4, <2>3, BeginFacts
  <2>6. functions' \in Seq(FunctionType) /\ Len(functions') >= Len(functions)
    BY <1>1, <1>4, BeginFacts
  <2>7. \A f \in 1 .. Len(functions') :
           /\ functions'[f].scope \in 1 .. Len(scopes')
           /\ \A k \in 1 .. Len(functions'[f].captures) :
                  functions'[f].captures[k] \in 1 .. Len(symbols')
    BY <2>2, <2>4, <2>5
  <2> QED  BY <2>6, <2>7 DEF FunctionsGrow
<1>5. CASE OpenBlock \/ CloseBlock
  BY <1>1, <1>2, <1>5 DEF OpenBlock, CloseBlock, FunctionsGrow, TypeOK
<1>6. CASE EndFunction
  <2>1. functions' \in Seq(FunctionType) /\ Len(functions') = Len(functions)
    BY <1>6, EndFacts
  <2>2. ASSUME NEW f \in 1 .. Len(functions')
        PROVE  /\ functions'[f].scope \in 1 .. Len(scopes')
               /\ \A k \in 1 .. Len(functions'[f].captures) :
                      functions'[f].captures[k] \in 1 .. Len(symbols')
    <3>1. f \in 1 .. Len(functions)
      BY <2>1, <2>2
    <3>2. /\ functions'[f].scope = functions[f].scope
          /\ functions'[f].captures = functions[f].captures
      BY <1>6, <3>1, EndFacts DEF FunctionIds
    <3> QED  BY <1>2, <3>1, <3>2
  <2> QED  BY <1>1, <2>1, <2>2 DEF FunctionsGrow
<1> QED  BY <1>3, <1>4, <1>5, <1>6

LEMMA TypeStep ==
    ASSUME TypeOK, Paths, Bodies, Next
    PROVE  TypeOK'
<1> DEFINE Exists(r) == /\ r.within \in 1 .. Len(functions') \cup {None}
                      /\ r.symbol \in 1 .. Len(symbols')
<1>1. Notes /\ (Stays \/ Begins \/ OpenBlock \/ CloseBlock \/ EndFunction)
  BY Shapes DEF Bodies
<1>2. Grows /\ FunctionsGrow
  BY <1>1, StepGrows, StepFunctions
<1>3. /\ Len(scopes) \in Nat /\ Len(scopes') \in Nat /\ Len(scopes') >= Len(scopes)
      /\ Len(symbols) \in Nat /\ Len(symbols') \in Nat /\ Len(symbols') >= Len(symbols)
      /\ Len(functions) \in Nat /\ Len(functions') \in Nat
      /\ Len(functions') >= Len(functions)
  BY <1>2 DEF Grows, FunctionsGrow, TypeOK
<1>4. /\ ScopeIds \subseteq 1 .. Len(scopes') /\ SymbolIds \subseteq 1 .. Len(symbols')
      /\ FunctionIds \subseteq 1 .. Len(functions')
  BY <1>3 DEF ScopeIds, SymbolIds, FunctionIds
<1>5. \A s \in 1 .. Len(scopes') :
         /\ \A k \in 1 .. Len(scopes'[s].path) : scopes'[s].path[k] \in 1 .. Len(scopes')
         /\ \A n \in Names : scopes'[s].table[n] \in 1 .. Len(symbols') \cup {None}
  <2>1. ASSUME NEW s \in ScopeIds
        PROVE  /\ \A k \in 1 .. Len(scopes'[s].path) : scopes'[s].path[k] \in 1 .. Len(scopes')
               /\ \A n \in Names : scopes'[s].table[n] \in 1 .. Len(symbols') \cup {None}
    BY <1>2, <1>4 DEF Grows, TypeOK, IdsExist
  <2>2. ASSUME Len(scopes') = Len(scopes) + 1
        PROVE  LET s == Len(scopes) + 1 IN
               /\ \A k \in 1 .. Len(scopes'[s].path) : scopes'[s].path[k] \in 1 .. Len(scopes')
               /\ \A n \in Names : scopes'[s].table[n] \in 1 .. Len(symbols') \cup {None}
    <3>1. /\ scopes'[Len(scopes) + 1].path = Append(Path, Len(scopes) + 1)
          /\ \A n \in Names : scopes'[Len(scopes) + 1].table[n] = None
      BY <1>2, <1>3, <2>2 DEF Grows
    <3>2. Path \in Seq(Nat) /\ \A k \in 1 .. Len(Path) : Path[k] \in 1 .. Len(scopes')
      BY <1>4, PathFacts
    <3>3. Len(scopes) + 1 \in 1 .. Len(scopes')
      BY <1>3, <2>2
    <3> QED  BY <3>1, <3>2, <3>3
  <2>3. \A s \in 1 .. Len(scopes') :
            s \in ScopeIds \/ (Len(scopes') = Len(scopes) + 1 /\ s = Len(scopes) + 1)
    <3>1. Len(scopes') = Len(scopes) \/ Len(scopes') = Len(scopes) + 1
      BY <1>2 DEF Grows
    <3> QED  BY <1>3, <3>1, OneMore DEF ScopeIds
  <2> QED  BY <2>1, <2>2, <2>3
<1>6. bindings' \subseteq ReferenceType /\ \A b \in bindings' : Exists(b)
  <2> SUFFICES ASSUME NEW b \in bindings'
               PROVE  b \in ReferenceType /\ Exists(b)
    OBVIOUS
  <2>1. CASE b \in bindings
    BY <1>4, <2>1 DEF TypeOK, IdsExist, Refers, FunctionIds, SymbolIds
  <2>2. CASE b \notin bindings
    <3>1. PICK s \in 1 .. Len(symbols') : b = [within |-> Current, symbol |-> s]
      BY <1>1, <2>2 DEF Notes
    <3>2. Current \in FunctionIds \cup {None}
      BY CurrentFacts
    <3> QED  BY <1>3, <1>4, <3>1, <3>2 DEF ReferenceType, None, FunctionIds, SymbolIds
  <2> QED  BY <2>1, <2>2
<1>7. /\ declarations' \in Seq(ReferenceType)
      /\ \A i \in 1 .. Len(declarations') : Exists(declarations'[i])
  <2>1. CASE declarations' = declarations
    BY <1>4, <2>1 DEF TypeOK, IdsExist, Refers, FunctionIds, SymbolIds
  <2>2. CASE \E s \in 1 .. Len(symbols') :
                 declarations' = Append(declarations, [within |-> Current, symbol |-> s])
    <3>1. PICK s \in 1 .. Len(symbols') :
                 declarations' = Append(declarations, [within |-> Current, symbol |-> s])
      BY <2>2
    <3> DEFINE d == [within |-> Current, symbol |-> s]
    <3>2. Current \in FunctionIds \cup {None}
      BY CurrentFacts
    <3>3. d \in ReferenceType /\ Exists(d)
      BY <1>3, <1>4, <3>2 DEF ReferenceType, None, FunctionIds, SymbolIds
    <3>4. declarations' = Append(declarations, d) /\ declarations \in Seq(ReferenceType)
      BY <3>1 DEF TypeOK
    <3> HIDE DEF d
    <3>5. /\ declarations' \in Seq(ReferenceType) /\ Len(declarations') = Len(declarations) + 1
          /\ \A i \in 1 .. Len(declarations) : declarations'[i] = declarations[i]
          /\ declarations'[Len(declarations) + 1] = d
      BY <3>3, <3>4, Appended
    <3>6. \A i \in 1 .. Len(declarations) : Exists(declarations[i])
      BY <1>4 DEF TypeOK, IdsExist, Refers, FunctionIds, SymbolIds
    <3>7. \A i \in 1 .. Len(declarations') :
              i \in 1 .. Len(declarations) \/ i = Len(declarations) + 1
      BY <3>4, <3>5
    <3> QED  BY <3>3, <3>5, <3>6, <3>7
  <2> QED  BY <1>1, <2>1, <2>2 DEF Notes
<1>8. /\ current_scope' \in 1 .. Len(scopes')
      /\ function_stack' \in Seq(Nat)
      /\ \A m \in 1 .. Len(function_stack') : function_stack'[m] \in 1 .. Len(functions')
      /\ in_parameters' \in BOOLEAN
  <2>1. /\ current_scope \in 1 .. Len(scopes') /\ in_parameters \in BOOLEAN
        /\ function_stack \in Seq(Nat)
        /\ \A m \in 1 .. Len(function_stack) : function_stack[m] \in 1 .. Len(functions')
    BY <1>4, ScriptIsScope DEF TypeOK, IdsExist
  <2>2. CASE Stays
    BY <2>1, <2>2 DEF Stays
  <2>3. CASE Begins
    <3>1. Len(scopes') = Len(scopes) + 1 /\ current_scope' = Len(scopes) + 1 /\ in_parameters' = TRUE
      BY <2>3, PushedGrows DEF Begins
    <3>2. Len(functions') = Len(functions) + 1
      BY <2>3, BeginFacts
    <3>3. /\ function_stack' \in Seq(Nat)
          /\ \A m \in 1 .. Len(function_stack) : function_stack'[m] = function_stack[m]
          /\ function_stack'[Len(function_stack) + 1] = Len(functions) + 1
          /\ Len(function_stack') = Len(function_stack) + 1
      BY <2>3, BeginFacts
    <3>4. \A m \in 1 .. Len(function_stack') :
              m \in 1 .. Len(function_stack) \/ m = Len(function_stack) + 1
      BY <2>1, <3>3
    <3>5. \A m \in 1 .. Len(function_stack') : function_stack'[m] \in 1 .. Len(functions')
      <4>1. Len(functions) \in Nat /\ Len(functions) + 1 \in 1 .. Len(functions')
        BY <3>2 DEF TypeOK
      <4>2. ASSUME NEW m \in 1 .. Len(function_stack)
            PROVE  function_stack'[m] \in 1 .. Len(functions')
        BY <2>1, <3>3, <4>2
      <4> QED  BY <3>3, <3>4, <4>1, <4>2
    <3>6. current_scope' \in 1 .. Len(scopes')
      <4>1. Len(scopes) \in Nat
        BY DEF TypeOK
      <4> QED  BY <3>1, <4>1
    <3>7. in_parameters' \in BOOLEAN
      BY <3>1
    <3> QED  BY <3>3, <3>5, <3>6, <3>7
  <2>4. CASE OpenBlock
    <3>1. Len(scopes') = Len(scopes) + 1
      BY <2>4, PushedGrows DEF OpenBlock, Enters
    <3>2. /\ current_scope' = Len(scopes) + 1 /\ in_parameters' = FALSE
          /\ function_stack' = function_stack
      BY <2>4 DEF OpenBlock
    <3>3. current_scope' \in 1 .. Len(scopes')
      BY <1>3, <3>1, <3>2
    <3> QED  BY <2>1, <3>2, <3>3
  <2>5. CASE CloseBlock
    <3>1. Outer \in 1 .. Len(scopes')
      BY <1>4, <2>5, OuterFacts DEF CloseBlock
    <3> QED  BY <2>1, <2>5, <3>1 DEF CloseBlock
  <2>6. CASE EndFunction
    <3>1. Current \in FunctionIds /\ current_scope = functions[Current].scope
      BY <2>6, EndFacts DEF EndFunction
    <3>2. Outer \in 1 .. Len(scopes')
      BY <1>4, <3>1, OuterFacts DEF Bodies, Callable
    <3>3. /\ function_stack' = SubSeq(function_stack, 1, Len(function_stack) - 1)
          /\ Len(function_stack) > 0
      BY <2>6, CurrentFacts DEF EndFunction
    <3>4. /\ function_stack' \in Seq(Nat)
          /\ \A m \in 1 .. Len(function_stack') :
                 m \in 1 .. Len(function_stack) /\ function_stack'[m] = function_stack[m]
      BY <3>3, Popped
    <3>5. current_scope' = Outer /\ Len(functions') = Len(functions) /\ in_parameters' = FALSE
      BY <2>6, EndFacts DEF EndFunction
    <3> QED  BY <2>1, <3>2, <3>4, <3>5
  <2> QED  BY <1>1, <2>2, <2>3, <2>4, <2>5, <2>6
<1>9. scopes' \in Seq(ScopeType) /\ symbols' \in Seq(SymbolType)
      /\ functions' \in Seq(FunctionType) /\ diagnostics' \subseteq {"R001", "R002", "R003"}
      /\ \A i \in 1 .. Len(symbols') : symbols'[i].owner \in 1 .. Len(scopes')
  BY <1>1, <1>2, <1>4 DEF Grows, FunctionsGrow, Notes
<1>10. IdsExist'
  BY <1>2, <1>5, <1>6, <1>7, <1>8, <1>9
     DEF IdsExist, Refers, FunctionsGrow, ScopeIds, SymbolIds, FunctionIds
<1> QED  BY <1>3, <1>6, <1>7, <1>8, <1>9, <1>10 DEF TypeOK

\* Scopes keep their paths, and the path of a new one is the path of the walk
\* and the scope itself.
LEMMA PathsStep ==
    ASSUME TypeOK, Paths, Grows
    PROVE  Paths'
<1> DEFINE Good(s) == LET p == scopes'[s].path IN
               /\ Len(p) >= 1
               /\ p[Len(p)] = s
               /\ Len(p) = 1 => scopes'[s].kind = "Script"
               /\ \A k \in 1 .. Len(p) :
                      /\ Len(scopes'[p[k]].path) = k
                      /\ \A j \in 1 .. k : scopes'[p[k]].path[j] = p[j]
<1>1. ASSUME NEW s \in ScopeIds PROVE Good(s)
  <2> DEFINE p == scopes[s].path
  <2>1. /\ Len(p) >= 1 /\ p[Len(p)] = s /\ (Len(p) = 1 => scopes[s].kind = "Script")
        /\ \A k \in 1 .. Len(p) : /\ Len(scopes[p[k]].path) = k
                                 /\ \A j \in 1 .. k : scopes[p[k]].path[j] = p[j]
    BY DEF Paths
  <2>2. \A k \in 1 .. Len(p) : p[k] \in ScopeIds
    BY DEF TypeOK, IdsExist
  <2>3. scopes'[s].path = p /\ scopes'[s].kind = scopes[s].kind
        /\ \A x \in ScopeIds : scopes'[x].path = scopes[x].path
    BY DEF Grows
  <2> HIDE DEF p
  <2> QED  BY <2>1, <2>2, <2>3
<1>2. ASSUME Len(scopes') = Len(scopes) + 1 PROVE Good(Len(scopes) + 1)
  <2> DEFINE new == Len(scopes) + 1
             p   == Append(Path, new)
  <2>1. scopes'[new].path = p /\ scopes'[new].kind # "Script"
    BY <1>2 DEF Grows, TypeOK
  <2>2. Path \in Seq(Nat) /\ Len(Path) \in Nat /\ Len(Path) >= 1 /\ new \in Nat
    BY PathFacts, ScriptIsScope DEF Paths, Path, TypeOK
  <2>3. /\ Len(p) = Len(Path) + 1 /\ p[Len(p)] = new
        /\ \A k \in 1 .. Len(Path) : p[k] = Path[k]
    <3> HIDE DEF new
    <3> QED  BY <2>2
  <2>4. ASSUME NEW k \in 1 .. Len(Path)
        PROVE  /\ Len(scopes'[p[k]].path) = k
               /\ \A j \in 1 .. k : scopes'[p[k]].path[j] = p[j]
    <3>1. Path[k] \in ScopeIds
      BY PathFacts
    <3>2. /\ Len(scopes[Path[k]].path) = k
          /\ \A j \in 1 .. k : scopes[Path[k]].path[j] = Path[j]
      BY ScriptIsScope DEF Paths, Path
    <3>3. scopes'[p[k]].path = scopes[Path[k]].path
      BY <2>3, <3>1 DEF Grows
    <3>4. \A j \in 1 .. k : j \in 1 .. Len(Path)
      BY <2>2
    <3> HIDE DEF p
    <3> QED  BY <2>3, <3>2, <3>3, <3>4
  <2>5. \A k \in 1 .. Len(p) : k \in 1 .. Len(Path) \/ k = Len(p)
    <3> HIDE DEF p
    <3> QED  BY <2>2, <2>3
  <2>6. Len(p) \in Nat /\ Len(p) >= 1 /\ Len(p) # 1
    <3> HIDE DEF p
    <3> QED  BY <2>2, <2>3
  <2> HIDE DEF p, new
  <2>7. \A k \in 1 .. Len(p) : /\ Len(scopes'[p[k]].path) = k
                              /\ \A j \in 1 .. k : scopes'[p[k]].path[j] = p[j]
    BY <2>1, <2>3, <2>4, <2>5
  <2>8. Good(new)
    BY <2>1, <2>3, <2>6, <2>7
  <2> QED  BY <2>8 DEF new
<1>3. \A s \in 1 .. Len(scopes') :
          s \in ScopeIds \/ (Len(scopes') = Len(scopes) + 1 /\ s = Len(scopes) + 1)
  <2>1. Len(scopes') = Len(scopes) \/ Len(scopes') = Len(scopes) + 1
    BY DEF Grows
  <2>2. Len(scopes) \in Nat /\ Len(scopes') \in Nat
    BY DEF Grows, TypeOK
  <2> QED  BY <2>1, <2>2, OneMore DEF ScopeIds
<1>4. \A s \in 1 .. Len(scopes') : Good(s)
  BY <1>1, <1>2, <1>3
<1> QED  BY <1>4 DEF Paths, ScopeIds

\* Functions keep their scopes, and a new function has a new one.
LEMMA BodiesStep ==
    ASSUME TypeOK, Bodies, Stays \/ Begins \/ OpenBlock \/ CloseBlock \/ EndFunction
    PROVE  Bodies'
<1>1. Grows /\ Len(scopes) \in Nat /\ Len(functions) \in Nat
  BY StepGrows DEF TypeOK
<1>2. \A f \in FunctionIds : functions[f].scope \in ScopeIds
  BY DEF TypeOK, IdsExist
<1>3. ~Callable(Script)'
  BY <1>1, ScriptIsScope DEF Bodies, Callable, Grows
<1>4. CASE \A f \in FunctionIds' : f \in FunctionIds /\ functions'[f].scope = functions[f].scope
  BY <1>1, <1>2, <1>3, <1>4 DEF Bodies, Callable, Grows
<1>5. CASE Begins
  <2> DEFINE g == Len(functions) + 1
             x == Len(scopes) + 1
  <2>1. scopes'[x].kind = "Function"
    BY <1>5, PushedGrows DEF Begins
  <2>2. \A f \in FunctionIds' : f \in FunctionIds \/ f = g
    BY <1>1, <1>5, BeginFacts, OneMore DEF FunctionIds
  <2>3. \A f \in FunctionIds : functions'[f].scope = functions[f].scope /\ functions[f].scope # x
    BY <1>1, <1>2, <1>5, BeginFacts DEF ScopeIds
  <2>4. functions'[g].scope = x
    BY <1>5, BeginFacts
  <2>5. \A f \in FunctionIds : scopes'[functions[f].scope].kind = "Function"
    BY <1>1, <1>2 DEF Bodies, Callable, Grows
  <2> HIDE DEF g, x
  <2> QED  BY <1>3, <2>1, <2>2, <2>3, <2>4, <2>5 DEF Bodies, Callable
<1>6. CASE Stays
  <2>1. \A f \in FunctionIds' : f \in FunctionIds /\ functions'[f].scope = functions[f].scope
    BY <1>6 DEF Stays, FunctionsKept, FunctionIds
  <2> QED  BY <1>4, <2>1
<1>7. CASE OpenBlock \/ CloseBlock
  <2>1. functions' = functions
    BY <1>7 DEF OpenBlock, CloseBlock
  <2> QED  BY <1>4, <2>1 DEF FunctionIds
<1>8. CASE EndFunction
  <2>1. \A f \in FunctionIds' : f \in FunctionIds /\ functions'[f].scope = functions[f].scope
    BY <1>8, EndFacts DEF FunctionIds
  <2> QED  BY <1>4, <2>1
<1> QED  BY <1>5, <1>6, <1>7, <1>8

\* The script's scope and the builtins.
LEMMA Starts ==
    ASSUME Init
    PROVE  TypeOK /\ Paths /\ Bodies /\ OpenAround
<1> USE DEF Init
<1>1. /\ symbols \in Seq(SymbolType) /\ Len(symbols) = Len(Builtins) /\ Len(Builtins) \in Nat
      /\ \A i \in SymbolIds : symbols[i].owner = Script
  <2> DEFINE b(i) == Symbol(Plain(Builtins[i]), "Builtin", FALSE, 0, Script)
  <2>1. Len(Builtins) \in Nat
    BY ResolverAssumption DEF ResolverAssumption
  <2>2. \A i \in 1 .. Len(Builtins) : b(i) \in SymbolType /\ b(i).owner = Script
    BY ScriptNames DEF Symbol, SymbolType, Script
  <2>3. symbols = [i \in 1 .. Len(Builtins) |-> b(i)]
    OBVIOUS
  <2> HIDE DEF b
  <2>4. symbols \in [1 .. Len(Builtins) -> SymbolType]
    BY <2>2, <2>3
  <2> HIDE DEF Init
  <2>5. symbols \in Seq(SymbolType) /\ Len(symbols) = Len(Builtins)
    BY <2>1, <2>4, LenProperties, SeqDef
  <2> QED  BY <2>1, <2>2, <2>3, <2>5 DEF SymbolIds
<1>2. /\ scopes \in Seq(ScopeType) /\ Len(scopes) = 1
      /\ scopes[1].path = <<1>> /\ scopes[1].kind = "Script"
      /\ \A n \in Names : scopes[1].table[n] \in SymbolIds \cup {None}
  <2> DEFINE t == [n \in Names |-> IF \E i \in 1 .. Len(Builtins) : n = Plain(Builtins[i])
                                  THEN CHOOSE i \in 1 .. Len(Builtins) : n = Plain(Builtins[i])
                                  ELSE None]
             s == [path |-> <<Script>>, kind |-> "Script", table |-> t]
  <2>1. \A n \in Names : t[n] \in SymbolIds \cup {None}
    BY <1>1 DEF SymbolIds
  <2>2. t \in [Names -> Nat]
    <3>1. t \in [Names -> SymbolIds \cup {None}]
      BY <2>1
    <3>2. SymbolIds \cup {None} \subseteq Nat
      BY DEF SymbolIds, None
    <3> HIDE DEF t
    <3> QED  BY <3>1, <3>2
  <2>3. scopes = <<s>>
    OBVIOUS
  <2> HIDE DEF t
  <2>4. s \in ScopeType /\ s.path = <<1>> /\ s.kind = "Script" /\ s.table = t
    BY <2>2 DEF ScopeType, Script
  <2> HIDE DEF s, Init
  <2> QED  BY <2>1, <2>3, <2>4
<1>3. functions \in Seq(FunctionType) /\ function_stack \in Seq(Nat)
      /\ declarations \in Seq(ReferenceType) /\ Len(functions) = 0
      /\ Len(function_stack) = 0 /\ Len(declarations) = 0
  OBVIOUS
<1>4. /\ bindings = {} /\ current_scope = 1 /\ function_stack = <<>> /\ diagnostics = {}
      /\ in_parameters = FALSE
  BY DEF Script
<1> HIDE DEF Init
<1>5. ScopeIds = {1} /\ FunctionIds = {}
  BY <1>2, <1>3 DEF ScopeIds, FunctionIds
<1>6. /\ Len(scopes[1].path) = 1 /\ scopes[1].path[1] = 1
  BY <1>2
<1>7. IdsExist
  <2>1. \A s \in ScopeIds : /\ \A k \in 1 .. Len(scopes[s].path) : scopes[s].path[k] \in ScopeIds
                           /\ \A n \in Names : scopes[s].table[n] \in SymbolIds \cup {None}
    BY <1>2, <1>5, <1>6
  <2>2. \A i \in SymbolIds : symbols[i].owner \in ScopeIds
    BY <1>1, <1>5 DEF Script
  <2>3. /\ \A i \in 1 .. Len(declarations) : Refers(declarations[i])
        /\ \A m \in 1 .. Len(function_stack) : function_stack[m] \in FunctionIds
    BY <1>3
  <2> QED  BY <1>4, <1>5, <2>1, <2>2, <2>3 DEF IdsExist
<1>8. TypeOK
  BY <1>1, <1>2, <1>3, <1>4, <1>7 DEF TypeOK
<1>9. Paths
  BY <1>2, <1>5, <1>6 DEF Paths
<1>10. Bodies /\ OpenAround
  BY <1>2, <1>3, <1>4, <1>5, <1>6 DEF Bodies, OpenAround, Callable, Path, Script
<1> QED  BY <1>8, <1>9, <1>10

\* No scope is twice on a path.
LEMMA PathIsOrdered ==
    ASSUME TypeOK, Paths, NEW k \in 1 .. Len(Path), NEW l \in 1 .. Len(Path), Path[k] = Path[l]
    PROVE  k = l
<1>1. Len(scopes[Path[k]].path) = k /\ Len(scopes[Path[l]].path) = l
  BY ScriptIsScope DEF Paths, Path
<1> QED  BY <1>1

LEMMA StackStep ==
    ASSUME TypeOK, Paths, Bodies, OpenAround, Grows,
           Stays \/ Begins \/ OpenBlock \/ CloseBlock \/ EndFunction
    PROVE  OpenAround'
<1> DEFINE body(m)  == functions[function_stack[m]].scope
           body2(m) == functions'[function_stack'[m]].scope
<1> SUFFICES ASSUME NEW k \in 1 .. Len(Path'), scopes'[Path'[k]].kind = "Function"
             PROVE  \E m \in 1 .. Len(function_stack') : body2(m) = Path'[k]
  BY DEF OpenAround, Callable
<1>1. /\ Path \in Seq(Nat) /\ Len(Path) \in Nat /\ Len(Path) >= 1
      /\ \A l \in 1 .. Len(Path) : Path[l] \in ScopeIds
  BY PathFacts, ScriptIsScope DEF Paths, Path
<1>2. /\ \A m \in 1 .. Len(function_stack) : function_stack[m] \in FunctionIds
      /\ function_stack \in Seq(Nat) /\ Len(function_stack) \in Nat
      /\ Len(scopes) \in Nat
  BY DEF TypeOK, IdsExist
<1>3. \A x \in ScopeIds : scopes'[x].path = scopes[x].path /\ scopes'[x].kind = scopes[x].kind
  BY DEF Grows
<1>4. current_scope \in ScopeIds /\ Path[Len(Path)] = current_scope
  BY ScriptIsScope DEF Paths, Path
<1>5. \A l \in 1 .. Len(Path) : scopes'[Path[l]].kind = "Function" =>
          \E m \in 1 .. Len(function_stack) : body(m) = Path[l]
  BY <1>1, <1>3 DEF OpenAround, Callable
<1>6. ASSUME Len(scopes') = Len(scopes) + 1, current_scope' = Len(scopes) + 1
      PROVE  \/ k \in 1 .. Len(Path) /\ Path'[k] = Path[k]
             \/ Path'[k] = Len(scopes) + 1
  <2> DEFINE new == Len(scopes) + 1
  <2>1. Path' = Append(Path, new)
    BY <1>2, <1>6 DEF Grows, Path
  <2>2. new \in Nat
    BY <1>2
  <2> HIDE DEF new
  <2>3. /\ Len(Path') = Len(Path) + 1 /\ Path'[Len(Path) + 1] = new
        /\ \A l \in 1 .. Len(Path) : Path'[l] = Path[l]
    BY <1>1, <2>1, <2>2, Appended
  <2>4. k \in 1 .. Len(Path) \/ k = Len(Path) + 1
    BY <1>1, <2>3, OneMore
  <2> QED  BY <2>3, <2>4 DEF new
<1>7. CASE Stays
  <2>1. Path' = Path /\ function_stack' = function_stack
    BY <1>3, <1>4, <1>7 DEF Stays, Path
  <2>2. \A m \in 1 .. Len(function_stack) : body2(m) = body(m)
    BY <1>2, <1>7, <2>1 DEF Stays, FunctionsKept
  <2> HIDE DEF body, body2
  <2> QED  BY <1>5, <2>1, <2>2
<1>8. CASE OpenBlock
  <2>1. /\ Len(scopes') = Len(scopes) + 1 /\ scopes'[Len(scopes) + 1].kind = "Block"
        /\ current_scope' = Len(scopes) + 1
    BY <1>8, PushedGrows DEF OpenBlock, Enters
  <2>2. function_stack' = function_stack /\ functions' = functions
    BY <1>8 DEF OpenBlock
  <2>3. k \in 1 .. Len(Path) /\ Path'[k] = Path[k]
    BY <1>6, <2>1
  <2> QED  BY <1>5, <2>2, <2>3
<1>9. CASE Begins
  <2>1. Len(scopes') = Len(scopes) + 1 /\ current_scope' = Len(scopes) + 1
    BY <1>9, PushedGrows DEF Begins
  <2>2. /\ Len(function_stack') = Len(function_stack) + 1
        /\ body2(Len(function_stack) + 1) = Len(scopes) + 1
        /\ \A m \in 1 .. Len(function_stack) : body2(m) = body(m)
    BY <1>2, <1>9, BeginFacts
  <2>3. /\ Len(function_stack) + 1 \in 1 .. Len(function_stack')
        /\ \A m \in 1 .. Len(function_stack) : m \in 1 .. Len(function_stack')
    BY <1>2, <2>2
  <2> HIDE DEF body, body2
  <2> QED  BY <1>5, <1>6, <2>1, <2>2, <2>3
<1>10. CASE CloseBlock \/ EndFunction
  <2>1. scopes[current_scope].kind # "Script"
    <3>1. CASE CloseBlock
      BY <3>1 DEF CloseBlock
    <3>2. CASE EndFunction
      BY <3>2, EndFacts DEF Bodies, Callable, EndFunction
    <3> QED  BY <1>10, <3>1, <3>2
  <2>2. /\ Len(Path) > 1 /\ Outer \in ScopeIds
        /\ Len(scopes[Outer].path) = Len(Path) - 1
        /\ \A j \in 1 .. Len(Path) - 1 : scopes[Outer].path[j] = Path[j]
    BY <2>1, OuterFacts
  <2>3. Path' = scopes[Outer].path
    BY <1>3, <1>10, <2>2 DEF CloseBlock, EndFunction, Path
  <2>4. k \in 1 .. Len(Path) /\ k # Len(Path) /\ Path'[k] = Path[k] /\ Len(Path) \in 1 .. Len(Path)
    BY <1>1, <2>2, <2>3
  <2>5. Path[k] # current_scope
    BY <1>4, <2>4, PathIsOrdered
  <2>6. PICK m \in 1 .. Len(function_stack) : body(m) = Path[k]
    BY <1>5, <2>4
  <2>7. CASE CloseBlock
    <3>1. function_stack' = function_stack /\ functions' = functions
      BY <2>7 DEF CloseBlock
    <3> QED  BY <2>4, <2>6, <3>1
  <2>8. CASE EndFunction
    <3>1. /\ Len(function_stack) > 0 /\ body(Len(function_stack)) = current_scope
          /\ function_stack' = SubSeq(function_stack, 1, Len(function_stack) - 1)
      BY <2>8, CurrentFacts DEF EndFunction
    <3> HIDE DEF body, body2
    <3>2. Len(function_stack') = Len(function_stack) - 1
          /\ \A i \in 1 .. Len(function_stack') : function_stack'[i] = function_stack[i]
      BY <3>1, Popped
    <3>3. m # Len(function_stack)
      BY <2>5, <2>6, <3>1
    <3>4. m \in 1 .. Len(function_stack')
      BY <1>2, <3>2, <3>3
    <3>5. body2(m) = body(m)
      BY <1>2, <2>8, <3>2, <3>4, EndFacts DEF body, body2
    <3> QED  BY <2>4, <2>6, <3>4, <3>5
  <2> QED  BY <1>10, <2>7, <2>8
<1> QED  BY <1>7, <1>8, <1>9, <1>10

-----------------------------------------------------------------------------
(* Slots.                                                                  *)

\* A step adds no symbol, or one of a scope that is the script's, a block's,
\* or around the walk.
Adds(o) ==
    /\ Len(symbols') = NewId
    /\ symbols'[NewId].owner = o
    /\ symbols'[NewId].kind \in SlotKinds
    /\ symbols'[NewId].slot = Cardinality(Slotted(o))
    /\ Callable(o) => \E j \in 1 .. Len(Path) : Path[j] = o
    /\ symbols'[NewId].kind = "Parameter" => in_parameters /\ o = current_scope
    /\ Stays /\ in_parameters' => symbols'[NewId].kind = "Parameter" \/ ~Callable(o)

LEMMA StepAdds ==
    ASSUME TypeOK, Stays \/ Begins \/ OpenBlock \/ CloseBlock \/ EndFunction
    PROVE  symbols' = symbols \/ \E o \in ScopeIds : Adds(o)
<1>1. \E sc : Enters(sc) /\ (Stays => sc = scopes')
  <2>1. CASE Stays
    BY <2>1 DEF Stays
  <2>2. CASE ~Stays
    BY <2>2 DEF Begins, OpenBlock, CloseBlock, EndFunction, Enters
  <2> QED  BY <2>1, <2>2
<1>2. PICK sc : Enters(sc) /\ (Stays => sc = scopes')
  BY <1>1
<1>3. ASSUME NEW o \in ScopeIds, NEW n \in Names, NEW k \in SlotKinds, NEW m \in BOOLEAN,
             symbols' = Append(symbols, NewSymbol(o, n, k, m)),
             Callable(o) => \E j \in 1 .. Len(Path) : Path[j] = o,
             k = "Parameter" => in_parameters /\ o = current_scope,
             in_parameters' => k = "Parameter" \/ ~Callable(o) \/ scopes' # sc
      PROVE  Adds(o)
  <2> DEFINE x == NewSymbol(o, n, k, m)
  <2>1. x.owner = o /\ x.kind = k /\ x.slot = Cardinality(Slotted(o))
    BY DEF NewSymbol, Symbol
  <2>2. x \in SymbolType /\ symbols' = Append(symbols, x)
    BY <1>3, NewSymbolType
  <2> HIDE DEF x
  <2>3. Len(symbols') = NewId /\ symbols'[NewId] = x
    BY <2>2, SymbolAdded
  <2> QED  BY <1>2, <1>3, <2>1, <2>3 DEF Adds
<1> QED  BY <1>2, <1>3 DEF Enters

\* The symbols of a scope, after a step that adds one.
LEMMA SlottedStep ==
    ASSUME TypeOK, Grows, NEW o, Adds(o)
    PROVE  /\ \A x : x # o => Slotted(x)' = Slotted(x)
           /\ \A x : \A i \in SymbolIds : Earlier(x, i)' = Earlier(x, i)
           /\ {j \in Slotted(o)' : j < NewId} = Slotted(o)
<1>1. /\ Len(symbols) \in Nat /\ NewId = Len(symbols) + 1 /\ Len(symbols') = Len(symbols) + 1
      /\ symbols'[NewId].owner = o /\ symbols'[NewId].kind \in SlotKinds
      /\ \A i \in 1 .. Len(symbols) : symbols'[i] = symbols[i]
  BY DEF Adds, Grows, TypeOK, NewId, SymbolIds
<1>2. /\ \A i \in 1 .. Len(symbols') : i \in 1 .. Len(symbols) \/ i = NewId
      /\ \A i \in 1 .. Len(symbols) : i \in 1 .. Len(symbols') /\ i # NewId /\ i < NewId
      /\ \A i \in 1 .. Len(symbols) : ~(NewId < i)
      /\ ~(NewId < NewId)
  BY <1>1
<1>3. ASSUME NEW x, x # o PROVE Slotted(x)' = Slotted(x)
  BY <1>1, <1>2, <1>3 DEF Slotted
<1>4. ASSUME NEW x, NEW i \in SymbolIds PROVE Earlier(x, i)' = Earlier(x, i)
  BY <1>1, <1>2 DEF Slotted, Earlier, SymbolIds
<1>5. {j \in Slotted(o)' : j < NewId} = Slotted(o)
  BY <1>1, <1>2 DEF Slotted
<1> QED  BY <1>3, <1>4, <1>5

LEMMA SlotsStep ==
    ASSUME TypeOK, Grows, SlotsCount, symbols' = symbols \/ \E o \in ScopeIds : Adds(o)
    PROVE  SlotsCount'
<1>1. CASE symbols' = symbols
  BY <1>1 DEF SlotsCount, SymbolIds, Slotted, Earlier
<1>2. ASSUME NEW o \in ScopeIds, Adds(o) PROVE SlotsCount'
  <2> DEFINE earlier(i) == {j \in {l \in 1 .. Len(symbols') :
                                      symbols'[l].owner = symbols'[i].owner
                                      /\ symbols'[l].kind \in SlotKinds} : j < i}
  <2>1. \A i \in 1 .. Len(symbols') : i \in SymbolIds \/ i = NewId
    BY <1>2 DEF Adds, TypeOK, NewId, SymbolIds
  <2>2. ASSUME NEW i \in SymbolIds, symbols'[i].kind \in SlotKinds
        PROVE  symbols'[i].slot = Cardinality(earlier(i))
    <3>1. symbols'[i] = symbols[i]
      BY DEF Grows
    <3>2. Earlier(symbols[i].owner, i) = earlier(i)
      <4>1. \A x : Earlier(x, i)' = Earlier(x, i)
        BY <1>2, SlottedStep
      <4>2. ASSUME NEW x, x = symbols[i].owner PROVE Earlier(x, i)' = earlier(i)
        BY <3>1, <4>2 DEF Earlier, Slotted
      <4> QED  BY <4>1, <4>2
    <3> HIDE DEF earlier
    <3> QED  BY <2>2, <3>1, <3>2 DEF SlotsCount
  <2>3. symbols'[NewId].slot = Cardinality(earlier(NewId))
    <3>1. symbols'[NewId].slot = Cardinality(Slotted(o)) /\ symbols'[NewId].owner = o
      BY <1>2 DEF Adds
    <3>2. {j \in Slotted(o)' : j < NewId} = Slotted(o)
      BY <1>2, SlottedStep
    <3>3. {j \in Slotted(o)' : j < NewId} = earlier(NewId)
      BY <3>1 DEF Slotted
    <3> HIDE DEF earlier
    <3> QED  BY <3>1, <3>2, <3>3
  <2> HIDE DEF earlier
  <2>4. \A i \in 1 .. Len(symbols') : symbols'[i].kind \in SlotKinds =>
            symbols'[i].slot = Cardinality(earlier(i))
    BY <2>1, <2>2, <2>3
  <2> QED  BY <2>4 DEF SlotsCount, SymbolIds, Earlier, Slotted, earlier
<1> QED  BY <1>1, <1>2

LEMMA ParametersStep ==
    ASSUME TypeOK, Grows, ~Callable(Script), ParametersFirst,
           Stays \/ Begins \/ OpenBlock \/ CloseBlock \/ EndFunction
    PROVE  ParametersFirst'
<1>1. symbols' = symbols \/ \E o \in ScopeIds : Adds(o)
  BY StepAdds
<1>2. \A i \in 1 .. Len(symbols') :
          i \in SymbolIds \/ (\E o \in ScopeIds : Adds(o) /\ i = NewId /\ ~(i \in SymbolIds))
  BY <1>1 DEF Adds, TypeOK, NewId, SymbolIds
<1>3. \A i \in SymbolIds : symbols'[i] = symbols[i]
  BY DEF Grows
<1>4. ASSUME NEW i \in 1 .. Len(symbols'), NEW j \in 1 .. Len(symbols'),
             symbols'[i].kind = "Parameter", j < i,
             symbols'[j].owner = symbols'[i].owner, symbols'[j].kind \in SlotKinds
      PROVE  symbols'[j].kind = "Parameter"
  <2>1. j \in SymbolIds
    BY <1>2, <1>4, SMTT(40) DEF SymbolIds, NewId, TypeOK
  <2>2. CASE i \in SymbolIds
    BY <1>3, <1>4, <2>1, <2>2 DEF ParametersFirst
  <2>3. CASE i \notin SymbolIds
    <3>1. in_parameters /\ symbols'[i].owner = current_scope
      BY <1>2, <1>4, <2>3 DEF Adds
    <3> QED  BY <1>3, <1>4, <2>1, <3>1 DEF ParametersFirst
  <2> QED  BY <2>2, <2>3
<1>5. ASSUME in_parameters'
      PROVE  /\ scopes'[current_scope'].kind = "Function"
             /\ \A i \in 1 .. Len(symbols') :
                    symbols'[i].owner = current_scope' => symbols'[i].kind = "Parameter"
  <2>1. CASE Stays
    <3>1. in_parameters /\ current_scope' = current_scope
      BY <1>5, <2>1 DEF Stays
    <3>2. scopes'[current_scope].kind = "Function" /\ Callable(current_scope)
      BY <3>1, ScriptIsScope DEF ParametersFirst, Callable, Grows
    <3>3. ASSUME NEW o \in ScopeIds, Adds(o), symbols'[NewId].owner = current_scope
          PROVE  symbols'[NewId].kind = "Parameter"
      BY <1>5, <2>1, <3>2, <3>3 DEF Adds
    <3>4. \A i \in SymbolIds : symbols'[i].owner = current_scope => symbols'[i].kind = "Parameter"
      BY <1>3, <3>1 DEF ParametersFirst
    <3> QED  BY <1>2, <3>1, <3>2, <3>3, <3>4
  <2>2. CASE Begins
    <3>1. current_scope' = Len(scopes) + 1 /\ scopes'[Len(scopes) + 1].kind = "Function"
      BY <2>2, PushedGrows DEF Begins
    <3>2. Len(scopes) + 1 \notin ScopeIds
      BY DEF TypeOK, ScopeIds
    <3> QED  BY <3>1, <3>2 DEF Grows
  <2>3. CASE CloseBlock
    BY <1>5, <2>3 DEF CloseBlock, ParametersFirst, Callable
  <2>4. CASE OpenBlock \/ EndFunction
    BY <1>5, <2>4 DEF OpenBlock, EndFunction
  <2> QED  BY <2>1, <2>2, <2>3, <2>4
<1> QED  BY <1>4, <1>5 DEF ParametersFirst, SymbolIds, Callable

LEMMA CountedStep ==
    ASSUME TypeOK, Bodies, OpenAround, EndedIsCounted, Grows,
           Stays \/ Begins \/ OpenBlock \/ CloseBlock \/ EndFunction
    PROVE  EndedIsCounted'
<1> SUFFICES ASSUME NEW f \in 1 .. Len(functions'), ~Open(f)'
             PROVE  \A x : x = functions'[f].scope =>
                        functions'[f].local_count = Cardinality(Slotted(x)')
  BY DEF EndedIsCounted, FunctionIds, Slotted
<1>1. CASE EndFunction /\ f = Current
  <2>1. functions'[f].local_count = Cardinality(Slotted(functions[f].scope))
        /\ functions'[f].scope = functions[f].scope /\ symbols' = symbols
    BY <1>1, EndFacts DEF EndFunction
  <2> QED  BY <2>1 DEF Slotted
<1>2. CASE ~(EndFunction /\ f = Current)
  <2>1. f \in FunctionIds /\ ~Open(f)
    <3>1. CASE Stays \/ OpenBlock \/ CloseBlock
      <4>1. function_stack' = function_stack /\ Len(functions') = Len(functions)
        BY <3>1 DEF Stays, OpenBlock, CloseBlock, FunctionsKept
      <4> QED  BY <4>1 DEF Open, FunctionIds
    <3>2. CASE Begins
      <4>1. /\ Len(function_stack') = Len(function_stack) + 1
            /\ \A m \in 1 .. Len(function_stack) : function_stack'[m] = function_stack[m]
            /\ function_stack'[Len(function_stack) + 1] = Len(functions) + 1
            /\ Len(functions') = Len(functions) + 1
            /\ Len(function_stack) \in Nat /\ Len(functions) \in Nat
        BY <3>2, BeginFacts DEF TypeOK
      <4>2. f # Len(functions) + 1
        BY <4>1 DEF Open
      <4>3. f \in FunctionIds
        BY <4>1, <4>2, OneMore DEF FunctionIds
      <4> QED  BY <4>1, <4>3 DEF Open
    <3>3. CASE EndFunction
      <4>1. f \in FunctionIds /\ f # Current
        BY <1>2, <3>3, EndFacts DEF FunctionIds
      <4>2. /\ Len(function_stack) > 0 /\ Current = function_stack[Len(function_stack)]
            /\ function_stack' = SubSeq(function_stack, 1, Len(function_stack) - 1)
        BY <3>3, CurrentFacts DEF EndFunction
      <4>3. /\ Len(function_stack') = Len(function_stack) - 1
            /\ \A i \in 1 .. Len(function_stack') : function_stack'[i] = function_stack[i]
        BY <4>2, Popped
      <4>4. \A m \in 1 .. Len(function_stack) :
                m # Len(function_stack) => m \in 1 .. Len(function_stack')
        BY <4>3, SMTT(40) DEF TypeOK
      <4> QED  BY <4>1, <4>2, <4>3, <4>4 DEF Open
    <3> QED  BY <3>1, <3>2, <3>3
  <2>2. /\ functions'[f].scope = functions[f].scope
        /\ functions'[f].local_count = functions[f].local_count
    <3>1. CASE Stays
      BY <2>1, <3>1 DEF Stays, FunctionsKept
    <3>2. CASE Begins
      BY <2>1, <3>2, BeginFacts
    <3>3. CASE OpenBlock \/ CloseBlock
      BY <3>3 DEF OpenBlock, CloseBlock
    <3>4. CASE EndFunction
      BY <1>2, <2>1, <3>4, EndFacts
    <3> QED  BY <3>1, <3>2, <3>3, <3>4
  <2>3. ASSUME NEW x, x = functions[f].scope PROVE Slotted(x)' = Slotted(x)
    <3>1. CASE symbols' = symbols
      BY <3>1 DEF Slotted
    <3>2. ASSUME NEW o \in ScopeIds, Adds(o) PROVE o # x
      <4> SUFFICES ASSUME o = x PROVE FALSE
        OBVIOUS
      <4>1. Callable(o)
        BY <2>1, <2>3 DEF Bodies
      <4>2. PICK j \in 1 .. Len(Path) : Path[j] = o
        BY <3>2, <4>1 DEF Adds
      <4>3. PICK m \in 1 .. Len(function_stack) : functions[function_stack[m]].scope = o
        BY <4>1, <4>2 DEF OpenAround
      <4>4. function_stack[m] = f
        BY <2>1, <2>3, <4>3 DEF Bodies, TypeOK, IdsExist
      <4> QED  BY <2>1, <4>4 DEF Open
    <3>3. symbols' = symbols \/ \E o \in ScopeIds : Adds(o)
      BY StepAdds
    <3> QED  BY <3>1, <3>2, <3>3, SlottedStep
  <2> QED  BY <2>1, <2>2, <2>3 DEF EndedIsCounted
<1> QED  BY <1>1, <1>2

-----------------------------------------------------------------------------
(* The invariant and the theorems.                                         *)

Invariant ==
    /\ TypeOK /\ Paths /\ Bodies
    /\ OpenAround /\ SlotsCount /\ EndedIsCounted /\ ParametersFirst

LEMMA InvariantInit == Init => Invariant
<1> SUFFICES ASSUME Init PROVE Invariant
  OBVIOUS
<1>1. TypeOK /\ Paths /\ Bodies /\ OpenAround
  BY Starts
<1>2. \A i \in SymbolIds : symbols[i].kind = "Builtin"
  BY DEF Init, SymbolIds, Symbol
<1>3. FunctionIds = {} /\ in_parameters = FALSE
  BY DEF Init, FunctionIds
<1>4. SlotsCount /\ EndedIsCounted /\ ParametersFirst
  BY <1>2, <1>3 DEF SlotsCount, EndedIsCounted, ParametersFirst, SlotKinds
<1> QED  BY <1>1, <1>4 DEF Invariant

LEMMA InvariantStep == Invariant /\ [Next]_vars => Invariant'
<1> SUFFICES ASSUME Invariant, [Next]_vars PROVE Invariant'
  OBVIOUS
<1> USE DEF Invariant
<1>1. CASE Next
  <2>1. Stays \/ Begins \/ OpenBlock \/ CloseBlock \/ EndFunction
    BY <1>1, Shapes DEF Bodies
  <2>2. Grows
    BY <2>1, StepGrows
  <2>3. TypeOK'
    BY <1>1, TypeStep
  <2>4. Paths' /\ Bodies'
    BY <2>1, <2>2, PathsStep, BodiesStep
  <2>5. OpenAround' /\ EndedIsCounted'
    BY <2>1, <2>2, StackStep, CountedStep
  <2>6. SlotsCount' /\ ParametersFirst'
    BY <2>1, <2>2, SlotsStep, StepAdds, ParametersStep DEF Bodies
  <2> QED  BY <2>3, <2>4, <2>5, <2>6
<1>2. CASE UNCHANGED vars
  <2>1. /\ scopes' = scopes /\ symbols' = symbols /\ functions' = functions
        /\ bindings' = bindings /\ declarations' = declarations
        /\ current_scope' = current_scope /\ function_stack' = function_stack
        /\ diagnostics' = diagnostics /\ in_parameters' = in_parameters
    BY <1>2 DEF vars
  <2>2. ScopeIds' = ScopeIds /\ SymbolIds' = SymbolIds /\ FunctionIds' = FunctionIds
    BY <2>1 DEF ScopeIds, SymbolIds, FunctionIds
  <2>3. IdsExist'
    BY <2>1, <2>2 DEF TypeOK, IdsExist, Refers
  <2>4. TypeOK'
    BY <2>1, <2>3 DEF TypeOK
  <2>5. Paths' /\ Bodies'
    BY <2>1, <2>2 DEF Paths, Bodies, Callable
  <2>6. OpenAround'
    BY <2>1 DEF OpenAround, Path, Callable
  <2>7. SlotsCount' /\ EndedIsCounted'
    BY <2>1, <2>2 DEF SlotsCount, EndedIsCounted, Earlier, Slotted, Open
  <2>8. ParametersFirst'
    BY <2>1, <2>2 DEF ParametersFirst, Callable
  <2> QED  BY <2>4, <2>5, <2>6, <2>7, <2>8
<1> QED  BY <1>1, <1>2

\* The ids that the resolver hands out always refer to what it has made:
\* no table, path, capture, binding or stack entry of resolver.rs is dangling
\* (it indexes its vectors with them unchecked), and the script's scope is
\* never popped (expect("cannot pop script scope")).
THEOREM IdsAlwaysExist == Spec => []TypeOK
<1>1. Init => Invariant
  BY InvariantInit
<1>2. Invariant /\ [Next]_vars => Invariant'
  BY InvariantStep
<1>3. Invariant => TypeOK
  BY DEF Invariant
<1> QED  BY <1>1, <1>2, <1>3, PTL DEF Spec

\* Of two symbols of a function, the later one has the larger slot; and every
\* slot is smaller than the number of symbols.
LEMMA SlotsAreOrdered ==
    ASSUME TypeOK, SlotsCount, NEW o, NEW j \in Slotted(o)
    PROVE  /\ symbols[j].slot \in Nat
           /\ symbols[j].slot = Cardinality({k \in Slotted(o) : k < j})
           /\ symbols[j].slot < Cardinality(Slotted(o))
           /\ \A i \in Slotted(o) : i < j => symbols[i].slot < symbols[j].slot
<1> DEFINE before(i) == {k \in Slotted(o) : k < i}
<1>1. \A i \in Slotted(o) : i \in SymbolIds /\ i \in Nat
      /\ symbols[i].owner = o /\ symbols[i].kind \in SlotKinds
  BY DEF Slotted, SymbolIds
<1>2. \A i \in Slotted(o) : symbols[i].slot = Cardinality(before(i))
  BY <1>1 DEF SlotsCount, Earlier
<1>3. IsFiniteSet(Slotted(o))
  BY SlottedFinite
<1>4. ASSUME NEW i \in Slotted(o), NEW T \in SUBSET Slotted(o), before(i) \cup {i} \subseteq T
      PROVE  /\ Cardinality(before(i)) \in Nat /\ Cardinality(before(i)) < Cardinality(T)
  <2>1. before(i) \subseteq Slotted(o) /\ i \notin before(i)
    BY <1>1
  <2>2. IsFiniteSet(before(i)) /\ IsFiniteSet(T)
    BY <1>3, <2>1, FS_Subset
  <2>3. Cardinality(before(i)) \in Nat /\ Cardinality(T) \in Nat
    BY <2>2, FS_CardinalityType
  <2>4. Cardinality(before(i) \cup {i}) = Cardinality(before(i)) + 1
    BY <2>1, <2>2, FS_AddElement
  <2>5. Cardinality(before(i) \cup {i}) <= Cardinality(T)
    BY <1>4, <2>2, FS_Subset
  <2> HIDE DEF before
  <2> QED  BY <2>3, <2>4, <2>5
<1>5. Cardinality(before(j)) \in Nat /\ Cardinality(before(j)) < Cardinality(Slotted(o))
  BY <1>4
<1>6. ASSUME NEW i \in Slotted(o), i < j
      PROVE  Cardinality(before(i)) < Cardinality(before(j))
  <2>1. before(j) \in SUBSET Slotted(o) /\ before(i) \cup {i} \subseteq before(j)
    BY <1>1, <1>6
  <2> QED  BY <1>4, <2>1
<1> QED  BY <1>2, <1>5, <1>6

\* The frame layout that call() relies on: no two variables of a function
\* share a slot, every slot is within the locals that call() allocates, and
\* parameter i has slot i (define_in and resolve_function, resolver.rs; call,
\* vm.rs).
THEOREM FramesAlwaysFit == Spec => []FrameLayout
<1>1. Invariant => FrameLayout
  <2> SUFFICES ASSUME Invariant, NEW f \in FunctionIds
               PROVE  LET own == Slotted(functions[f].scope) IN
                      /\ \A i, j \in own : i # j => symbols[i].slot # symbols[j].slot
                      /\ ~Open(f) => \A i \in own : symbols[i].slot < functions[f].local_count
                      /\ \A i \in own : symbols[i].kind = "Parameter" =>
                             symbols[i].slot = Cardinality({j \in own : j < i})
                             /\ \A j \in own : j < i => symbols[j].kind = "Parameter"
    BY DEF FrameLayout
  <2> DEFINE own == Slotted(functions[f].scope)
  <2>1. TypeOK /\ SlotsCount /\ EndedIsCounted /\ ParametersFirst
    BY DEF Invariant
  <2>2. ASSUME NEW i \in own, NEW j \in own, i # j PROVE symbols[i].slot # symbols[j].slot
    <3>1. i \in Nat /\ j \in Nat
      BY DEF Slotted
    <3>2. symbols[i].slot \in Nat /\ symbols[j].slot \in Nat
      BY <2>1, SlotsAreOrdered
    <3>3. /\ i < j => symbols[i].slot < symbols[j].slot
          /\ j < i => symbols[j].slot < symbols[i].slot
      BY <2>1, SlotsAreOrdered
    <3>4. i < j \/ j < i
      BY <2>2, <3>1
    <3> QED  BY <3>2, <3>3, <3>4
  <2>3. ASSUME ~Open(f), NEW i \in own PROVE symbols[i].slot < functions[f].local_count
    <3>1. functions[f].local_count = Cardinality(own)
      BY <2>1, <2>3 DEF EndedIsCounted
    <3> QED  BY <2>1, <3>1, SlotsAreOrdered
  <2>4. ASSUME NEW i \in own, symbols[i].kind = "Parameter"
        PROVE  symbols[i].slot = Cardinality({j \in own : j < i})
               /\ \A j \in own : j < i => symbols[j].kind = "Parameter"
    <3>1. symbols[i].slot = Cardinality({j \in own : j < i})
      BY <2>1, SlotsAreOrdered
    <3>2. \A j \in own : j < i => symbols[j].kind = "Parameter"
      BY <2>1, <2>4 DEF ParametersFirst, Slotted, SymbolIds
    <3> QED  BY <3>1, <3>2
  <2> QED  BY <2>2, <2>3, <2>4
<1> QED  BY <1>1, InvariantInit, InvariantStep, PTL DEF Spec

-----------------------------------------------------------------------------
(* Whose function it is: the stack follows the scopes.                     *)

\* The scope of the m-th function of the stack, and how deep it lies.
Body(m)  == functions[function_stack[m]].scope
Depth(m) == Len(scopes[Body(m)].path)

\* The functions of the stack lie around the walk, each inside the one before.
Nested ==
    /\ \A m \in 1 .. Len(function_stack) :
           Depth(m) \in 1 .. Len(Path) /\ Path[Depth(m)] = Body(m)
    /\ \A l, m \in 1 .. Len(function_stack) : l < m => Depth(l) < Depth(m)

\* The script's scope lies in no other.
ScriptFirst == Len(scopes[Script].path) = 1

\* Every function scope is a function's.
EveryBody == \A s \in ScopeIds : Callable(s) => \E f \in FunctionIds : functions[f].scope = s

\* A scope's table has symbols of that scope.
TablesOwn ==
    \A s \in ScopeIds, n \in Names :
        scopes[s].table[n] # None => symbols[scopes[s].table[n]].owner = s

\* What belongs to scope o: a function's has no prefix of a global, and what is
\* not a function's belongs to a scope outside all functions.
Outside(o) == \A k \in 1 .. Len(scopes[o].path) : ~Callable(scopes[o].path[k])
AtHome(x)  == IF Callable(x.owner) THEN x.name.scope \notin Global ELSE Outside(x.owner)
Homes      == \A i \in SymbolIds : AtHome(symbols[i])

\* Functions keep their scopes.
LEMMA BodiesKept ==
    ASSUME TypeOK, Stays \/ Begins \/ OpenBlock \/ CloseBlock \/ EndFunction
    PROVE  \A f \in FunctionIds : f \in FunctionIds' /\ functions'[f].scope = functions[f].scope
<1>0. Len(functions) \in Nat
  BY DEF TypeOK
<1>1. CASE Stays
  BY <1>1 DEF Stays, FunctionsKept, FunctionIds
<1>2. CASE Begins
  BY <1>0, <1>2, BeginFacts DEF FunctionIds
<1>3. CASE OpenBlock \/ CloseBlock
  BY <1>3 DEF OpenBlock, CloseBlock, FunctionIds
<1>4. CASE EndFunction
  BY <1>4, EndFacts DEF FunctionIds
<1> QED  BY <1>1, <1>2, <1>3, <1>4

\* The stack and the path, in plain terms.
LEMMA NestedFacts ==
    ASSUME TypeOK, Paths
    PROVE  /\ Path \in Seq(Nat) /\ Len(Path) \in Nat /\ Len(Path) >= 1
           /\ Path[Len(Path)] = current_scope
           /\ \A k \in 1 .. Len(Path) : Path[k] \in ScopeIds /\ Len(scopes[Path[k]].path) = k
           /\ Len(function_stack) \in Nat
           /\ \A m \in 1 .. Len(function_stack) :
                  /\ function_stack[m] \in FunctionIds
                  /\ Body(m) \in ScopeIds
                  /\ Depth(m) \in Nat
<1>1. /\ Path \in Seq(Nat) /\ Len(Path) \in Nat /\ Len(Path) >= 1
      /\ Path[Len(Path)] = current_scope
      /\ \A k \in 1 .. Len(Path) : Path[k] \in ScopeIds /\ Len(scopes[Path[k]].path) = k
  BY PathFacts, ScriptIsScope DEF Paths, Path
<1>2. /\ Len(function_stack) \in Nat
      /\ \A m \in 1 .. Len(function_stack) : function_stack[m] \in FunctionIds /\ Body(m) \in ScopeIds
  BY DEF TypeOK, IdsExist, Body
<1>3. \A s \in ScopeIds : Len(scopes[s].path) \in Nat
  <2>1. \A s \in ScopeIds : scopes[s] \in ScopeType
    BY ElementOfSeq DEF TypeOK, ScopeIds
  <2> QED  BY <2>1 DEF ScopeType
<1> QED  BY <1>1, <1>2, <1>3 DEF Depth

\* The innermost function scope around the walk is that of the current function.
LEMMA InnermostBody ==
    ASSUME TypeOK, Paths, Bodies, OpenAround, Nested, NEW o \in ScopeIds
    PROVE  IF Current = None
           THEN CallableOr(o) = o /\ \A k \in 1 .. Len(Path) : ~Callable(Path[k])
           ELSE /\ Current \in FunctionIds
                /\ CallableOr(o) = functions[Current].scope
                /\ Callable(functions[Current].scope)
                /\ \A k \in 1 .. Len(Path) : Callable(Path[k]) =>
                       \E j \in 1 .. Len(scopes[functions[Current].scope].path) :
                           scopes[functions[Current].scope].path[j] = Path[k]
<1> DEFINE IsLast(i) == Callable(Path[i]) /\ \A j \in i + 1 .. Len(Path) : ~Callable(Path[j])
           n == Len(function_stack)
<1>1. n \in Nat /\ (Current = None <=> n = 0) /\ (n > 0 => Current = function_stack[n])
  <2>1. function_stack \in Seq(Nat) /\ (function_stack = <<>> <=> n = 0)
    BY EmptySeq DEF TypeOK
  <2>2. n > 0 => Last(function_stack) \in FunctionIds
    BY <2>1, NestedFacts DEF Last
  <2> QED  BY <2>1, <2>2 DEF Current, FunctionIds, None, Last
<1>2. CASE Current = None
  <2>1. \A k \in 1 .. Len(Path) : ~Callable(Path[k])
    BY <1>1, <1>2 DEF OpenAround
  <2> QED  BY <1>2, <2>1 DEF CallableOr, Innermost
<1>3. CASE Current # None
  <2> DEFINE d == Depth(n)
             b == Body(n)
  <2>1. /\ n > 0 /\ n \in 1 .. n /\ Current = function_stack[n]
        /\ Current \in FunctionIds /\ b = functions[Current].scope
    BY <1>1, <1>3, NestedFacts DEF Body
  <2>2. /\ d \in 1 .. Len(Path) /\ d \in Nat /\ Path[d] = b /\ Len(scopes[b].path) = d
        /\ b \in ScopeIds /\ Callable(b)
    BY <2>1, NestedFacts DEF Nested, Bodies, Depth
  <2>3. \A k \in 1 .. Len(Path) : Callable(Path[k]) => k <= d
    <3> SUFFICES ASSUME NEW k \in 1 .. Len(Path), Callable(Path[k]) PROVE k <= d
      OBVIOUS
    <3>1. PICK m \in 1 .. n : Body(m) = Path[k]
      BY DEF OpenAround, Body
    <3>2. Depth(m) = k /\ k \in Nat /\ m \in Nat
      BY <1>1, <3>1, NestedFacts DEF Depth
    <3>3. m < n \/ m = n
      BY <1>1, <3>2
    <3> QED  BY <2>1, <2>2, <3>2, <3>3 DEF Nested
  <2> HIDE DEF d, b
  <2>4. IsLast(d)
    BY <2>2, <2>3, NestedFacts
  <2>5. \A i \in 1 .. Len(Path) : IsLast(i) => i = d
    <3> SUFFICES ASSUME NEW i \in 1 .. Len(Path), IsLast(i) PROVE i = d
      OBVIOUS
    <3>1. i <= d /\ ~(d \in i + 1 .. Len(Path))
      BY <2>2, <2>3
    <3> QED  BY <2>2, <3>1, NestedFacts
  <2>6. CallableOr(o) = b
    <3>1. (CHOOSE i \in 1 .. Len(Path) : IsLast(i)) = d
      BY <2>2, <2>4, <2>5
    <3>2. Innermost(Path, Callable) = Path[CHOOSE i \in 1 .. Len(Path) : IsLast(i)]
      BY <2>2, <2>4 DEF Innermost
    <3>3. b # None
      BY <2>2 DEF ScopeIds, None
    <3> HIDE DEF IsLast
    <3> QED  BY <2>2, <3>1, <3>2, <3>3 DEF CallableOr
  <2>7. \A k \in 1 .. Len(Path) : Callable(Path[k]) =>
            k \in 1 .. Len(scopes[b].path) /\ scopes[b].path[k] = Path[k]
    <3>1. \A j \in 1 .. d : scopes[Path[d]].path[j] = Path[j]
      BY <2>2, ScriptIsScope DEF Paths, Path
    <3> QED  BY <2>2, <2>3, <3>1, NestedFacts
  <2> QED  BY <1>3, <2>1, <2>2, <2>6, <2>7
<1> QED  BY <1>2, <1>3

LEMMA NestedStep ==
    ASSUME TypeOK, Paths, Bodies, Nested, Grows,
           Stays \/ Begins \/ OpenBlock \/ CloseBlock \/ EndFunction
    PROVE  Nested'
<1> DEFINE n == Len(function_stack)
           Lies(m, k) == /\ k \in 1 .. Len(Path') /\ Path'[k] = Body(m)'
                         /\ Len(scopes'[Body(m)'].path) = k
<1>1. /\ n \in Nat /\ Len(Path) \in Nat /\ Len(scopes) \in Nat /\ Path \in Seq(Nat)
      /\ \A m \in 1 .. n : /\ Depth(m) \in 1 .. Len(Path) /\ Path[Depth(m)] = Body(m)
                           /\ Body(m) \in ScopeIds /\ Callable(Body(m))
                           /\ function_stack[m] \in FunctionIds
      /\ \A l, m \in 1 .. n : l < m => Depth(l) < Depth(m)
  <2>1. /\ n \in Nat /\ Len(Path) \in Nat /\ Path \in Seq(Nat)
        /\ \A m \in 1 .. n : Body(m) \in ScopeIds /\ function_stack[m] \in FunctionIds
    BY NestedFacts
  <2>2. \A m \in 1 .. n : Callable(Body(m))
    BY <2>1 DEF Bodies, Body
  <2>3. Len(scopes) \in Nat
    BY DEF TypeOK
  <2> QED  BY <2>1, <2>2, <2>3 DEF Nested
<1>2. /\ \A x \in ScopeIds : scopes'[x].path = scopes[x].path
      /\ \A f \in FunctionIds : functions'[f].scope = functions[f].scope
  BY BodiesKept DEF Grows
<1>3. ASSUME NEW m \in 1 .. n, function_stack'[m] = function_stack[m]
      PROVE  Body(m)' = Body(m) /\ Depth(m)' = Depth(m)
  <2>1. Body(m)' = Body(m)
    BY <1>1, <1>2, <1>3 DEF Body
  <2>2. Depth(m)' = Len(scopes'[Body(m)'].path)
    BY DEF Depth
  <2> QED  BY <1>1, <1>2, <2>1, <2>2 DEF Depth
<1>4. ASSUME NEW t \in 0 .. n, Len(function_stack') = t,
             \A m \in 1 .. t : function_stack'[m] = function_stack[m],
             \A m \in 1 .. t : Depth(m) \in 1 .. Len(Path') /\ Path'[Depth(m)] = Path[Depth(m)]
      PROVE  Nested'
  <2>1. \A m \in 1 .. t : m \in 1 .. n
    BY <1>1
  <2>2. \A m \in 1 .. t : Body(m)' = Body(m) /\ Depth(m)' = Depth(m)
    BY <1>3, <1>4, <2>1
  <2>3. \A m \in 1 .. t : Depth(m)' \in 1 .. Len(Path') /\ Path'[Depth(m)'] = Body(m)'
    BY <1>1, <1>4, <2>1, <2>2
  <2>4. \A l, m \in 1 .. t : l < m => Depth(l)' < Depth(m)'
    BY <1>1, <2>1, <2>2
  <2> QED  BY <1>4, <2>3, <2>4 DEF Nested
<1>5. ASSUME Len(scopes') = Len(scopes) + 1, current_scope' = Len(scopes) + 1
      PROVE  /\ Len(Path') = Len(Path) + 1 /\ Path'[Len(Path) + 1] = Len(scopes) + 1
             /\ scopes'[Len(scopes) + 1].path = Path'
             /\ \A l \in 1 .. Len(Path) : l \in 1 .. Len(Path') /\ Path'[l] = Path[l]
  <2> DEFINE new == Len(scopes) + 1
  <2>1. Path' = Append(Path, new) /\ scopes'[new].path = Path'
    BY <1>1, <1>5 DEF Grows, Path
  <2>2. new \in Nat
    BY <1>1
  <2> HIDE DEF new
  <2>3. /\ Len(Path') = Len(Path) + 1 /\ Path'[Len(Path) + 1] = new
        /\ \A l \in 1 .. Len(Path) : Path'[l] = Path[l]
    BY <1>1, <2>1, <2>2, Appended
  <2> QED  BY <1>1, <2>1, <2>3 DEF new
<1>6. CASE Stays
  <2>1. Path' = Path /\ function_stack' = function_stack
    BY <1>2, <1>6, ScriptIsScope DEF Stays, Path
  <2>2. n \in 0 .. n /\ Len(function_stack') = n
    BY <1>1, <2>1
  <2> QED  BY <1>1, <1>4, <2>1, <2>2
<1>7. CASE OpenBlock
  <2>1. Len(scopes') = Len(scopes) + 1 /\ current_scope' = Len(scopes) + 1
    BY <1>7, PushedGrows DEF OpenBlock, Enters
  <2>2. function_stack' = function_stack
    BY <1>7 DEF OpenBlock
  <2>3. n \in 0 .. n /\ Len(function_stack') = n
    BY <1>1, <2>2
  <2> QED  BY <1>1, <1>4, <1>5, <2>1, <2>2, <2>3
<1>8. CASE Begins
  <2> DEFINE new == Len(scopes) + 1
  <2>q. PICK q \in Nat : q = Len(function_stack) + 1
    BY <1>1
  <2>1. Len(scopes') = new /\ current_scope' = new
    BY <1>8, PushedGrows DEF Begins
  <2>2. /\ Len(function_stack') = q
        /\ \A m \in 1 .. n : function_stack'[m] = function_stack[m]
        /\ Body(q)' = new
    BY <1>8, <2>q, BeginFacts DEF Body
  <2>3. Depth(q)' = Len(Path) + 1
    <3>1. Depth(q)' = Len(scopes'[Body(q)'].path)
      BY DEF Depth
    <3> QED  BY <1>5, <2>1, <2>2, <3>1
  <2>4. \A m \in 1 .. q : m \in 1 .. n \/ m = q
    BY <1>1, <2>q
  <2>5. \A m \in 1 .. n : Body(m)' = Body(m) /\ Depth(m)' = Depth(m)
    BY <1>3, <2>2
  <2>6. \A m \in 1 .. q : Depth(m)' \in 1 .. Len(Path') /\ Path'[Depth(m)'] = Body(m)'
    <3>1. ASSUME NEW m \in 1 .. n
          PROVE  Depth(m)' \in 1 .. Len(Path') /\ Path'[Depth(m)'] = Body(m)'
      BY <1>1, <1>5, <2>1, <2>5
    <3>2. Depth(q)' \in 1 .. Len(Path') /\ Path'[Depth(q)'] = Body(q)'
      BY <1>1, <1>5, <2>1, <2>2, <2>3
    <3> QED  BY <2>4, <3>1, <3>2
  <2>7. ASSUME NEW l \in 1 .. q, NEW m \in 1 .. q, l < m
        PROVE  Depth(l)' < Depth(m)'
    <3>1. l \in 1 .. n
      BY <1>1, <2>q, <2>7
    <3>2. CASE m \in 1 .. n
      BY <1>1, <2>5, <2>7, <3>1, <3>2
    <3>3. CASE m = q
      <4>1. Depth(l)' = Depth(l) /\ Depth(l) \in 1 .. Len(Path)
        BY <1>1, <2>5, <3>1
      <4> QED  BY <1>1, <2>3, <3>3, <4>1
    <3> QED  BY <2>4, <3>2, <3>3
  <2> QED  BY <2>2, <2>6, <2>7 DEF Nested
<1>9. CASE CloseBlock \/ EndFunction
  <2>1. scopes[current_scope].kind # "Script"
    <3>1. CASE CloseBlock
      BY <3>1 DEF CloseBlock
    <3>2. CASE EndFunction
      BY <3>2, EndFacts DEF Bodies, Callable, EndFunction
    <3> QED  BY <1>9, <3>1, <3>2
  <2>2. /\ Len(Path) > 1 /\ Outer \in ScopeIds
        /\ Len(scopes[Outer].path) = Len(Path) - 1
        /\ \A j \in 1 .. Len(Path) - 1 : scopes[Outer].path[j] = Path[j]
    BY <2>1, OuterFacts
  <2>3. Path' = scopes[Outer].path
    BY <1>2, <1>9, <2>2 DEF CloseBlock, EndFunction, Path
  <2>4. ASSUME NEW m \in 1 .. n, Depth(m) < Len(Path)
        PROVE  Depth(m) \in 1 .. Len(Path') /\ Path'[Depth(m)] = Path[Depth(m)]
    <3>1. Depth(m) \in 1 .. Len(Path) - 1
      BY <1>1, <2>4
    <3> QED  BY <2>2, <2>3, <3>1
  <2>5. CASE CloseBlock
    <3>1. function_stack' = function_stack /\ ~Callable(current_scope)
      BY <2>5 DEF CloseBlock, Callable
    <3>2. \A m \in 1 .. n : Depth(m) < Len(Path)
      <4> SUFFICES ASSUME NEW m \in 1 .. n PROVE Depth(m) < Len(Path)
        OBVIOUS
      <4>1. Depth(m) # Len(Path)
        BY <1>1, <3>1, NestedFacts
      <4> QED  BY <1>1, <4>1
    <3>3. n \in 0 .. n /\ Len(function_stack') = n
      BY <1>1, <3>1
    <3> QED  BY <1>4, <2>4, <3>1, <3>2, <3>3
  <2>6. CASE EndFunction
    <3>1. /\ n > 0 /\ function_stack' = SubSeq(function_stack, 1, n - 1)
      BY <2>6, CurrentFacts DEF EndFunction
    <3>2. Len(function_stack') = n - 1
          /\ \A i \in 1 .. Len(function_stack') : function_stack'[i] = function_stack[i]
      BY <3>1, Popped
    <3>3. n - 1 \in 0 .. n /\ n \in 1 .. n
      BY <1>1, <3>1
    <3>4. \A m \in 1 .. n - 1 : m \in 1 .. n /\ Depth(m) < Len(Path)
      <4> SUFFICES ASSUME NEW m \in 1 .. n - 1 PROVE m \in 1 .. n /\ Depth(m) < Len(Path)
        OBVIOUS
      <4>1. m \in 1 .. n /\ m < n
        BY <1>1
      <4>2. Depth(m) < Depth(n) /\ Depth(n) \in 1 .. Len(Path) /\ Depth(m) \in 1 .. Len(Path)
        BY <1>1, <3>3, <4>1
      <4> QED  BY <1>1, <4>1, <4>2
    <3> QED  BY <1>4, <2>4, <3>2, <3>3, <3>4
  <2> QED  BY <1>9, <2>5, <2>6
<1> QED  BY <1>6, <1>7, <1>8, <1>9

LEMMA EveryBodyStep ==
    ASSUME TypeOK, EveryBody, ScriptFirst, Grows,
           Stays \/ Begins \/ OpenBlock \/ CloseBlock \/ EndFunction
    PROVE  EveryBody' /\ ScriptFirst'
<1>1. ScriptFirst'
  BY ScriptIsScope DEF ScriptFirst, Grows
<1>2. \A s \in 1 .. Len(scopes') :
          s \in ScopeIds \/ (Len(scopes') = Len(scopes) + 1 /\ s = Len(scopes) + 1)
  <2>1. Len(scopes') = Len(scopes) \/ Len(scopes') = Len(scopes) + 1
    BY DEF Grows
  <2>2. Len(scopes) \in Nat /\ Len(scopes') \in Nat
    BY DEF Grows, TypeOK
  <2> QED  BY <2>1, <2>2, OneMore DEF ScopeIds
<1>3. ASSUME NEW s \in ScopeIds, scopes'[s].kind = "Function"
      PROVE  \E f \in FunctionIds' : functions'[f].scope = s
  <2>1. Callable(s)
    BY <1>3 DEF Callable, Grows
  <2>2. PICK f \in FunctionIds : functions[f].scope = s
    BY <2>1 DEF EveryBody
  <2>3. f \in FunctionIds' /\ functions'[f].scope = functions[f].scope
    BY BodiesKept
  <2> QED  BY <2>2, <2>3
<1>4. ASSUME Len(scopes') = Len(scopes) + 1, scopes'[Len(scopes) + 1].kind = "Function"
      PROVE  \E f \in FunctionIds' : functions'[f].scope = Len(scopes) + 1
  <2>0. Len(scopes) \in Nat /\ Len(functions) \in Nat
    BY DEF TypeOK
  <2>1. CASE Begins
    <3>1. Len(functions) + 1 \in FunctionIds' /\ functions'[Len(functions) + 1].scope = Len(scopes) + 1
      BY <2>0, <2>1, BeginFacts DEF FunctionIds
    <3> QED  BY <3>1
  <2>2. CASE OpenBlock
    <3>1. Enters(scopes) /\ scopes' = Pushed(scopes, "Block")
      BY <2>2 DEF OpenBlock, Enters
    <3>2. scopes'[Len(scopes) + 1].kind = "Block"
      BY <3>1, PushedGrows
    <3> QED  BY <1>4, <3>2
  <2>3. CASE Stays
    <3>1. Len(scopes') = Len(scopes)
      BY <2>3, EntersFacts DEF Stays
    <3> QED  BY <1>4, <2>0, <3>1
  <2>4. CASE CloseBlock \/ EndFunction
    BY <1>4, <2>0, <2>4 DEF CloseBlock, EndFunction
  <2> QED  BY <2>1, <2>2, <2>3, <2>4
<1>5. EveryBody'
  BY <1>2, <1>3, <1>4 DEF EveryBody, ScopeIds, Callable
<1> QED  BY <1>1, <1>5

\* A symbol is entered in the table of its scope.
LEMMA EntersOwn ==
    ASSUME TypeOK, TablesOwn, NEW sc, Enters(sc), NEW s \in ScopeIds, NEW n \in Names,
           sc[s].table[n] # None
    PROVE  symbols'[sc[s].table[n]].owner = s
<1>1. CASE sc = scopes /\ symbols' = symbols
  BY <1>1 DEF TablesOwn
<1>2. ASSUME NEW o \in ScopeIds, NEW x \in Names, NEW k \in SlotKinds, NEW m \in BOOLEAN,
             symbols' = Append(symbols, NewSymbol(o, x, k, m)), sc = Entered(o, x)
      PROVE  symbols'[sc[s].table[n]].owner = s
  <2> DEFINE added == NewSymbol(o, x, k, m)
  <2>1. added.owner = o /\ added \in SymbolType
    BY NewSymbolType DEF NewSymbol, Symbol
  <2>2. symbols' = Append(symbols, added)
    BY <1>2
  <2> HIDE DEF added
  <2>3. symbols'[NewId] = added /\ \A i \in SymbolIds : symbols'[i] = symbols[i]
    <3>1. /\ Len(symbols) \in Nat /\ symbols \in Seq(SymbolType)
          /\ NewId = Len(symbols) + 1 /\ SymbolIds = 1 .. Len(symbols)
      BY DEF NewId, SymbolIds, TypeOK
    <3> QED  BY <2>1, <2>2, <3>1, Appended
  <2>4. sc[s].table[n] = IF s = o /\ n = x THEN NewId ELSE scopes[s].table[n]
    BY <1>2, EnteredFacts
  <2>5. CASE s = o /\ n = x
    BY <2>1, <2>3, <2>4, <2>5
  <2>6. CASE ~(s = o /\ n = x)
    <3>1. sc[s].table[n] = scopes[s].table[n] /\ scopes[s].table[n] \in SymbolIds
      BY <2>4, <2>6, TableFacts
    <3> QED  BY <2>3, <3>1 DEF TablesOwn
  <2> QED  BY <2>5, <2>6
<1> QED  BY <1>1, <1>2 DEF Enters

LEMMA TablesStep ==
    ASSUME TypeOK, TablesOwn,
           Stays \/ Begins \/ OpenBlock \/ CloseBlock \/ EndFunction
    PROVE  TablesOwn'
<1>1. ASSUME NEW sc, Enters(sc), NEW kind \in {"Function", "Block"}, scopes' = Pushed(sc, kind),
             NEW s \in 1 .. Len(scopes'), NEW n \in Names, scopes'[s].table[n] # None
      PROVE  symbols'[scopes'[s].table[n]].owner = s
  <2>1. sc \in Seq(ScopeType) /\ Len(sc) = Len(scopes) /\ Len(scopes) \in Nat
    BY <1>1, EntersFacts DEF TypeOK
  <2>2. /\ Len(scopes') = Len(scopes) + 1
        /\ \A x \in ScopeIds : scopes'[x] = sc[x]
        /\ scopes'[Len(scopes) + 1].table[n] = None
    BY <1>1, <2>1, Opened DEF ScopeIds
  <2>3. s \in ScopeIds
    BY <1>1, <2>1, <2>2, OneMore DEF ScopeIds
  <2> QED  BY <1>1, <2>2, <2>3, EntersOwn
<1>2. CASE Stays \/ CloseBlock \/ EndFunction
  <2>1. Enters(scopes')
    BY <1>2 DEF Stays, CloseBlock, EndFunction, Enters
  <2>2. Len(scopes') = Len(scopes)
    BY <2>1, EntersFacts
  <2> QED  BY <2>1, <2>2, EntersOwn DEF TablesOwn, ScopeIds
<1>3. CASE Begins
  <2>1. PICK sc : Enters(sc) /\ scopes' = Pushed(sc, "Function")
    BY <1>3 DEF Begins
  <2> QED  BY <1>1, <2>1 DEF TablesOwn, ScopeIds
<1>4. CASE OpenBlock
  <2>1. Enters(scopes) /\ scopes' = Pushed(scopes, "Block")
    BY <1>4 DEF OpenBlock, Enters
  <2> QED  BY <1>1, <2>1 DEF TablesOwn, ScopeIds
<1> QED  BY <1>2, <1>3, <1>4

\* The script's scope is outside all functions.
LEMMA ScriptOutside ==
    ASSUME TypeOK, Paths, Bodies, ScriptFirst
    PROVE  Outside(Script)
<1>1. Len(scopes[Script].path) = 1 /\ scopes[Script].path[1] = Script
  BY ScriptIsScope DEF Paths, ScriptFirst
<1> QED  BY <1>1 DEF Outside, Bodies

\* Where a declaration of name n goes: to the current function, or outside all.
LEMMA DeclaredHome ==
    ASSUME TypeOK, Paths, Bodies, OpenAround, Nested, ScriptFirst, NEW n, NEW o,
           o = DeclaringScope(n)
    PROVE  IF Callable(o)
           THEN Current \in FunctionIds /\ o = functions[Current].scope /\ n.scope \notin Global
           ELSE Outside(o)
<1>1. CASE o = Script
  BY <1>1, ScriptOutside DEF Bodies
<1>2. ASSUME NEW d \in {Script, current_scope}, o = CallableOr(d), n.scope \notin Global
      PROVE  IF Callable(o)
             THEN Current \in FunctionIds /\ o = functions[Current].scope /\ n.scope \notin Global
             ELSE Outside(o)
  <2>1. d \in ScopeIds
    BY ScriptIsScope
  <2>2. CASE Current = None
    <3>1. o = d /\ \A k \in 1 .. Len(Path) : ~Callable(Path[k])
      BY <1>2, <2>1, <2>2, InnermostBody
    <3>2. CASE d = current_scope
      <4>1. Len(Path) \in 1 .. Len(Path) /\ Path[Len(Path)] = current_scope
        BY NestedFacts
      <4>2. ~Callable(current_scope)
        BY <3>1, <4>1
      <4>3. Outside(current_scope)
        BY <3>1 DEF Outside, Path
      <4> QED  BY <3>1, <3>2, <4>2, <4>3
    <3> QED  BY <1>1, <3>1, <3>2
  <2>3. CASE Current # None
    BY <1>2, <2>1, <2>3, InnermostBody
  <2> QED  BY <2>2, <2>3
<1> QED  BY <1>1, <1>2 DEF DeclaringScope

\* A step makes no symbol, or one that is at home.
LEMMA StepHomes ==
    ASSUME TypeOK, Paths, Bodies, OpenAround, Nested, ScriptFirst, ParametersFirst, Next
    PROVE  symbols' = symbols \/ (Len(symbols') = NewId /\ AtHome(symbols'[NewId]))
<1>1. ASSUME NEW o \in ScopeIds, NEW n \in Names, NEW k \in SlotKinds, NEW m \in BOOLEAN,
             symbols' = Append(symbols, NewSymbol(o, n, k, m)),
             IF Callable(o) THEN n.scope \notin Global ELSE Outside(o)
      PROVE  Len(symbols') = NewId /\ AtHome(symbols'[NewId])
  <2> DEFINE added == NewSymbol(o, n, k, m)
  <2>1. added.owner = o /\ added.name = n /\ added \in SymbolType
    BY NewSymbolType DEF NewSymbol, Symbol
  <2>2. symbols' = Append(symbols, added)
    BY <1>1
  <2> HIDE DEF added
  <2>3. symbols'[NewId] = added /\ Len(symbols') = NewId
    BY <2>1, <2>2, SymbolAdded
  <2> QED  BY <1>1, <2>1, <2>3 DEF AtHome
<1>2. ASSUME NEW n \in Written, UseMadeUp(n)
      PROVE  Len(symbols') = NewId /\ AtHome(symbols'[NewId])
  <2>1. PICK m \in Names, k \in SlotKinds, b \in BOOLEAN : MadeUp(n) = <<m, k, b>>
    <3>1. MadeUp(n) # <<>>
      BY <1>2 DEF UseMadeUp
    <3> QED  BY <3>1, NamesKnown, ScriptNames DEF MadeUp, SlotKinds
  <2>2. symbols' = Append(symbols, NewSymbol(Script, m, k, b))
    BY <1>2, <2>1 DEF UseMadeUp, DefineIn
  <2> QED  BY <1>1, <2>2, ScriptIsScope, ScriptOutside DEF Bodies
<1>3. ASSUME NEW n \in Written, NEW k \in SlotKinds, NEW m \in BOOLEAN,
             symbols' = Append(symbols, NewSymbol(DeclaringScope(n), n, k, m))
      PROVE  Len(symbols') = NewId /\ AtHome(symbols'[NewId])
  <2>1. PICK o : o = DeclaringScope(n)
    OBVIOUS
  <2>2. o \in ScopeIds /\ n \in Names
    BY <2>1, QualifiedFacts, NamesKnown
  <2>3. IF Callable(o) THEN n.scope \notin Global ELSE Outside(o)
    BY <2>1, DeclaredHome
  <2> QED  BY <1>1, <1>3, <2>1, <2>2, <2>3
<1>4. ASSUME NEW p \in Parameters, Parameter(p), symbols' # symbols
      PROVE  Len(symbols') = NewId /\ AtHome(symbols'[NewId])
  <2>1. symbols' = Append(symbols, NewSymbol(current_scope, Name("a", p), "Parameter", TRUE))
    BY <1>4 DEF Parameter, DefineIn
  <2>2. Callable(current_scope)
    BY <1>4 DEF Parameter, ParametersFirst
  <2>3. Name("a", p) \in Names /\ Name("a", p).scope \notin Global /\ "Parameter" \in SlotKinds
    BY ScriptNames DEF Name, Global, SlotKinds
  <2> QED  BY <1>1, <2>1, <2>2, <2>3, ScriptIsScope
<1>5. ASSUME NEW n \in Written, Use(n), symbols' # symbols
      PROVE  Len(symbols') = NewId /\ AtHome(symbols'[NewId])
  BY <1>2, <1>5 DEF Use, UseKnown, UseUnknown
<1>6. ASSUME NEW n \in Variables, NEW c \in BOOLEAN, Assign(n, c), symbols' # symbols
      PROVE  Len(symbols') = NewId /\ AtHome(symbols'[NewId])
  <2>1. symbols' = Append(symbols, NewSymbol(DeclaringScope(n), n, "Variable", ~c))
    BY <1>6 DEF Assign, DefineIn
  <2>2. n \in Written /\ "Variable" \in SlotKinds /\ (~c) \in BOOLEAN
    BY DEF Written, SlotKinds
  <2> QED  BY <1>3, <2>1, <2>2
<1>7. ASSUME NEW n \in FunctionNames, BeginFunction(n), symbols' # symbols
      PROVE  Len(symbols') = NewId /\ AtHome(symbols'[NewId])
  <2>1. symbols' = Append(symbols, NewSymbol(DeclaringScope(n), n, "Function", FALSE))
    BY <1>7 DEF BeginFunction
  <2> QED  BY <1>3, <2>1 DEF Written, SlotKinds
<1> QED  BY <1>4, <1>5, <1>6, <1>7 DEF Next, Walk, OpenBlock, CloseBlock, EndFunction

LEMMA HomesStep ==
    ASSUME TypeOK, Homes, Grows,
           symbols' = symbols \/ (Len(symbols') = NewId /\ AtHome(symbols'[NewId]))
    PROVE  Homes'
<1>1. ASSUME NEW x, x.owner \in ScopeIds, AtHome(x)
      PROVE  IF scopes'[x.owner].kind = "Function" THEN x.name.scope \notin Global
             ELSE \A k \in 1 .. Len(scopes'[x.owner].path) :
                      scopes'[scopes'[x.owner].path[k]].kind # "Function"
  <2>1. \A k \in 1 .. Len(scopes[x.owner].path) : scopes[x.owner].path[k] \in ScopeIds
    BY <1>1 DEF TypeOK, IdsExist
  <2>2. \A o \in ScopeIds : /\ scopes'[o].kind = scopes[o].kind
                           /\ scopes'[o].path = scopes[o].path
    BY DEF Grows
  <2>3. CASE Callable(x.owner)
    BY <1>1, <2>2, <2>3 DEF AtHome, Callable
  <2>4. CASE ~Callable(x.owner)
    BY <1>1, <2>1, <2>2, <2>4 DEF AtHome, Outside, Callable
  <2> QED  BY <2>3, <2>4
<1>2. ASSUME NEW i \in 1 .. Len(symbols') PROVE AtHome(symbols'[i]) /\ symbols'[i].owner \in ScopeIds
  <2>1. symbols'[i].owner \in ScopeIds
    BY DEF Grows
  <2>2. i \in SymbolIds \/ (symbols' # symbols /\ i = NewId)
    BY <1>2 DEF TypeOK, NewId, SymbolIds
  <2>3. i \in SymbolIds => AtHome(symbols'[i])
    BY DEF Homes, Grows
  <2> QED  BY <2>1, <2>2, <2>3
<1>3. \A i \in 1 .. Len(symbols') :
         IF scopes'[symbols'[i].owner].kind = "Function" THEN symbols'[i].name.scope \notin Global
         ELSE \A k \in 1 .. Len(scopes'[symbols'[i].owner].path) :
                  scopes'[scopes'[symbols'[i].owner].path[k]].kind # "Function"
  BY <1>1, <1>2
<1> QED  BY <1>3 DEF Homes, AtHome, Outside, Callable, SymbolIds

-----------------------------------------------------------------------------
(* What a reference reaches.                                               *)

\* Function f captures symbol s.
Has(f, s) == \E k \in 1 .. Len(functions[f].captures) : functions[f].captures[k] = s

\* What a function captures is another function's.
CapturesOuter ==
    \A f \in FunctionIds : \A k \in 1 .. Len(functions[f].captures) :
        LET o == symbols[functions[f].captures[k]].owner
        IN  Callable(o) /\ o # functions[f].scope

\* A function has captured what it refers to of other functions.
ReferencesCaptured ==
    \A b \in bindings : LET o == symbols[b.symbol].owner IN
        Callable(o) => /\ b.within \in FunctionIds
                       /\ o # functions[b.within].scope => Has(b.within, b.symbol)

\* Assignments and declarations are to the function's own, or outside all.
DeclaredAtHome ==
    \A i \in 1 .. Len(declarations) : LET o == symbols[declarations[i].symbol].owner IN
        Callable(o) => /\ declarations[i].within \in FunctionIds
                       /\ o = functions[declarations[i].within].scope

\* enclosing_function of a function's scope is the function.
LEMMA FunctionOfFacts ==
    ASSUME TypeOK, Paths, Bodies, EveryBody, NEW o \in ScopeIds
    PROVE  /\ Callable(o) => FunctionOf(o) \in FunctionIds /\ functions[FunctionOf(o)].scope = o
           /\ Outside(o) => FunctionOf(o) = None
<1> DEFINE p == scopes[o].path
           IsBody(x) == \E f \in 1 .. Len(functions) : functions[f].scope = x
           IsLast(i) == IsBody(p[i]) /\ \A j \in i + 1 .. Len(p) : ~IsBody(p[j])
           inner == IF \E i \in 1 .. Len(p) : IsLast(i)
                    THEN p[CHOOSE i \in 1 .. Len(p) : IsLast(i)] ELSE None
<1>1. FunctionOf(o) = IF inner = None THEN None
                      ELSE CHOOSE f \in 1 .. Len(functions) : functions[f].scope = inner
  BY DEF FunctionOf, Innermost
<1>2. Len(p) \in Nat /\ Len(p) >= 1 /\ p[Len(p)] = o
  <2>1. scopes[o] \in ScopeType
    BY ElementOfSeq DEF TypeOK, ScopeIds
  <2> QED  BY <2>1 DEF ScopeType, Paths
<1>3. ASSUME Callable(o)
      PROVE  FunctionOf(o) \in FunctionIds /\ functions[FunctionOf(o)].scope = o
  <2>1. IsBody(o)
    BY <1>3 DEF EveryBody, FunctionIds
  <2>2. IsLast(Len(p)) /\ Len(p) \in 1 .. Len(p)
    BY <1>2, <2>1
  <2>3. \A i \in 1 .. Len(p) : IsLast(i) => i = Len(p)
    <3> SUFFICES ASSUME NEW i \in 1 .. Len(p), IsLast(i) PROVE i = Len(p)
      OBVIOUS
    <3>1. ~(Len(p) \in i + 1 .. Len(p))
      BY <1>2, <2>1
    <3> QED  BY <1>2, <3>1
  <2> HIDE DEF IsLast
  <2>4. (CHOOSE i \in 1 .. Len(p) : IsLast(i)) = Len(p)
    BY <2>2, <2>3
  <2>5. inner = o /\ o # None
    <3>1. inner = p[CHOOSE i \in 1 .. Len(p) : IsLast(i)]
      BY <2>2
    <3>2. o # None
      BY DEF ScopeIds, None
    <3> QED  BY <1>2, <2>4, <3>1, <3>2
  <2> HIDE DEF inner
  <2> QED  BY <1>1, <2>1, <2>5 DEF FunctionIds
<1>4. ASSUME Outside(o) PROVE FunctionOf(o) = None
  <2>1. \A i \in 1 .. Len(p) : ~IsBody(p[i])
    BY <1>4 DEF Outside, Bodies, FunctionIds
  <2> QED  BY <1>1, <2>1
<1> QED  BY <1>3, <1>4

\* What the walk captures is of a function around the current one.
LEMMA CapturesFacts ==
    ASSUME TypeOK, Paths, Bodies, EveryBody, Homes, NEW s \in SymbolIds
    PROVE  Captures(s) <=> /\ Current \in FunctionIds
                           /\ Callable(symbols[s].owner)
                           /\ symbols[s].owner # functions[Current].scope
                           /\ ~Has(Current, s)
<1> DEFINE o == symbols[s].owner
           g == FunctionOf(o)
<1>1. o \in ScopeIds /\ AtHome(symbols[s])
  BY DEF TypeOK, IdsExist, Homes
<1>2. /\ Callable(o) => g \in FunctionIds /\ functions[g].scope = o
      /\ ~Callable(o) => g = None
      /\ Callable(o) => symbols[s].name.scope \notin Global
  BY <1>1, FunctionOfFacts DEF AtHome
<1>3. /\ Current \in FunctionIds \cup {None} /\ None \notin FunctionIds
      /\ \A f, h \in FunctionIds : functions[f].scope = functions[h].scope => f = h
  BY CurrentFacts DEF Bodies, FunctionIds, None
<1>4. Captures(s) <=> /\ Current # None /\ g # None /\ g # Current
                      /\ symbols[s].name.scope \notin Global
                      /\ ~Has(Current, s)
  BY DEF Captures, Has
<1> HIDE DEF g, o
<1>5. Callable(o) => (g = Current <=> Current \in FunctionIds /\ functions[Current].scope = o)
  BY <1>2, <1>3
<1> QED  BY <1>2, <1>3, <1>4, <1>5 DEF o

\* Captures are only added, by the current function.
CapturesGrow ==
    \A f \in 1 .. Len(functions') :
        \/ f \in FunctionIds /\ functions'[f].captures = functions[f].captures
        \/ /\ f \in FunctionIds /\ f = Current
           /\ \E s \in SymbolIds : /\ Captures(s)
                                   /\ functions'[f].captures = Append(functions[f].captures, s)
        \/ f \notin FunctionIds /\ functions'[f].captures = <<>>

LEMMA CapturesType ==
    ASSUME TypeOK, NEW f \in FunctionIds
    PROVE  functions[f].captures \in Seq(Nat) /\ Len(functions[f].captures) \in Nat
<1>1. functions[f] \in FunctionType
  BY ElementOfSeq DEF TypeOK, FunctionIds
<1>2. functions[f].captures \in Seq(Nat)
  BY <1>1 DEF FunctionType
<1> QED  BY <1>2

LEMMA UseCaptures ==
    ASSUME TypeOK, NEW s \in SymbolIds, Captures(s),
           functions' = [functions EXCEPT ![Current].captures = Append(@, s)]
    PROVE  /\ Len(functions') = Len(functions)
           /\ \A f \in FunctionIds : f # Current => functions'[f] = functions[f]
           /\ Current \in FunctionIds
           /\ functions'[Current].captures = Append(functions[Current].captures, s)
<1>1. Current \in FunctionIds
  BY CurrentFacts DEF Captures
<1>2. functions[Current] \in FunctionType /\ functions \in Seq(FunctionType)
  BY <1>1, ElementOfSeq DEF TypeOK, FunctionIds
<1> DEFINE c == Append(functions[Current].captures, s)
           g == [functions[Current] EXCEPT !.captures = c]
<1>3. g.captures = c /\ g \in FunctionType
  <2>1. c \in Seq(Nat)
    BY <1>1, CapturesType DEF SymbolIds
  <2> HIDE DEF c
  <2> QED  BY <1>2, <2>1 DEF FunctionType
<1>4. functions' = [functions EXCEPT ![Current] = g]
  OBVIOUS
<1> HIDE DEF g
<1>5. Len(functions') = Len(functions)
  BY <1>1, <1>2, <1>3, <1>4, ExceptSeq DEF FunctionIds
<1>6. \A f \in FunctionIds : functions'[f] = IF f = Current THEN g ELSE functions[f]
  BY <1>2, <1>4 DEF FunctionIds
<1> QED  BY <1>1, <1>3, <1>5, <1>6

LEMMA StepCaptures ==
    ASSUME TypeOK, Next
    PROVE  CapturesGrow
<1>0. Len(functions) \in Nat
  BY DEF TypeOK
<1>1. CASE functions' = functions
  BY <1>1 DEF CapturesGrow, FunctionIds
<1>2. ASSUME NEW n \in Written, UseKnown(n), Captures(Found(n)) PROVE CapturesGrow
  <2>1. PICK s : s = Found(n)
    OBVIOUS
  <2>2. s \in SymbolIds /\ Captures(s)
        /\ functions' = [functions EXCEPT ![Current].captures = Append(@, s)]
    BY <1>2, <2>1, FoundFacts DEF UseKnown
  <2> QED  BY <2>2, UseCaptures DEF CapturesGrow, FunctionIds
<1>3. ASSUME NEW n, BeginFunction(n) PROVE CapturesGrow
  <2> DEFINE g == [scope |-> Len(scopes) + 1, captures |-> <<>>, local_count |-> 0]
  <2>1. functions' = Append(functions, g) /\ functions \in Seq(FunctionType)
    BY <1>3 DEF BeginFunction, TypeOK
  <2>2. g \in FunctionType /\ g.captures = <<>>
    BY DEF FunctionType, TypeOK
  <2> HIDE DEF g
  <2>3. /\ Len(functions') = Len(functions) + 1
        /\ \A i \in 1 .. Len(functions) : functions'[i] = functions[i]
        /\ functions'[Len(functions) + 1] = g
    BY <2>1, <2>2, Appended
  <2>4. \A i \in 1 .. Len(functions') :
            i \in FunctionIds \/ (i = Len(functions) + 1 /\ i \notin FunctionIds)
    BY <1>0, <2>3 DEF FunctionIds
  <2> QED  BY <2>2, <2>3, <2>4 DEF CapturesGrow, FunctionIds
<1>4. CASE EndFunction
  BY <1>4, EndFacts DEF CapturesGrow, FunctionIds
<1> QED  BY <1>1, <1>2, <1>3, <1>4
         DEF Next, Walk, Use, UseKnown, UseMadeUp, UseUnknown, Assign, OpenBlock, CloseBlock,
             Parameter

\* A function keeps what it has captured.
LEMMA HasStays ==
    ASSUME TypeOK, CapturesGrow, NEW f \in FunctionIds, f \in 1 .. Len(functions'),
           NEW s, Has(f, s)
    PROVE  Has(f, s)'
<1>1. PICK k \in 1 .. Len(functions[f].captures) : functions[f].captures[k] = s
  BY DEF Has
<1>2. functions[f].captures \in Seq(Nat)
  BY CapturesType
<1>3. CASE functions'[f].captures = functions[f].captures
  BY <1>1, <1>3 DEF Has
<1>4. CASE \E t \in SymbolIds : functions'[f].captures = Append(functions[f].captures, t)
  <2>1. PICK t \in SymbolIds : functions'[f].captures = Append(functions[f].captures, t)
    BY <1>4
  <2> DEFINE c == functions[f].captures
             d == functions'[f].captures
  <2>2. t \in Nat /\ c \in Seq(Nat) /\ d = Append(c, t) /\ Len(c) \in Nat
    BY <1>2, <2>1 DEF SymbolIds
  <2> HIDE DEF c, d
  <2>3. Len(d) = Len(c) + 1 /\ \A i \in 1 .. Len(c) : d[i] = c[i]
    BY <2>2, Appended
  <2>4. k \in 1 .. Len(d) /\ d[k] = s
    BY <1>1, <2>2, <2>3 DEF c
  <2> QED  BY <2>4 DEF Has, d
<1> QED  BY <1>3, <1>4 DEF CapturesGrow

LEMMA CapturesOuterStep ==
    ASSUME TypeOK, Paths, Bodies, EveryBody, Homes, CapturesOuter, CapturesGrow, Grows,
           \A f \in FunctionIds : functions'[f].scope = functions[f].scope
    PROVE  CapturesOuter'
<1> SUFFICES ASSUME NEW f \in 1 .. Len(functions'), NEW k \in 1 .. Len(functions'[f].captures)
             PROVE  LET o == symbols'[functions'[f].captures[k]].owner
                    IN  scopes'[o].kind = "Function" /\ o # functions'[f].scope
  BY DEF CapturesOuter, FunctionIds, Callable
<1>1. ASSUME f \in FunctionIds, NEW s \in SymbolIds, Callable(symbols[s].owner),
             symbols[s].owner # functions[f].scope
      PROVE  scopes'[symbols'[s].owner].kind = "Function" /\ symbols'[s].owner # functions'[f].scope
  <2>1. symbols[s].owner \in ScopeIds
    BY DEF TypeOK, IdsExist
  <2> QED  BY <1>1, <2>1 DEF Grows, Callable
<1>2. ASSUME f \in FunctionIds, NEW i \in 1 .. Len(functions[f].captures),
             functions'[f].captures[k] = functions[f].captures[i]
      PROVE  LET o == symbols'[functions'[f].captures[k]].owner
             IN  scopes'[o].kind = "Function" /\ o # functions'[f].scope
  <2>1. PICK s : s = functions[f].captures[i]
    OBVIOUS
  <2>2. s \in SymbolIds /\ Callable(symbols[s].owner) /\ symbols[s].owner # functions[f].scope
    BY <1>2, <2>1 DEF CapturesOuter, TypeOK, IdsExist
  <2> QED  BY <1>1, <1>2, <2>1, <2>2
<1>3. CASE f \in FunctionIds /\ functions'[f].captures = functions[f].captures
  BY <1>2, <1>3
<1>4. CASE f \in FunctionIds /\ f = Current
           /\ \E s \in SymbolIds : /\ Captures(s)
                                   /\ functions'[f].captures = Append(functions[f].captures, s)
  <2>1. PICK s \in SymbolIds : Captures(s)
                               /\ functions'[f].captures = Append(functions[f].captures, s)
    BY <1>4
  <2>2. Callable(symbols[s].owner) /\ symbols[s].owner # functions[f].scope
    BY <1>4, <2>1, CapturesFacts
  <2> DEFINE c == functions[f].captures
             d == functions'[f].captures
  <2>3. s \in Nat /\ c \in Seq(Nat) /\ d = Append(c, s) /\ Len(c) \in Nat
    <3>1. s \in Nat
      BY DEF SymbolIds
    <3>2. c \in Seq(Nat)
      BY <1>4, CapturesType
    <3>3. d = Append(c, s)
      BY <2>1
    <3> HIDE DEF c, d
    <3>4. Len(c) \in Nat
      BY <3>2
    <3> QED  BY <3>1, <3>2, <3>3, <3>4
  <2>4. k \in 1 .. Len(d)
    OBVIOUS
  <2> HIDE DEF c, d
  <2>5. Len(d) = Len(c) + 1 /\ d[Len(c) + 1] = s /\ \A i \in 1 .. Len(c) : d[i] = c[i]
    BY <2>3, Appended, SMTT(60)
  <2>6. (k \in 1 .. Len(c) /\ d[k] = c[k]) \/ d[k] = s
    BY <2>3, <2>4, <2>5
  <2> QED  BY <1>1, <1>2, <1>4, <2>2, <2>6 DEF c, d
<1>5. CASE f \notin FunctionIds /\ functions'[f].captures = <<>>
  BY <1>5
<1> QED  BY <1>3, <1>4, <1>5 DEF CapturesGrow

\* The symbol that a name means is of a scope around the walk, or the script's.
LEMMA FoundHome ==
    ASSUME TypeOK, Paths, TablesOwn, NEW n \in Written, NEW s, s = Found(n), s # None
    PROVE  /\ s \in SymbolIds
           /\ \/ symbols[s].owner = Script
              \/ \E k \in 1 .. Len(Path) : symbols[s].owner = Path[k]
<1>1. s \in SymbolIds
  BY FoundFacts
<1>2. CASE n.scope # "unqualified"
  <2>1. PICK q \in ScopeIds : q = QualifiedScope(n)
    BY QualifiedFacts
  <2>2. s = scopes[q].table[n] /\ n \in Names
    BY <1>2, <2>1, NamesKnown DEF Found
  <2>3. symbols[s].owner = q
    BY <2>2 DEF TablesOwn
  <2>4. q = Script \/ q = CallableOr(current_scope)
    BY <2>1 DEF QualifiedScope
  <2>5. CASE q = CallableOr(current_scope)
    <3>1. q = current_scope \/ \E k \in 1 .. Len(Path) : q = Path[k]
      BY <2>5, CallableOrFacts, ScriptIsScope
    <3>2. Len(Path) \in 1 .. Len(Path) /\ Path[Len(Path)] = current_scope
      BY NestedFacts
    <3> QED  BY <1>1, <2>3, <3>1, <3>2
  <2> QED  BY <1>1, <2>3, <2>4, <2>5
<1>3. CASE n.scope = "unqualified"
  <2> DEFINE Known(i) == /\ Candidates(Path[i], n) # None
                         /\ \A j \in i + 1 .. Len(Path) : ~(Candidates(Path[j], n) # None)
  <2>1. CASE \E i \in 1 .. Len(Path) : Known(i)
    <3>1. PICK i \in 1 .. Len(Path) :
              s = (IF Path[i] = None THEN None ELSE Candidates(Path[i], n))
      BY <1>3, <2>1 DEF Found, Innermost
    <3>2. PICK x \in ScopeIds : x = Path[i]
      BY PathFacts
    <3>3. s = Candidates(x, n)
      BY <3>1, <3>2
    <3>4. \E m \in Names : s = scopes[x].table[m]
      BY <3>3, NamesKnown DEF Candidates
    <3>5. symbols[s].owner = x
      BY <3>4 DEF TablesOwn
    <3> QED  BY <1>1, <3>2, <3>5
  <2>2. CASE ~\E i \in 1 .. Len(Path) : Known(i)
    BY <1>3, <2>2 DEF Found, Innermost
  <2> QED  BY <2>1, <2>2
<1> QED  BY <1>2, <1>3

\* What holds of a reference the walk has just made to symbol s.
Reached(s) ==
    LET o == symbols'[s].owner IN
    Callable(o) =>
        /\ Current \in FunctionIds
        /\ \E k \in 1 .. Len(scopes[functions[Current].scope].path) :
               scopes[functions[Current].scope].path[k] = o
        /\ o # functions[Current].scope =>
               \E k \in 1 .. Len(functions'[Current].captures) :
                   functions'[Current].captures[k] = s

BindingsGrow ==
    \/ bindings' = bindings
    \/ \E s \in 1 .. Len(symbols') :
           /\ bindings' = bindings \cup {[within |-> Current, symbol |-> s]}
           /\ Reached(s)

LEMMA StepBinds ==
    ASSUME TypeOK, Paths, Bodies, OpenAround, Nested, EveryBody, TablesOwn, Homes, Next
    PROVE  BindingsGrow
<1>1. ASSUME NEW n \in Written, UseKnown(n) PROVE BindingsGrow
  <2>1. PICK s : s = Found(n)
    OBVIOUS
  <2>2. /\ s # None /\ bindings' = bindings \cup {[within |-> Current, symbol |-> s]}
        /\ symbols' = symbols
        /\ functions' = IF Captures(s)
                        THEN [functions EXCEPT ![Current].captures = Append(@, s)]
                        ELSE functions
    BY <1>1, <2>1 DEF UseKnown, Bind
  <2>3. /\ s \in SymbolIds
        /\ \/ symbols[s].owner = Script
           \/ \E k \in 1 .. Len(Path) : symbols[s].owner = Path[k]
    BY <2>1, <2>2, FoundHome
  <2>4. ASSUME Callable(symbols[s].owner)
        PROVE  /\ Current \in FunctionIds
               /\ \E k \in 1 .. Len(scopes[functions[Current].scope].path) :
                      scopes[functions[Current].scope].path[k] = symbols[s].owner
    <3>1. PICK k \in 1 .. Len(Path) : symbols[s].owner = Path[k]
      BY <2>3, <2>4 DEF Bodies
    <3>2. Callable(Path[k])
      BY <2>4, <3>1
    <3> QED  BY <3>1, <3>2, ScriptIsScope, InnermostBody
  <2>5. ASSUME Callable(symbols[s].owner), symbols[s].owner # functions[Current].scope
        PROVE  \E k \in 1 .. Len(functions'[Current].captures) :
                   functions'[Current].captures[k] = s
    <3>1. Current \in FunctionIds
      BY <2>4, <2>5
    <3>2. CASE ~Captures(s)
      BY <2>2, <2>3, <2>5, <3>1, <3>2, CapturesFacts DEF Has
    <3>3. CASE Captures(s)
      <4> DEFINE c == functions[Current].captures
                 d == functions'[Current].captures
      <4>1. d = Append(c, s)
        BY <2>2, <2>3, <3>3, UseCaptures
      <4>2. c \in Seq(Nat) /\ Len(c) \in Nat /\ s \in Nat
        BY <2>3, <3>1, CapturesType DEF SymbolIds
      <4> HIDE DEF c, d
      <4>3. Len(d) = Len(c) + 1 /\ d[Len(c) + 1] = s
        BY <4>1, <4>2, Appended
      <4>4. Len(c) + 1 \in 1 .. Len(d)
        BY <4>2, <4>3
      <4> QED  BY <4>3, <4>4 DEF d
    <3> QED  BY <3>2, <3>3
  <2>6. Reached(s)
    BY <2>2, <2>4, <2>5 DEF Reached
  <2> QED  BY <2>2, <2>3, <2>6 DEF BindingsGrow, SymbolIds
<1>2. ASSUME NEW n \in Written, UseMadeUp(n) PROVE BindingsGrow
  <2>1. PICK m \in Names, k \in SlotKinds, b \in BOOLEAN : MadeUp(n) = <<m, k, b>>
    <3>1. MadeUp(n) # <<>>
      BY <1>2 DEF UseMadeUp
    <3> QED  BY <3>1, NamesKnown, ScriptNames DEF MadeUp, SlotKinds
  <2> DEFINE added == NewSymbol(Script, m, k, b)
  <2>2. symbols' = Append(symbols, added)
        /\ bindings' = bindings \cup {[within |-> Current, symbol |-> NewId]}
    BY <1>2, <2>1 DEF UseMadeUp, DefineIn, Bind
  <2>3. added.owner = Script /\ added \in SymbolType
    BY ScriptIsScope, NewSymbolType DEF NewSymbol, Symbol
  <2> HIDE DEF added
  <2>4. symbols'[NewId] = added /\ Len(symbols') = NewId
    BY <2>2, <2>3, SymbolAdded
  <2>5. NewId \in 1 .. Len(symbols')
    BY <2>4 DEF NewId, TypeOK
  <2>6. Reached(NewId)
    BY <2>3, <2>4 DEF Reached, Bodies
  <2> QED  BY <2>2, <2>5, <2>6 DEF BindingsGrow
<1>3. CASE UNCHANGED bindings
  BY <1>3 DEF BindingsGrow
<1> QED  BY <1>1, <1>2, <1>3
         DEF Next, Walk, Use, UseUnknown, Assign, OpenBlock, CloseBlock, BeginFunction,
             Parameter, EndFunction

LEMMA ReferencesStep ==
    ASSUME TypeOK, Grows, CapturesGrow, BindingsGrow, ReferencesCaptured, LocalsStayInside,
           \A f \in FunctionIds : f \in FunctionIds' /\ functions'[f].scope = functions[f].scope
    PROVE  ReferencesCaptured' /\ LocalsStayInside'
<1> SUFFICES ASSUME NEW b \in bindings', scopes'[symbols'[b.symbol].owner].kind = "Function"
             PROVE  LET o == symbols'[b.symbol].owner
                        x == functions'[b.within].scope
                    IN  /\ b.within \in FunctionIds' /\ b.within # None
                        /\ o # x => Has(b.within, b.symbol)'
                        /\ \E k \in 1 .. Len(scopes'[x].path) : scopes'[x].path[k] = o
  BY DEF ReferencesCaptured, LocalsStayInside, Callable
<1>1. \A f \in FunctionIds : /\ f \in FunctionIds' /\ f # None
                             /\ functions'[f].scope = functions[f].scope
                             /\ functions[f].scope \in ScopeIds
  BY DEF TypeOK, IdsExist, FunctionIds, None
<1>2. \A i \in 1 .. Len(symbols') : symbols'[i].owner \in ScopeIds
  BY DEF Grows
<1>3. \A x \in ScopeIds : scopes'[x].path = scopes[x].path /\ scopes'[x].kind = scopes[x].kind
  BY DEF Grows
<1>4. CASE b \in bindings
  <2>1. PICK o : o = symbols[b.symbol].owner
    OBVIOUS
  <2>2. b.symbol \in SymbolIds /\ symbols'[b.symbol].owner = o /\ o \in ScopeIds
    BY <1>4, <2>1 DEF TypeOK, IdsExist, Refers, Grows
  <2>3. Callable(o)
    BY <1>3, <2>2 DEF Callable
  <2>4. /\ b.within \in FunctionIds
        /\ o # functions[b.within].scope => Has(b.within, b.symbol)
        /\ \E k \in 1 .. Len(scopes[functions[b.within].scope].path) :
               scopes[functions[b.within].scope].path[k] = o
    BY <1>4, <2>1, <2>3 DEF ReferencesCaptured, LocalsStayInside
  <2>5. PICK f : f = b.within
    OBVIOUS
  <2>6. PICK s : s = b.symbol
    OBVIOUS
  <2>7. Has(f, s) => Has(f, s)'
    BY <1>1, <2>4, <2>5, HasStays DEF FunctionIds
  <2> QED  BY <1>1, <1>3, <2>2, <2>4, <2>5, <2>6, <2>7
<1>5. CASE b \notin bindings
  <2>1. PICK s \in 1 .. Len(symbols') : b = [within |-> Current, symbol |-> s] /\ Reached(s)
    BY <1>5 DEF BindingsGrow
  <2>2. PICK f : f = Current
    OBVIOUS
  <2>3. PICK o \in ScopeIds : o = symbols'[s].owner
    BY <1>2, <2>1
  <2>4. b.within = f /\ b.symbol = s /\ Callable(o)
    BY <1>3, <2>1, <2>2, <2>3 DEF Callable
  <2>5. /\ f \in FunctionIds
        /\ \E k \in 1 .. Len(scopes[functions[f].scope].path) :
               scopes[functions[f].scope].path[k] = o
        /\ o # functions[f].scope =>
               \E k \in 1 .. Len(functions'[f].captures) : functions'[f].captures[k] = s
    BY <2>1, <2>2, <2>3, <2>4 DEF Reached
  <2> QED  BY <1>1, <1>3, <2>3, <2>4, <2>5 DEF Has
<1> QED  BY <1>4, <1>5

\* What a step may declare: the current function's own, or what is outside all;
\* and without a complaint, what is new or mutable.
DeclarationsGrow ==
    /\ diagnostics \subseteq diagnostics'
    /\ \/ declarations' = declarations
       \/ \E s \in 1 .. Len(symbols') :
              /\ declarations' = Append(declarations, [within |-> Current, symbol |-> s])
              /\ LET o == symbols'[s].owner
                 IN  Callable(o) => Current \in FunctionIds /\ o = functions[Current].scope
              /\ diagnostics' = {} /\ s \in SymbolIds => symbols[s].mutable

LEMMA StepDeclares ==
    ASSUME TypeOK, Paths, Bodies, OpenAround, Nested, ScriptFirst, TablesOwn, Next
    PROVE  DeclarationsGrow
<1>1. ASSUME NEW n \in Written, NEW s, s = scopes[DeclaringScope(n)].table[n], s # None,
             symbols' = symbols, diagnostics \subseteq diagnostics',
             declarations' = Append(declarations, [within |-> Current, symbol |-> s]),
             diagnostics' = {} => symbols[s].mutable
      PROVE  DeclarationsGrow
  <2>1. PICK o \in ScopeIds : o = DeclaringScope(n)
    BY QualifiedFacts
  <2>2. s \in SymbolIds /\ symbols[s].owner = o
    BY <1>1, <2>1, KnownFacts, NamesKnown DEF TablesOwn
  <2>3. Callable(o) => Current \in FunctionIds /\ o = functions[Current].scope
    BY <2>1, DeclaredHome
  <2> QED  BY <1>1, <2>2, <2>3 DEF DeclarationsGrow, SymbolIds
<1>2. ASSUME NEW n \in Written, NEW k \in SlotKinds, NEW m \in BOOLEAN,
             symbols' = Append(symbols, NewSymbol(DeclaringScope(n), n, k, m)),
             diagnostics \subseteq diagnostics',
             declarations' = Append(declarations, [within |-> Current, symbol |-> NewId])
      PROVE  DeclarationsGrow
  <2>1. PICK o \in ScopeIds : o = DeclaringScope(n)
    BY QualifiedFacts
  <2> DEFINE added == NewSymbol(o, n, k, m)
  <2>2. symbols' = Append(symbols, added) /\ added.owner = o /\ added \in SymbolType
    BY <1>2, <2>1, NewSymbolType, NamesKnown DEF NewSymbol, Symbol
  <2> HIDE DEF added
  <2>3. symbols'[NewId] = added /\ Len(symbols') = NewId
    BY <2>2, SymbolAdded
  <2>4. NewId \in 1 .. Len(symbols') /\ NewId \notin SymbolIds
    BY <2>3 DEF NewId, SymbolIds, TypeOK
  <2>5. Callable(o) => Current \in FunctionIds /\ o = functions[Current].scope
    BY <2>1, DeclaredHome
  <2> QED  BY <1>2, <2>2, <2>3, <2>4, <2>5 DEF DeclarationsGrow
<1>3. ASSUME NEW n \in Variables, NEW c \in BOOLEAN, Assign(n, c) PROVE DeclarationsGrow
  <2>1. n \in Written /\ "Variable" \in SlotKinds /\ (~c) \in BOOLEAN
    BY DEF Written, SlotKinds
  <2>2. PICK s : s = scopes[DeclaringScope(n)].table[n]
    OBVIOUS
  <2>3. CASE s # None
    <3>1. /\ declarations' = Append(declarations, [within |-> Current, symbol |-> s])
          /\ diagnostics' = diagnostics \cup Complaint(s, c) /\ symbols' = symbols
      BY <1>3, <2>2, <2>3 DEF Assign, Declare
    <3>2. diagnostics' = {} => symbols[s].mutable
      BY <3>1 DEF Complaint
    <3> QED  BY <1>1, <2>1, <2>2, <2>3, <3>1, <3>2
  <2>4. CASE s = None
    <3>1. /\ declarations' = Append(declarations, [within |-> Current, symbol |-> NewId])
          /\ diagnostics' = diagnostics
          /\ symbols' = Append(symbols, NewSymbol(DeclaringScope(n), n, "Variable", ~c))
      BY <1>3, <2>2, <2>4 DEF Assign, Declare, DefineIn
    <3> QED  BY <1>2, <2>1, <3>1
  <2> QED  BY <2>3, <2>4
<1>4. ASSUME NEW n \in FunctionNames, BeginFunction(n) PROVE DeclarationsGrow
  <2>1. n \in Written /\ "Function" \in SlotKinds
    BY DEF Written, SlotKinds
  <2>2. PICK s : s = scopes[DeclaringScope(n)].table[n]
    OBVIOUS
  <2>3. CASE s # None
    <3>1. /\ declarations' = Append(declarations, [within |-> Current, symbol |-> s])
          /\ diagnostics' = diagnostics \cup {"R002"} /\ symbols' = symbols
      BY <1>4, <2>2, <2>3 DEF BeginFunction, Declare
    <3>2. diagnostics' # {}
      BY <3>1
    <3> QED  BY <1>1, <2>1, <2>2, <2>3, <3>1, <3>2
  <2>4. CASE s = None
    <3>1. /\ declarations' = Append(declarations, [within |-> Current, symbol |-> NewId])
          /\ diagnostics' = diagnostics
          /\ symbols' = Append(symbols, NewSymbol(DeclaringScope(n), n, "Function", FALSE))
      BY <1>4, <2>2, <2>4 DEF BeginFunction, Declare
    <3> QED  BY <1>2, <2>1, <3>1
  <2> QED  BY <2>3, <2>4
<1>5. CASE declarations' = declarations /\ diagnostics \subseteq diagnostics'
  BY <1>5 DEF DeclarationsGrow
<1> QED  BY <1>3, <1>4, <1>5
         DEF Next, Walk, Use, UseKnown, UseMadeUp, UseUnknown, OpenBlock, CloseBlock,
             Parameter, EndFunction

\* The declarations after a step: those before it, and perhaps one more.
LEMMA DeclarationsAre ==
    ASSUME TypeOK, NEW s \in Nat, NEW n, n = Len(declarations),
           declarations' = Append(declarations, [within |-> Current, symbol |-> s])
    PROVE  /\ n \in Nat /\ Len(declarations') = n + 1
           /\ \A i \in 1 .. n : declarations'[i] = declarations[i] /\ Refers(declarations[i])
           /\ declarations'[n + 1].within = Current /\ declarations'[n + 1].symbol = s
           /\ \A i \in 1 .. n + 1 : i \in 1 .. n \/ i = n + 1
<1> DEFINE d == [within |-> Current, symbol |-> s]
<1>1. Current \in Nat
  BY CurrentFacts DEF FunctionIds, None
<1>2. d \in ReferenceType /\ declarations' = Append(declarations, d)
      /\ d.within = Current /\ d.symbol = s
  BY <1>1 DEF ReferenceType
<1>3. declarations \in Seq(ReferenceType) /\ n \in Nat
      /\ \A i \in 1 .. n : Refers(declarations[i])
  BY DEF TypeOK, IdsExist
<1> HIDE DEF d
<1>4. /\ Len(declarations') = n + 1
      /\ \A i \in 1 .. n : declarations'[i] = declarations[i]
      /\ declarations'[n + 1] = d
  BY <1>2, <1>3, Appended
<1> QED  BY <1>2, <1>3, <1>4

LEMMA DeclaredStep ==
    ASSUME TypeOK, Grows, DeclarationsGrow, DeclaredAtHome,
           \A f \in FunctionIds : f \in FunctionIds' /\ functions'[f].scope = functions[f].scope
    PROVE  DeclaredAtHome'
<1> DEFINE Good(r) == scopes'[symbols'[r.symbol].owner].kind = "Function" =>
                          /\ r.within \in FunctionIds'
                          /\ symbols'[r.symbol].owner = functions'[r.within].scope
<1>1. ASSUME NEW r, Refers(r),
             Callable(symbols[r.symbol].owner) =>
                 r.within \in FunctionIds /\ symbols[r.symbol].owner = functions[r.within].scope
      PROVE  Good(r)
  <2>1. /\ symbols'[r.symbol] = symbols[r.symbol] /\ symbols[r.symbol].owner \in ScopeIds
    BY <1>1 DEF Refers, Grows, TypeOK, IdsExist
  <2> QED  BY <1>1, <2>1 DEF Grows, Callable
<1>2. CASE declarations' = declarations
  <2>1. \A i \in 1 .. Len(declarations) : Good(declarations[i])
    BY <1>1 DEF DeclaredAtHome, TypeOK, IdsExist
  <2> QED  BY <1>2, <2>1 DEF DeclaredAtHome, Callable
<1>3. ASSUME NEW s \in 1 .. Len(symbols'),
             declarations' = Append(declarations, [within |-> Current, symbol |-> s]),
             LET o == symbols'[s].owner
             IN  Callable(o) => Current \in FunctionIds /\ o = functions[Current].scope
      PROVE  DeclaredAtHome'
  <2>n. PICK n : n = Len(declarations)
    OBVIOUS
  <2>1. /\ n \in Nat /\ Len(declarations') = n + 1
        /\ \A i \in 1 .. n : declarations'[i] = declarations[i] /\ Refers(declarations[i])
        /\ declarations'[n + 1].within = Current /\ declarations'[n + 1].symbol = s
        /\ \A i \in 1 .. n + 1 : i \in 1 .. n \/ i = n + 1
    BY <1>3, <2>n, DeclarationsAre
  <2>2. \A i \in 1 .. n : Good(declarations'[i])
    BY <1>1, <2>n, <2>1 DEF DeclaredAtHome
  <2>3. Good(declarations'[n + 1])
    <3>1. symbols'[s].owner \in ScopeIds
      BY DEF Grows
    <3> QED  BY <1>3, <2>1, <3>1 DEF Grows, Callable
  <2> HIDE DEF Good
  <2>4. \A i \in 1 .. Len(declarations') : Good(declarations'[i])
    BY <2>1, <2>2, <2>3
  <2> QED  BY <2>4 DEF DeclaredAtHome, Callable, Good
<1> QED  BY <1>2, <1>3 DEF DeclarationsGrow

LEMMA ImmutableStep ==
    ASSUME TypeOK, Grows, DeclarationsGrow, ImmutableSetOnce
    PROVE  ImmutableSetOnce'
<1> SUFFICES ASSUME diagnostics' = {}, NEW i \in 1 .. Len(declarations'),
                    NEW j \in 1 .. Len(declarations'), i # j,
                    declarations'[i].symbol = declarations'[j].symbol
             PROVE  symbols'[declarations'[i].symbol].mutable
  BY DEF ImmutableSetOnce
<1>1. diagnostics = {}
  BY DEF DeclarationsGrow
<1>2. \A k \in 1 .. Len(declarations) :
          /\ declarations[k].symbol \in SymbolIds
          /\ symbols'[declarations[k].symbol] = symbols[declarations[k].symbol]
  BY DEF TypeOK, IdsExist, Refers, Grows
<1>3. CASE declarations' = declarations
  BY <1>1, <1>2, <1>3 DEF ImmutableSetOnce
<1>4. ASSUME NEW s \in 1 .. Len(symbols'),
             declarations' = Append(declarations, [within |-> Current, symbol |-> s]),
             s \in SymbolIds => symbols[s].mutable
      PROVE  symbols'[declarations'[i].symbol].mutable
  <2>n. PICK n : n = Len(declarations)
    OBVIOUS
  <2>1. /\ n \in Nat /\ Len(declarations') = n + 1
        /\ \A k \in 1 .. n : declarations'[k] = declarations[k]
        /\ declarations'[n + 1].symbol = s
        /\ \A k \in 1 .. n + 1 : k \in 1 .. n \/ k = n + 1
    BY <1>4, <2>n, DeclarationsAre
  <2>2. CASE i \in 1 .. n /\ j \in 1 .. n
    BY <1>1, <1>2, <2>n, <2>1, <2>2 DEF ImmutableSetOnce
  <2>3. CASE \E k \in 1 .. n : declarations[k].symbol = s
    <3>1. s \in SymbolIds /\ symbols'[s] = symbols[s]
      BY <1>2, <2>n, <2>3
    <3>2. declarations'[i].symbol = s \/ (i \in 1 .. n /\ j \in 1 .. n)
      BY <2>1
    <3> QED  BY <1>4, <2>2, <3>1, <3>2
  <2> QED  BY <2>1, <2>2, <2>3
<1> QED  BY <1>3, <1>4 DEF DeclarationsGrow

-----------------------------------------------------------------------------
(* Together.                                                               *)

References ==
    /\ Invariant
    /\ Nested /\ ScriptFirst /\ EveryBody /\ TablesOwn /\ Homes
    /\ CapturesOuter /\ ReferencesCaptured /\ LocalsStayInside /\ DeclaredAtHome

LEMMA ReferencesInit == Init => References /\ ImmutableSetOnce
<1> SUFFICES ASSUME Init PROVE References /\ ImmutableSetOnce
  OBVIOUS
<1>1. Invariant
  BY InvariantInit
<1>2. /\ Len(function_stack) = 0 /\ FunctionIds = {} /\ bindings = {} /\ Len(declarations) = 0
      /\ ScopeIds = {Script} /\ scopes[Script].kind = "Script" /\ Len(scopes[Script].path) = 1
      /\ scopes[Script].path[1] = Script
  BY DEF Init, FunctionIds, ScopeIds, Script
<1>3. \A i \in SymbolIds : symbols[i].owner = Script
  <2>1. \A i \in 1 .. Len(Builtins) : symbols[i].owner = Script
    BY DEF Init, Symbol
  <2>2. Len(symbols) = Len(Builtins)
    <3>1. Len(Builtins) \in Nat
      BY ResolverAssumption DEF ResolverAssumption
    <3> DEFINE b(i) == Symbol(Plain(Builtins[i]), "Builtin", FALSE, 0, Script)
    <3>2. symbols = [i \in 1 .. Len(Builtins) |-> b(i)]
      BY DEF Init
    <3> HIDE DEF b
    <3> QED  BY <3>1, <3>2
  <2> QED  BY <2>1, <2>2 DEF SymbolIds
<1>4. ~Callable(Script)
  BY <1>2 DEF Callable
<1>5. Nested /\ ScriptFirst /\ EveryBody
  BY <1>2, <1>4 DEF Nested, ScriptFirst, EveryBody
<1>6. TablesOwn
  BY <1>1, <1>2, <1>3, TableFacts DEF TablesOwn, Invariant
<1>7. Homes
  BY <1>2, <1>3, <1>4 DEF Homes, AtHome, Outside
<1>8. CapturesOuter /\ ReferencesCaptured /\ LocalsStayInside /\ DeclaredAtHome
      /\ ImmutableSetOnce
  BY <1>2 DEF CapturesOuter, ReferencesCaptured, LocalsStayInside, DeclaredAtHome,
              ImmutableSetOnce
<1> QED  BY <1>1, <1>5, <1>6, <1>7, <1>8 DEF References

LEMMA ReferencesStill == References /\ ImmutableSetOnce /\ UNCHANGED vars
                             => References' /\ ImmutableSetOnce'
<1> SUFFICES ASSUME References, ImmutableSetOnce, UNCHANGED vars
             PROVE  References' /\ ImmutableSetOnce'
  OBVIOUS
<1>1. /\ scopes' = scopes /\ symbols' = symbols /\ functions' = functions
      /\ bindings' = bindings /\ declarations' = declarations
      /\ current_scope' = current_scope /\ function_stack' = function_stack
      /\ diagnostics' = diagnostics
  BY DEF vars
<1>2. ScopeIds' = ScopeIds /\ SymbolIds' = SymbolIds /\ FunctionIds' = FunctionIds
  BY <1>1 DEF ScopeIds, SymbolIds, FunctionIds
<1>3. Invariant'
  BY InvariantStep DEF References
<1>4. Nested' /\ ScriptFirst' /\ EveryBody'
  BY <1>1, <1>2 DEF References, Nested, Depth, Body, Path, ScriptFirst, EveryBody, Callable
<1>5. TablesOwn' /\ Homes'
  BY <1>1, <1>2 DEF References, TablesOwn, Homes, AtHome, Outside, Callable
<1>6. CapturesOuter' /\ ReferencesCaptured' /\ LocalsStayInside'
  BY <1>1, <1>2 DEF References, CapturesOuter, ReferencesCaptured, LocalsStayInside, Has, Callable
<1>7. DeclaredAtHome' /\ ImmutableSetOnce'
  BY <1>1, <1>2 DEF References, DeclaredAtHome, ImmutableSetOnce, Callable
<1> QED  BY <1>3, <1>4, <1>5, <1>6, <1>7 DEF References

LEMMA ReferencesKept == References /\ ImmutableSetOnce /\ [Next]_vars
                            => References' /\ ImmutableSetOnce'
<1> SUFFICES ASSUME References, ImmutableSetOnce, Next
             PROVE  References' /\ ImmutableSetOnce'
  BY ReferencesStill
<1>1. /\ TypeOK /\ Paths /\ Bodies /\ OpenAround /\ ParametersFirst /\ Invariant
      /\ Nested /\ ScriptFirst /\ EveryBody /\ TablesOwn /\ Homes
      /\ CapturesOuter /\ ReferencesCaptured /\ LocalsStayInside /\ DeclaredAtHome
  BY DEF References, Invariant
<1>2. Stays \/ Begins \/ OpenBlock \/ CloseBlock \/ EndFunction
  BY <1>1, Shapes DEF Bodies
<1>3. Grows /\ \A f \in FunctionIds : f \in FunctionIds' /\ functions'[f].scope = functions[f].scope
  BY <1>1, <1>2, StepGrows, BodiesKept
<1>4. CapturesGrow /\ BindingsGrow /\ DeclarationsGrow
  BY <1>1, StepCaptures, StepBinds, StepDeclares
<1>5. Invariant'
  BY <1>1, InvariantStep
<1>6. Nested' /\ ScriptFirst' /\ EveryBody' /\ TablesOwn'
  BY <1>1, <1>2, <1>3, NestedStep, EveryBodyStep, TablesStep
<1>7. Homes'
  BY <1>1, <1>3, StepHomes, HomesStep
<1>8. CapturesOuter' /\ ReferencesCaptured' /\ LocalsStayInside'
  BY <1>1, <1>3, <1>4, CapturesOuterStep, ReferencesStep
<1>9. DeclaredAtHome' /\ ImmutableSetOnce'
  BY <1>1, <1>3, <1>4, DeclaredStep, ImmutableStep
<1> QED  BY <1>5, <1>6, <1>7, <1>8, <1>9 DEF References

\* A variable of a function is referred to by that function and those declared
\* inside it, however scopes are opened and closed around them (push_scope,
\* pop_scope and function_stack of resolver.rs stay in step).
THEOREM LocalsAlwaysStayInside == Spec => []LocalsStayInside
<1>1. References => LocalsStayInside
  BY DEF References
<1> QED  BY <1>1, ReferencesInit, ReferencesKept, PTL DEF Spec

\* In a script without diagnostics no constant, function or builtin is given a
\* value twice (declare_name and define_or_diagnose, resolver.rs).
THEOREM ImmutablesAreSetOnce == Spec => []ImmutableSetOnce
  BY ReferencesInit, ReferencesKept, PTL DEF Spec

\* Every reference compiles to an instruction that reaches its variable, and no
\* assignment to one that the machine refuses (capture_if_needed, resolver.rs;
\* load_symbol and store_symbol, compiler.rs).
THEOREM ReferencesAlwaysReach == Spec => []ReferencesReach
<1>1. ASSUME References PROVE ReferencesReach
  <2>1. /\ TypeOK /\ Paths /\ Bodies /\ EveryBody /\ Homes
        /\ CapturesOuter /\ ReferencesCaptured /\ DeclaredAtHome
    BY <1>1 DEF References, Invariant
  <2>2. /\ \A i \in SymbolIds : symbols[i].owner \in ScopeIds /\ AtHome(symbols[i])
        /\ None \notin FunctionIds
    BY <2>1 DEF TypeOK, IdsExist, Homes, FunctionIds, None
  <2>3. ASSUME NEW f \in FunctionIds \cup {None}, NEW s \in SymbolIds
        PROVE  Place(f, s)[1] = IF f # None /\ Has(f, s) THEN "capture"
                                ELSE IF f # None /\ symbols[s].owner = functions[f].scope
                                THEN "local" ELSE "global"
    BY DEF Place, Has
  <2>4. ASSUME NEW f \in FunctionIds, NEW s \in SymbolIds, Has(f, s)
        PROVE  Callable(symbols[s].owner) /\ symbols[s].owner # functions[f].scope
    BY <2>1, <2>4 DEF Has, CapturesOuter
  <2>5. \A f \in FunctionIds : Callable(functions[f].scope)
    BY <2>1 DEF Bodies
  <2>6. ASSUME NEW b \in bindings
        PROVE  Place(b.within, b.symbol)[1] =
                   (IF ~Callable(symbols[b.symbol].owner) THEN "global"
                    ELSE IF FunctionOf(symbols[b.symbol].owner) = b.within THEN "local"
                    ELSE "capture")
    <3>1. PICK f \in FunctionIds \cup {None} : f = b.within
      BY <2>1 DEF TypeOK, IdsExist, Refers
    <3>2. PICK s \in SymbolIds : s = b.symbol
      BY <2>1 DEF TypeOK, IdsExist, Refers
    <3>3. PICK o \in ScopeIds : o = symbols[s].owner
      BY <2>2
    <3>4. CASE ~Callable(o)
      BY <2>2, <2>3, <2>4, <2>5, <3>1, <3>2, <3>3, <3>4
    <3>5. CASE Callable(o)
      <4>1. f \in FunctionIds /\ (o # functions[f].scope => Has(f, s))
        BY <2>1, <3>1, <3>2, <3>3, <3>5 DEF ReferencesCaptured
      <4>2. FunctionOf(o) \in FunctionIds /\ functions[FunctionOf(o)].scope = o
        BY <2>1, <3>5, FunctionOfFacts
      <4>3. FunctionOf(o) = f <=> functions[f].scope = o
        BY <2>1, <4>1, <4>2 DEF Bodies
      <4> QED  BY <2>2, <2>3, <2>4, <3>1, <3>2, <3>3, <3>5, <4>1, <4>3
    <3> QED  BY <3>4, <3>5
  <2>7. ASSUME NEW i \in 1 .. Len(declarations)
        PROVE  LET d == declarations[i]
               IN  Place(d.within, d.symbol)[1] =
                       IF Callable(symbols[d.symbol].owner) THEN "local" ELSE "global"
    <3>1. PICK f \in FunctionIds \cup {None} : f = declarations[i].within
      BY <2>1 DEF TypeOK, IdsExist, Refers
    <3>2. PICK s \in SymbolIds : s = declarations[i].symbol
      BY <2>1 DEF TypeOK, IdsExist, Refers
    <3>3. Callable(symbols[s].owner) => f \in FunctionIds /\ symbols[s].owner = functions[f].scope
      BY <2>1, <3>1, <3>2 DEF DeclaredAtHome
    <3> QED  BY <2>2, <2>3, <2>4, <2>5, <3>1, <3>2, <3>3
  <2> QED  BY <2>6, <2>7 DEF ReferencesReach
<1>2. References => ReferencesReach
  BY <1>1
<1> QED  BY <1>2, ReferencesInit, ReferencesKept, PTL DEF Spec
===============================================================================
