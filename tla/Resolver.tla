------------------------------ MODULE Resolver ------------------------------
(***************************************************************************)
(* src/resolver.rs: which variable every name of a script means, and the   *)
(* choice src/compiler.rs makes from it: local slot, capture or global.    *)
(*                                                                         *)
(* The resolver walks the tree that the parser built.  Here the tree is    *)
(* not given: every action is the next thing the walk meets, so that a     *)
(* behaviour is one script read from its first line on.  An assignment is  *)
(* the uses in its value, then Assign; a `for` is the uses in its list,    *)
(* OpenBlock and Assign; a default is a use between two parameters.        *)
(*                                                                         *)
(* The parser builds no lambda, `...`, user command or catch binding: the  *)
(* resolver's code for them is not reached.  Ids count from 1, slots from  *)
(* 0 as in the code.                                                       *)
(***************************************************************************)
EXTENDS Integers, Sequences, FiniteSets

CONSTANTS
    Variables,      \* the names that assignments and expressions use
    FunctionNames,  \* the names that functions are declared with
    Parameters,     \* the identifiers of parameters
    Builtins,       \* a sequence of the identifiers known from the start
    Autoloads,      \* the identifiers that contain a `#`
    MaxScopes, MaxSymbols, MaxFunctions, MaxDeclarations, MaxBindings,
    MaxDiagnostics  \* a walk is followed until it has given so many codes

\* A ScopedName, which is also the key of a scope's table: symbol_key is
\* injective.
Name(prefix, identifier) == [scope |-> prefix, name |-> identifier]
Plain(identifier) == Name("unqualified", identifier)

\* Names that live outside every function, and those of the function.
Global  == {"g", "s", "b", "w", "t", "v"}
OfFrame == {"l", "a"}
Prefixes == Global \cup OfFrame \cup {"unqualified"}
Arguments == {Name("a", p) : p \in Parameters}

Version == Name("v", "version")
Written == Variables \cup FunctionNames

\* The names a scope's table can hold, and be asked for.
Names ==
    Written \cup Arguments \cup {Version}
    \cup {Plain(Builtins[i]) : i \in 1 .. Len(Builtins)}
    \cup {Name(p, n.name) : p \in OfFrame, n \in Written}

ASSUME ResolverAssumption ==
    /\ \A n \in Written : n.scope \in Prefixes /\ n = Name(n.scope, n.name)
    /\ Builtins \in Seq({Builtins[i] : i \in 1 .. Len(Builtins)})
    /\ {MaxScopes, MaxSymbols, MaxFunctions, MaxDeclarations, MaxBindings,
        MaxDiagnostics} \subseteq Nat

VARIABLES
    scopes,          \* LexicalScope: the ids from the script to the scope, kind, table
    symbols,         \* Symbol
    functions,       \* ResolvedFunction: its scope, captures and local_count
    bindings,        \* which function refers to which symbol
    declarations,    \* which function declares or assigns which symbol, in order
    current_scope,
    function_stack,
    diagnostics,     \* the codes given
    in_parameters    \* the walk is in a parameter list

vars == <<scopes, symbols, functions, bindings, declarations, current_scope,
          function_stack, diagnostics, in_parameters>>

Script == 1       \* ScopeId(0)
None   == 0       \* no symbol, no function, no scope

SlotKinds == {"Variable", "Parameter", "Function"}

Last(s) == s[Len(s)]
NoNames == [n \in Names |-> None]

Symbol(n, kind, mutable, slot, owner) ==
    [name |-> n, kind |-> kind, mutable |-> mutable, slot |-> slot, owner |-> owner]

\* Resolver::new
Init ==
    /\ symbols = [i \in 1 .. Len(Builtins) |->
                     Symbol(Plain(Builtins[i]), "Builtin", FALSE, 0, Script)]
    /\ scopes = <<[path |-> <<Script>>, kind |-> "Script",
                   table |-> [n \in Names |->
                                 IF \E i \in 1 .. Len(Builtins) : n = Plain(Builtins[i])
                                 THEN CHOOSE i \in 1 .. Len(Builtins) :
                                          n = Plain(Builtins[i])
                                 ELSE None]]>>
    /\ functions = <<>>
    /\ bindings = {}
    /\ declarations = <<>>
    /\ current_scope = Script
    /\ function_stack = <<>>
    /\ diagnostics = {}
    /\ in_parameters = FALSE

-----------------------------------------------------------------------------
(* Scopes.                                                                 *)

Path == scopes[current_scope].path

\* push_scope, onto the scopes sc.
Pushed(sc, kind) ==
    Append(sc, [path |-> Append(Path, Len(sc) + 1), kind |-> kind, table |-> NoNames])

\* pop_scope
Outer == Path[Len(Path) - 1]

\* The last scope of path p that satisfies P, or None.
Innermost(p, P(_)) ==
    LET IsLast(i) == P(p[i]) /\ \A j \in i + 1 .. Len(p) : ~P(p[j])
    IN  IF \E i \in 1 .. Len(p) : IsLast(i)
        THEN p[CHOOSE i \in 1 .. Len(p) : IsLast(i)] ELSE None

Callable(sc) == scopes[sc].kind = "Function"

\* nearest_callable_scope().unwrap_or(otherwise)
CallableOr(otherwise) ==
    LET c == Innermost(Path, Callable) IN IF c = None THEN otherwise ELSE c

\* scope_for_name(name, true)
DeclaringScope(n) ==
    IF n.scope \in Global THEN Script
    ELSE CallableOr(IF n.scope = "unqualified" THEN Script ELSE current_scope)

\* scope_for_name(name, false), for a qualified name
QualifiedScope(n) ==
    IF n.scope \in Global THEN Script ELSE CallableOr(current_scope)

\* The function the walk is in, or None at the script's own level.
Current == IF function_stack = <<>> THEN None ELSE Last(function_stack)

\* enclosing_function
FunctionOf(sc) ==
    LET IsBody(x) == \E f \in 1 .. Len(functions) : functions[f].scope = x
        x == Innermost(scopes[sc].path, IsBody)
    IN  IF x = None THEN None
        ELSE CHOOSE f \in 1 .. Len(functions) : functions[f].scope = x

-----------------------------------------------------------------------------
(* Symbols.                                                                *)

Slotted(owner) ==
    {i \in 1 .. Len(symbols) : symbols[i].owner = owner /\ symbols[i].kind \in SlotKinds}

\* Mutant of NewId: the id is taken after the symbol has been pushed.
IdAfterPush == Len(symbols) + 2

NewId == Len(symbols) + 1

\* Mutant of NewSymbol: nested functions, which EndFunction counts, take no slot.
NewSymbolPastFunctions(owner, n, kind, mutable) ==
    Symbol(n, kind, mutable,
           Cardinality({i \in Slotted(owner) : symbols[i].kind # "Function"}), owner)

\* define_in: the new symbol, and the scopes with it in the owner's table.
NewSymbol(owner, n, kind, mutable) ==
    Symbol(n, kind, mutable, Cardinality(Slotted(owner)), owner)
Entered(owner, n) == [scopes EXCEPT ![owner].table[n] = NewId]

\* define_in, when nothing else happens to the scopes.
DefineIn(owner, n, kind, mutable) ==
    /\ Len(symbols) < MaxSymbols
    /\ symbols' = Append(symbols, NewSymbol(owner, n, kind, mutable))
    /\ scopes' = Entered(owner, n)

\* The symbol a name means where it is used: lookup_name without the names it
\* makes up.  Unqualified names look into every scope outwards, and in a
\* function's scope also among its arguments and l: variables.
Candidates(sc, n) ==
    LET own == scopes[sc].table[n]
        a   == scopes[sc].table[Name("a", n.name)]
        l   == scopes[sc].table[Name("l", n.name)]
    IN  IF own # None THEN own
        ELSE IF ~Callable(sc) THEN None
        ELSE IF a # None THEN a ELSE l

Found(n) ==
    IF n.scope # "unqualified" THEN scopes[QualifiedScope(n)].table[n]
    ELSE LET Knows(sc) == Candidates(sc, n) # None
             sc == Innermost(Path, Knows)
         IN  IF sc = None THEN None ELSE Candidates(sc, n)

\* Mutant of Captures: the function of the use is not compared.
CapturesOwn(s) ==
    LET owner == FunctionOf(symbols[s].owner)
    IN  /\ Current # None /\ owner # None
        /\ symbols[s].name.scope \notin Global
        /\ \A k \in 1 .. Len(functions[Current].captures) :
               functions[Current].captures[k] # s

\* capture_if_needed adds a capture of symbol s.
Captures(s) ==
    LET owner == FunctionOf(symbols[s].owner)
    IN  /\ Current # None /\ owner # None /\ owner # Current
        /\ symbols[s].name.scope \notin Global
        /\ \A k \in 1 .. Len(functions[Current].captures) :
               functions[Current].captures[k] # s

-----------------------------------------------------------------------------
(* The walk.                                                               *)

Bind(s) ==
    /\ bindings' = bindings \cup {[within |-> Current, symbol |-> s]}
    /\ Cardinality(bindings') <= MaxBindings

\* resolve_expr of a variable that some scope knows.
UseKnown(n) ==
    /\ Found(n) # None
    /\ Bind(Found(n))
    /\ functions' = IF Captures(Found(n))
                    THEN [functions EXCEPT ![Current].captures = Append(@, Found(n))]
                    ELSE functions
    /\ UNCHANGED <<scopes, symbols, declarations, current_scope, function_stack,
                   diagnostics, in_parameters>>

\* What lookup_name makes up for a name no scope knows: dynamic globals,
\* `version`, autoload functions.
MadeUp(n) ==
    IF n.scope = "g" THEN <<n, "Variable", TRUE>>
    ELSE IF n = Plain("version") THEN <<Version, "Variable", FALSE>>
    ELSE IF n.scope = "unqualified" /\ n.name \in Autoloads THEN <<n, "Function", FALSE>>
    ELSE <<>>

\* resolve_expr of such a name: its symbol belongs to the script, and
\* capture_if_needed leaves it alone.
UseMadeUp(n) ==
    LET m == MadeUp(n)
    IN  /\ Found(n) = None
        /\ m # <<>>
        /\ DefineIn(Script, m[1], m[2], m[3])
        /\ Bind(NewId)
        /\ UNCHANGED <<functions, declarations, current_scope, function_stack,
                       diagnostics, in_parameters>>

\* resolve_expr of any other name: undefined().
UseUnknown(n) ==
    /\ Found(n) = None
    /\ MadeUp(n) = <<>>
    /\ diagnostics' = diagnostics \cup {"R001"}
    /\ UNCHANGED <<scopes, symbols, functions, bindings, declarations, current_scope,
                   function_stack, in_parameters>>

Use(n) == UseKnown(n) \/ UseMadeUp(n) \/ UseUnknown(n)

Declare(s) ==
    /\ Len(declarations) < MaxDeclarations
    /\ declarations' = Append(declarations, [within |-> Current, symbol |-> s])

\* Mutant of Complaint: only what a declaration made can be immutable.
ComplaintAtConst(s, is_const) ==
    IF symbols[s].mutable /\ is_const THEN {"R002"} ELSE {}

\* The diagnostic that declare_name gives for a symbol that exists.
Complaint(s, is_const) ==
    IF ~symbols[s].mutable THEN {"R003"} ELSE IF is_const THEN {"R002"} ELSE {}

\* resolve_stmt of `let` and `const`, and of the binding of a `for`: declare_name
Assign(n, is_const) ==
    LET owner    == DeclaringScope(n)
        existing == scopes[owner].table[n]
    IN  /\ in_parameters' = FALSE
        /\ \/ /\ existing # None
              /\ Declare(existing)
              /\ diagnostics' = diagnostics \cup Complaint(existing, is_const)
              /\ UNCHANGED <<scopes, symbols>>
           \/ /\ existing = None
              /\ Declare(NewId)
              /\ DefineIn(owner, n, "Variable", ~is_const)
              /\ UNCHANGED diagnostics
        /\ UNCHANGED <<functions, bindings, current_scope, function_stack>>

\* resolve_stmt of if, while, for and try, at the start and the end of a block
\* (a catch clause's scope differs in its kind only).
OpenBlock ==
    /\ Len(scopes) < MaxScopes
    /\ in_parameters' = FALSE
    /\ scopes' = Pushed(scopes, "Block")
    /\ current_scope' = Len(scopes) + 1
    /\ UNCHANGED <<symbols, functions, bindings, declarations, function_stack, diagnostics>>

CloseBlock ==
    /\ scopes[current_scope].kind = "Block"
    /\ current_scope' = Outer
    /\ UNCHANGED <<scopes, symbols, functions, bindings, declarations, function_stack,
                   diagnostics, in_parameters>>

\* resolve_function, up to the parameters: define_or_diagnose and push_scope.
BeginFunction(n) ==
    LET owner    == DeclaringScope(n)
        existing == scopes[owner].table[n]
        body     == Len(scopes) + 1
    IN  /\ Len(functions) < MaxFunctions
        /\ Len(scopes) < MaxScopes
        /\ \/ /\ existing # None
              /\ Declare(existing)
              /\ scopes' = Pushed(scopes, "Function")
              /\ diagnostics' = diagnostics \cup {"R002"}
              /\ UNCHANGED symbols
           \/ /\ existing = None
              /\ Len(symbols) < MaxSymbols
              /\ Declare(NewId)
              /\ symbols' = Append(symbols, NewSymbol(owner, n, "Function", FALSE))
              /\ scopes' = Pushed(Entered(owner, n), "Function")
              /\ UNCHANGED diagnostics
        /\ functions' = Append(functions,
                               [scope |-> body, captures |-> <<>>, local_count |-> 0])
        /\ function_stack' = Append(function_stack, Len(functions) + 1)
        /\ current_scope' = body
        /\ in_parameters' = TRUE
        /\ UNCHANGED bindings

\* resolve_function: the next parameter.
Parameter(p) ==
    /\ in_parameters
    /\ \/ /\ scopes[current_scope].table[Name("a", p)] # None
          /\ diagnostics' = diagnostics \cup {"R002"}
          /\ UNCHANGED <<scopes, symbols>>
       \/ /\ scopes[current_scope].table[Name("a", p)] = None
          /\ DefineIn(current_scope, Name("a", p), "Parameter", TRUE)
          /\ UNCHANGED diagnostics
    /\ UNCHANGED <<functions, bindings, declarations, current_scope, function_stack,
                   in_parameters>>

\* Mutant of EndFunction: the scope of the function stays open.
EndFunctionStaysInside ==
    /\ Current # None
    /\ current_scope = functions[Current].scope
    /\ functions' = [functions EXCEPT ![Current].local_count =
                        Cardinality(Slotted(current_scope))]
    /\ function_stack' = SubSeq(function_stack, 1, Len(function_stack) - 1)
    /\ in_parameters' = FALSE
    /\ UNCHANGED <<scopes, symbols, bindings, declarations, diagnostics, current_scope>>

\* resolve_function, after the body.
EndFunction ==
    /\ Current # None
    /\ current_scope = functions[Current].scope
    /\ functions' = [functions EXCEPT ![Current].local_count =
                        Cardinality(Slotted(current_scope))]
    /\ function_stack' = SubSeq(function_stack, 1, Len(function_stack) - 1)
    /\ current_scope' = Outer
    /\ in_parameters' = FALSE
    /\ UNCHANGED <<scopes, symbols, bindings, declarations, diagnostics>>

Walk ==
    \/ \E n \in Written : Use(n)
    \/ \E n \in Variables, is_const \in BOOLEAN : Assign(n, is_const)
    \/ OpenBlock
    \/ CloseBlock
    \/ \E n \in FunctionNames : BeginFunction(n)
    \/ \E p \in Parameters : Parameter(p)
    \/ EndFunction

Next == Cardinality(diagnostics) < MaxDiagnostics /\ Walk

Spec == Init /\ [][Next]_vars

-----------------------------------------------------------------------------
(* What the compiler makes of it.                                          *)

\* load_symbol and store_symbol in the code of function f (None: the
\* script's): where the instruction finds symbol s.
Place(f, s) ==
    IF f # None /\ \E k \in 1 .. Len(functions[f].captures) : functions[f].captures[k] = s
    THEN <<"capture", CHOOSE k \in 1 .. Len(functions[f].captures) :
                          functions[f].captures[k] = s>>
    ELSE IF f # None /\ symbols[s].owner = functions[f].scope
    THEN <<"local", symbols[s].slot>>
    ELSE <<"global", symbols[s].name>>

\* The function in whose code compile_function_declaration makes closure f.
Maker(f) == FunctionOf(scopes[functions[f].scope].path[
                           Len(scopes[functions[f].scope].path) - 1])

-----------------------------------------------------------------------------
(* Properties.                                                             *)

ScopeIds    == 1 .. Len(scopes)
SymbolIds   == 1 .. Len(symbols)
FunctionIds == 1 .. Len(functions)

ScopeType     == [path : Seq(Nat), kind : {"Script", "Function", "Block"},
                  table : [Names -> Nat]]
SymbolType    == [name : Names, kind : SlotKinds \cup {"Builtin"}, mutable : BOOLEAN,
                  slot : Nat, owner : Nat]
FunctionType  == [scope : Nat, captures : Seq(Nat), local_count : Nat]
ReferenceType == [within : Nat, symbol : Nat]

Refers(r) == r.within \in FunctionIds \cup {None} /\ r.symbol \in SymbolIds

\* The ids that scopes, symbols, functions and references hold exist.
IdsExist ==
    /\ \A s \in ScopeIds :
           /\ \A k \in 1 .. Len(scopes[s].path) : scopes[s].path[k] \in ScopeIds
           /\ \A n \in Names : scopes[s].table[n] \in SymbolIds \cup {None}
    /\ \A i \in SymbolIds : symbols[i].owner \in ScopeIds
    /\ \A f \in FunctionIds :
           /\ functions[f].scope \in ScopeIds
           /\ \A k \in 1 .. Len(functions[f].captures) :
                  functions[f].captures[k] \in SymbolIds
    /\ \A b \in bindings : Refers(b)
    /\ \A i \in 1 .. Len(declarations) : Refers(declarations[i])
    /\ current_scope \in ScopeIds
    /\ \A m \in 1 .. Len(function_stack) : function_stack[m] \in FunctionIds

\* Every variable keeps its type, and the ids in it exist.
TypeOK ==
    /\ scopes \in Seq(ScopeType)
    /\ symbols \in Seq(SymbolType)
    /\ functions \in Seq(FunctionType)
    /\ bindings \subseteq ReferenceType
    /\ declarations \in Seq(ReferenceType)
    /\ current_scope \in Nat
    /\ function_stack \in Seq(Nat)
    /\ diagnostics \subseteq {"R001", "R002", "R003"}
    /\ in_parameters \in BOOLEAN
    /\ IdsExist

Open(f) == \E k \in 1 .. Len(function_stack) : function_stack[k] = f

\* In a call frame every variable has a slot of its own, within the local_count
\* that call() allocates, and the parameters have the first ones, in order:
\* call() stores argument i in local i (compiler.rs and vm.rs read the slots
\* that resolver.rs counts).
FrameLayout ==
    \A f \in FunctionIds : LET own == Slotted(functions[f].scope) IN
        /\ \A i, j \in own : i # j => symbols[i].slot # symbols[j].slot
        /\ ~Open(f) => \A i \in own : symbols[i].slot < functions[f].local_count
        /\ \A i \in own : symbols[i].kind = "Parameter" =>
               symbols[i].slot = Cardinality({j \in own : j < i})
               /\ \A j \in own : j < i => symbols[j].kind = "Parameter"

\* A variable of a function is referred to by the function and by functions
\* declared inside it, and by no code after or around it (scopes are left as
\* they were entered).
LocalsStayInside ==
    \A b \in bindings : LET owner == symbols[b.symbol].owner IN
        Callable(owner) =>
            /\ b.within # None
            /\ \E k \in 1 .. Len(scopes[functions[b.within].scope].path) :
                   scopes[functions[b.within].scope].path[k] = owner

\* A reference compiles to an instruction that reaches its variable: a slot of
\* the frame for the function's own, a capture for those of an outer function,
\* a global for those of no function; and no assignment goes to a capture,
\* which the machine refuses (StoreCapture, vm.rs:385).
ReferencesReach ==
    /\ \A b \in bindings :
           Place(b.within, b.symbol)[1] =
               (IF ~Callable(symbols[b.symbol].owner) THEN "global"
                ELSE IF FunctionOf(symbols[b.symbol].owner) = b.within THEN "local"
                ELSE "capture")
    /\ \A i \in 1 .. Len(declarations) :
           LET d == declarations[i]
           IN  Place(d.within, d.symbol)[1] =
                   IF Callable(symbols[d.symbol].owner) THEN "local" ELSE "global"

\* In a script that is accepted, a constant, a function or a builtin is given
\* its value by at most one statement.
ImmutableSetOnce ==
    diagnostics = {} =>
        \A i, j \in 1 .. Len(declarations) :
            i # j /\ declarations[i].symbol = declarations[j].symbol
                => symbols[declarations[i].symbol].mutable

\* "When the [closure] argument is added, the function can access variables and
\* arguments from the outer scope" (references/userfunc.txt:133): when a closure
\* is made, the code that makes it reaches what the closure captures, and does
\* not look for a global of the same name.
CapturesAreReached ==
    \A f \in FunctionIds : \A k \in 1 .. Len(functions[f].captures) :
        Place(Maker(f), functions[f].captures[k])[1] # "global"
=============================================================================
