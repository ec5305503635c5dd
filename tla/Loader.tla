-------------------------------- MODULE Loader --------------------------------
(***************************************************************************)
(* ScriptLoader (src/plugin.rs): discovery, autoload, the run of a script  *)
(* on a copy of the host's registries, and what is kept of it.             *)
(*                                                                         *)
(* A load in progress is a frame of `stack`, the recursion of load_script. *)
(* A script runs only when the scripts it refers to are loaded, so at most *)
(* one runs.  While it runs, the variables of Host are the copy its        *)
(* scheduler was given, and `saved` is what the loader still holds.        *)
(***************************************************************************)
EXTENDS Host

CONSTANTS
    Paths,          \* paths a caller can name
    Scripts,        \* canonical paths of files
    NoPath,
    Canonical,      \* by path: the file, or NoPath when none can be read
    StartupPaths,   \* RuntimePath::startup_plugins, in order
    Colors,         \* RuntimePath::colorscheme: by name, a path or NoPath
    Names,          \* global names, functions and variables
    AutoloadFor,    \* by name of a function with a #: a path or NoPath
    Texts,          \* the texts the files may have, each by script
    Embedded,       \* commands the embedding program registers itself
    Embedder,       \* its name among the owners
    MaxStartups,    \* bounds on what the embedding program does
    MaxEmbedded,
    MaxFirings,
    MaxDepth        \* loads inside loads, until the native stack is used up

\* A global has the script that set it last, and whether it is a function.
Global == [owner : Owners, function : BOOLEAN]
Unset  == [owner |-> "nobody", function |-> FALSE]

\* An entry of load_startup_plugins' report, of its list of loaded paths when ok,
\* else of its failures, by the path whose turn it was: a failure in the code
\* names the file where it happened.
Entry == [path : Paths, ok : BOOLEAN]

ASSUME LoaderAssumption ==
    /\ Scripts \subseteq Paths
    /\ Owners = Scripts \cup {Embedder}
    /\ Embedder \notin Scripts /\ "nobody" \notin Owners
    /\ NoPath \notin Paths
    /\ Canonical \in [Paths -> Scripts \cup {NoPath}]
    /\ \A s \in Scripts : Canonical[s] = s
    /\ StartupPaths \in Seq(Paths)
    /\ \A n \in DOMAIN Colors : Colors[n] \in Paths \cup {NoPath}
    /\ AutoloadFor \in [Names -> Paths \cup {NoPath}]
    /\ \A t \in Texts, s \in Scripts :
          /\ t[s].references \in Seq(Names)
          /\ Len(t[s].body) \in Nat
          /\ \A i \in 1 .. Len(t[s].body) :
                /\ t[s].body[i].op = "set"
                      => t[s].body[i].name \in Names /\ t[s].body[i].function \in BOOLEAN
                /\ t[s].body[i].op = "ex" => IsCommand(t[s].body[i].command)
    /\ \A c \in Embedded : IsCommand(c)
    /\ {MaxStartups, MaxEmbedded, MaxFirings, MaxDepth} \subseteq Nat

VARIABLES
    text,       \* the text of each script: [compiles, references, body]
    loaded,     \* loaded_scripts: the ids of the loaded scripts, else 0
    globals,    \* by name: a Global, or Unset
    sources,    \* how many sources SourceMap has
    queue,      \* what is left of load_startup_plugins
    report,     \* its CompatibilityReport, both lists in the order of time
    call,       \* the path load_script is asked for, or NoPath
    stack,      \* the loads in progress
    ip,         \* the next statement of the running script, or 0
    saved,      \* the loader's globals and registries meanwhile
    completions,\* the scripts in the order in which their loads ended
    startups, embedded, firings

loaderVars == <<text, loaded, globals, sources, queue, report, call, stack, ip,
                saved, completions, startups, embedded, firings>>
vars == <<hostVars, loaderVars>>

NoSaved == [globals |-> <<>>]

\* ids count from 1: 0 is the absence of an entry.
FrameType == [script : Scripts, id : Nat \ {0}, pending : Seq(Names)]

\* The type invariant: the host's registries and what the loader keeps.
TypeOK ==
    /\ HostTypeOK
    /\ loaded \in [Scripts -> Nat]
    /\ globals \in [Names -> Global \cup {Unset}]
    /\ sources \in Nat
    /\ queue \in Seq(Paths)
    /\ report \in Seq(Entry)
    /\ call \in Paths \cup {NoPath}
    /\ stack \in Seq(FrameType)
    /\ ip \in Nat
    /\ completions \in Seq(Scripts)
    /\ startups \in 0 .. MaxStartups
    /\ embedded \in 0 .. MaxEmbedded
    /\ firings \in 0 .. MaxFirings

InitialGlobals == [n \in Names |-> Unset]

Init ==
    /\ HostInit
    /\ text \in Texts
    /\ loaded = [s \in Scripts |-> 0]
    /\ globals = InitialGlobals
    /\ sources = 0
    /\ queue = <<>>
    /\ report = <<>>
    /\ call = NoPath
    /\ stack = <<>>
    /\ ip = 0
    /\ saved = NoSaved
    /\ completions = <<>>
    /\ startups = 0 /\ embedded = 0 /\ firings = 0

Top     == stack[Len(stack)]
Popped  == SubSeq(stack, 1, Len(stack) - 1)
Current == text[Top.script]

Idle    == stack = <<>> /\ call = NoPath
\* Between two calls of the embedding program.
AtRest  == Idle /\ queue = <<>> /\ answer = "none"
Looking == stack # <<>> /\ call = NoPath /\ ip = 0
Running == stack # <<>> /\ ip > 0

(***************************************************************************)
(* The embedding program                                                   *)
(***************************************************************************)
LoadStartupPlugins ==
    /\ AtRest
    /\ startups < MaxStartups
    /\ startups' = startups + 1
    /\ queue' = StartupPaths
    /\ report' = <<>>
    /\ UNCHANGED <<hostVars, text, loaded, globals, sources, call, stack, ip,
                   saved, completions, embedded, firings>>

\* load_startup_plugins looks for the path as it was discovered.
KnownAs(p) == p \in Scripts /\ loaded[p] # 0

SkipPlugin ==
    /\ Idle /\ queue # <<>>
    /\ KnownAs(Head(queue))
    /\ queue' = Tail(queue)
    /\ UNCHANGED <<hostVars, text, loaded, globals, sources, report, call, stack,
                   ip, saved, completions, startups, embedded, firings>>

LoadPlugin ==
    /\ Idle /\ queue # <<>>
    /\ ~KnownAs(Head(queue))
    /\ call' = Head(queue)
    /\ UNCHANGED <<hostVars, text, loaded, globals, sources, queue, report, stack,
                   ip, saved, completions, startups, embedded, firings>>

LoadColorscheme(name) ==
    /\ AtRest
    /\ embedded < MaxEmbedded
    /\ embedded' = embedded + 1
    /\ call' = Colors[name]
    /\ UNCHANGED <<hostVars, text, loaded, globals, sources, queue, report, stack,
                   ip, saved, completions, startups, firings>>

\* HostRuntime's own interface; its next command starts afresh.
Embed(c, buffer) ==
    /\ AtRest
    /\ embedded < MaxEmbedded
    /\ embedded' = embedded + 1
    /\ Command(c, Embedder, buffer)
    /\ UNCHANGED <<text, loaded, globals, sources, queue, report, call, stack, ip,
                   saved, completions, startups, firings>>

Acknowledge ==
    /\ Idle /\ answer # "none"
    /\ answer' = "none"
    /\ UNCHANGED <<registries, sent, consumed, loaderVars>>

EditorAnswers ==
    /\ Answered
    /\ UNCHANGED loaderVars

UnmapKey(mode, lhs, buffer) ==
    /\ AtRest
    /\ embedded < MaxEmbedded
    /\ embedded' = embedded + 1
    /\ Unmap(mode, lhs, buffer)
    /\ UNCHANGED <<text, loaded, globals, sources, queue, report, call, stack, ip,
                   saved, completions, startups, firings>>

Fire(e, subject) ==
    /\ AtRest
    /\ firings < MaxFirings
    /\ firings' = firings + 1
    /\ FireEvent(e, subject)
    /\ UNCHANGED <<text, loaded, globals, sources, queue, report, call, stack, ip,
                   saved, completions, startups, embedded>>

(***************************************************************************)
(* load_script                                                             *)
(***************************************************************************)
\* A caller's turn again: a load in progress, load_startup_plugins, or none.
\* An error is handed on by every load in progress; load_startup_plugins goes
\* on with the next path.
ReturnOk(callers) ==
    IF callers = <<>> /\ queue # <<>>
    THEN /\ queue' = Tail(queue)
         /\ report' = Append(report, [path |-> Head(queue), ok |-> TRUE])
    ELSE UNCHANGED <<queue, report>>

\* Mutant: the first failure ends load_startup_plugins.
NoneAfterFailure(paths) == <<>>

AfterFailure(paths) == Tail(paths)

ReturnError ==
    /\ stack' = <<>>
    /\ call' = NoPath
    /\ IF queue # <<>>
       THEN /\ queue' = AfterFailure(queue)
            /\ report' = Append(report, [path |-> Head(queue), ok |-> FALSE])
       ELSE UNCHANGED <<queue, report>>

\* Mutant: load_script looks for the path it is given.
IsLoadedAs(p) == KnownAs(p)

\* loaded_scripts has the canonical path.
IsLoaded(p) == Canonical[p] # NoPath /\ loaded[Canonical[p]] # 0

Missing ==
    /\ call # NoPath
    /\ Canonical[call] = NoPath
    /\ ReturnError
    /\ UNCHANGED <<hostVars, text, loaded, globals, sources, ip, saved, completions,
                   startups, embedded, firings>>

AlreadyLoaded ==
    /\ call # NoPath
    /\ IsLoaded(call)
    /\ call' = NoPath
    /\ ReturnOk(stack)
    /\ UNCHANGED <<hostVars, text, loaded, globals, sources, stack, ip, saved,
                   completions, startups, embedded, firings>>

\* Mutant: ids counted by the scripts loaded.
LoadedCount == Cardinality({s \in Scripts : loaded[s] # 0}) + 1

\* Every attempt gets a source, and with it an id, of its own.
NewId == sources + 1

Enter ==
    /\ call # NoPath
    /\ Canonical[call] # NoPath /\ ~IsLoaded(call)
    /\ Len(stack) < MaxDepth
    /\ sources' = NewId
    /\ LET s == Canonical[call] IN
       stack' = Append(stack, [script |-> s, id |-> NewId,
                               pending |-> text[s].references])
    /\ call' = NoPath
    /\ UNCHANGED <<hostVars, text, loaded, globals, queue, report, ip, saved,
                   completions, startups, embedded, firings>>

\* The lexer, the parser, the resolver or the compiler has diagnostics.
Rejected ==
    /\ Looking
    /\ ~Current.compiles
    /\ ReturnError
    /\ UNCHANGED <<hostVars, text, loaded, globals, sources, ip, saved, completions,
                   startups, embedded, firings>>

\* Mutant: a function without a file is left to the run.
NeedlessOrUnknown(f) == globals[f].function \/ AutoloadFor[f] = NoPath

\* A function the globals have needs no file; a variable of that name does.
Needless(f) == globals[f].function

AtReference == Looking /\ Current.compiles /\ Top.pending # <<>>
\* Mutant: the loop over the references does not advance.
SameReference == stack

NextReference ==
    [stack EXCEPT ![Len(stack)].pending = Tail(@)]

SkipReference ==
    /\ AtReference
    /\ Needless(Head(Top.pending))
    /\ stack' = NextReference
    /\ UNCHANGED <<hostVars, text, loaded, globals, sources, queue, report, call, ip,
                   saved, completions, startups, embedded, firings>>

Autoload ==
    /\ AtReference
    /\ ~Needless(Head(Top.pending))
    /\ AutoloadFor[Head(Top.pending)] # NoPath
    /\ call' = AutoloadFor[Head(Top.pending)]
    /\ stack' = NextReference
    /\ UNCHANGED <<hostVars, text, loaded, globals, sources, queue, report, ip,
                   saved, completions, startups, embedded, firings>>

Undiscovered ==
    /\ AtReference
    /\ ~Needless(Head(Top.pending))
    /\ AutoloadFor[Head(Top.pending)] = NoPath
    /\ ReturnError
    /\ UNCHANGED <<hostVars, text, loaded, globals, sources, ip, saved, completions,
                   startups, embedded, firings>>

HostState ==
    [user_commands |-> user_commands, keymaps |-> keymaps,
     handlers |-> handlers, current_augroup |-> current_augroup,
     next_mapping_id |-> next_mapping_id,
     next_event_handler_id |-> next_event_handler_id]

\* Mutant: Vm::new instead of Vm::with_globals.
FreshGlobals == InitialGlobals

\* The globals the machine starts with: those the nested loads have left.
StartingGlobals == globals

Begin ==
    /\ Looking /\ Current.compiles /\ Top.pending = <<>>
    /\ saved' = [globals |-> globals, host |-> HostState]
    /\ globals' = StartingGlobals
    /\ ip' = 1
    /\ UNCHANGED <<hostVars, text, loaded, sources, queue, report, call, stack,
                   completions, startups, embedded, firings>>

(***************************************************************************)
(* The script.  A statement is [op, name or command, caught]: caught when  *)
(* it stands in a try block.                                               *)
(***************************************************************************)
Here == Current.body[ip]
AtStatement(op) ==
    /\ Running
    /\ ip <= Len(Current.body)
    /\ Here.op = op

\* A function declaration or a :let.
Assign ==
    /\ AtStatement("set")
    /\ globals' = [globals EXCEPT ![Here.name] =
                      [owner |-> Top.script, function |-> Here.function]]
    /\ ip' = ip + 1
    /\ UNCHANGED <<hostVars, text, loaded, sources, queue, report, call, stack,
                   saved, completions, startups, embedded, firings>>

\* `if exists(name) | finish | endif`.
Guard ==
    /\ AtStatement("guard")
    /\ ip' = IF globals[Here.name] # Unset THEN Len(Current.body) + 1 ELSE ip + 1
    /\ UNCHANGED <<hostVars, text, loaded, globals, sources, queue, report, call,
                   stack, saved, completions, startups, embedded, firings>>

\* An expression that reads a global, and one that always fails.
Throws == \/ Here.op = "use" /\ globals[Here.name] = Unset
          \/ Here.op = "throw"

Evaluate ==
    /\ AtStatement("use") \/ AtStatement("throw")
    /\ Throws => Here.caught
    /\ ip' = ip + 1
    /\ UNCHANGED <<hostVars, text, loaded, globals, sources, queue, report, call,
                   stack, saved, completions, startups, embedded, firings>>

\* The loader gives its machines no current buffer.
Request ==
    /\ AtStatement("ex")
    /\ Command(Here.command, Top.script, NoBuffer)
    /\ UNCHANGED loaderVars

Resume ==
    /\ AtStatement("ex")
    /\ answer = "ok" \/ (answer = "error" /\ Here.caught)
    /\ answer' = "none"
    /\ ip' = ip + 1
    /\ UNCHANGED <<registries, sent, consumed, text, loaded, globals, sources, queue,
                   report, call, stack, saved, completions, startups,
                   embedded, firings>>

\* run_until_complete gave a value: the scheduler's host and the machine's
\* globals become the loader's.
Finish ==
    /\ Running
    /\ ip > Len(Current.body)
    /\ loaded' = [loaded EXCEPT ![Top.script] = Top.id]
    /\ completions' = Append(completions, Top.script)
    /\ stack' = Popped
    /\ ip' = 0
    /\ saved' = NoSaved
    /\ ReturnOk(Popped)
    /\ UNCHANGED <<hostVars, text, globals, sources, call, startups, embedded,
                   firings>>

\* Mutant: the scheduler's host is kept.
KeepHost == UNCHANGED registries

\* What the loader still holds when the script has failed.
RestoreHost ==
    /\ user_commands' = saved.host.user_commands
    /\ keymaps' = saved.host.keymaps
    /\ handlers' = saved.host.handlers
    /\ current_augroup' = saved.host.current_augroup
    /\ next_mapping_id' = saved.host.next_mapping_id
    /\ next_event_handler_id' = saved.host.next_event_handler_id

Fail ==
    /\ Running
    /\ ip <= Len(Current.body)
    /\ ~Here.caught
    /\ \/ Here.op \in {"use", "throw"} /\ Throws
       \/ Here.op = "ex" /\ answer = "error"
    /\ ReturnError
    /\ globals' = saved.globals
    /\ RestoreHost
    /\ saved' = NoSaved
    /\ answer' = "none"
    /\ ip' = 0
    /\ UNCHANGED <<sent, consumed, text, loaded, sources, completions, startups,
                   embedded, firings>>

LoadStep ==
    \/ SkipPlugin \/ LoadPlugin
    \/ Missing \/ AlreadyLoaded \/ Enter \/ Rejected
    \/ SkipReference \/ Autoload \/ Undiscovered
    \/ Begin \/ Assign \/ Guard \/ Evaluate \/ Request \/ Resume \/ Finish \/ Fail

Next ==
    \/ LoadStartupPlugins
    \/ \E name \in DOMAIN Colors : LoadColorscheme(name)
    \/ \E c \in Embedded, b \in Buffers : Embed(c, b)
    \/ Acknowledge \/ EditorAnswers
    \/ \E m \in Modes, k \in Keys, b \in Buffers \cup {NoBuffer} : UnmapKey(m, k, b)
    \/ \E e \in Events, s \in Subjects : Fire(e, s)
    \/ LoadStep

Spec == Init /\ [][Next]_vars

\* A call of the loader runs until it returns, and the editor's futures end.
FairSpec == Spec /\ WF_vars(LoadStep) /\ WF_vars(EditorAnswers)

(***************************************************************************)
(* What should hold                                                        *)
(***************************************************************************)
LeftBy(owner) ==
    \/ \E u \in UserNames : user_commands[u].owner = owner
    \/ \E k \in DOMAIN keymaps : keymaps[k].owner = owner
    \/ \E e \in Events : \E i \in 1 .. Len(handlers[e]) : handlers[e][i].owner = owner
    \/ \E n \in Names : globals[n].owner = owner

Opens(c, group) == c.name = "augroup" /\ c.args = group

OpensGroup(s, group) ==
    \E i \in 1 .. Len(text[s].body) :
        text[s].body[i].op = "ex" /\ Opens(text[s].body[i].command, group)

\* A script that has not been loaded, for whatever reason and however deep in
\* the loads of others, has left nothing: no command, mapping, handler, global;
\* and the open group is one that a script which is loaded, or is running, or
\* the embedding program has opened.
NoTraceOfFailures ==
    LET stays(s) == loaded[s] # 0 \/ (Running /\ Top.script = s) IN
    /\ \A s \in Scripts : LeftBy(s) => stays(s)
    /\ \/ current_augroup = NoGroup
       \/ \E c \in Embedded : Opens(c, current_augroup)
       \/ \E s \in Scripts : OpensGroup(s, current_augroup) /\ stays(s)

\* Statement i sets a global, and no guard may end the script before it.
SetsForSure(s, i) ==
    /\ text[s].body[i].op = "set"
    /\ \A j \in 1 .. i : text[s].body[j].op # "guard"

\* What a loaded script has defined stays: neither the scripts loaded around it
\* nor one that fails later take its functions away.
LoadedStaysDefined ==
    \A s \in Scripts : loaded[s] # 0 =>
        \A i \in 1 .. Len(text[s].body) :
            SetsForSure(s, i) => globals[text[s].body[i].name] # Unset

\* A file is run to its end once, by whatever paths it is reached.
LoadedOnce ==
    \A i, j \in 1 .. Len(completions) :
        completions[i] = completions[j] => i = j

\* No two scripts share an id, and with it the names of their s: variables.
NamespacesDistinct ==
    LET ids == {loaded[s] : s \in Scripts} \ {0} IN
    /\ \A s, t \in Scripts : loaded[s] = loaded[t] => s = t \/ loaded[s] = 0
    /\ \A i \in 1 .. Len(stack) :
          /\ stack[i].id \notin ids
          /\ \A j \in 1 .. Len(stack) : stack[i].id = stack[j].id => i = j

\* A script runs when every function it refers to is there (or a variable that
\* has taken its place since), or the file that should have brought it is loaded.
DependenciesFirst ==
    Running =>
        \A i \in 1 .. Len(Current.references) :
            LET f == Current.references[i] IN
            \/ saved.globals[f] # Unset
            \/ AutoloadFor[f] # NoPath /\ IsLoaded(AutoloadFor[f])

\* It was loaded before its turn came, or the report has it.
Accounted(p) == KnownAs(p) \/ \E i \in 1 .. Len(report) : report[i].path = p

\* The report tells of the startup paths in their order, of each place once.
InTurn ==
    \A i \in 1 .. Len(report), j \in 1 .. Len(report) : i < j =>
        \E m \in 1 .. Len(StartupPaths), n \in 1 .. Len(StartupPaths) :
            /\ m < n
            /\ report[i].path = StartupPaths[m] /\ report[j].path = StartupPaths[n]

\* load_startup_plugins says loaded, in the order of the paths, of what is loaded,
\* and passes over no path in silence: one that is not loaded has its failure,
\* whatever was autoloaded, failed or loaded through another path meanwhile.
ReportIsTrue ==
    /\ \A i \in 1 .. Len(report) : report[i].ok => IsLoaded(report[i].path)
    /\ InTurn
    /\ AtRest /\ startups > 0 =>
          \A n \in 1 .. Len(StartupPaths) : Accounted(StartupPaths[n])

\* The handlers of an event are in the order of their registration, which is
\* the order of their ids, also after groups were cleared and loads failed.
HandlersInOrder ==
    \A e \in Events : \A i \in 1 .. Len(handlers[e]) :
        /\ handlers[e][i].id < next_event_handler_id
        /\ \A j \in 1 .. (i - 1) : handlers[e][j].id < handlers[e][i].id

\* A ++once handler is handed out once, whatever is loaded in between.
OnceFiresOnce ==
    \A i, j \in 1 .. Len(consumed) : consumed[i] = consumed[j] => i = j

\* An event runs its handlers in the order of registration, the ++once ones a
\* single time: although ids given to a script that fails are given again.
HandlersFireSoundly == HandlersInOrder /\ OnceFiresOnce

\* Nothing reaches the editor but its own commands and functions and options,
\* permitted and with a bang only where it is accepted, through any chain of user
\* commands.
OnlyPermittedIsSent ==
    \A r \in sent :
        /\ r.name \in (Natives \cup Functions \cup {Option}) \cap Permitted
        /\ r.bang => r.name \in AcceptsBang

\* In a group, no command of a script touches the handlers of other groups.
GroupsAreSeparate ==
    [][answer = "none" /\ answer' # "none" /\ current_augroup # NoGroup
       => \A e \in Events :
            OutsideGroup(handlers'[e], current_augroup)
              = OutsideGroup(handlers[e], current_augroup)]_vars

\* What a key does in a buffer with a mapping of its own is not for a script of
\* the loader to change: it maps globally, and the buffer's mapping comes first.
BufferMappingsShadow ==
    [][Running => \A m \in Modes, k \in Keys, b \in Buffers :
           keymaps[<<b, m, k>>] # NoMapping
             => Resolve(m, k, b)' = Resolve(m, k, b)]_vars

\* What a script registers or clears stays within its reach, as the two say.
ScriptsKeepApart == GroupsAreSeparate /\ BufferMappingsShadow

\* Every call of the loader returns, when no file refers back to itself and the
\* editor answers.
EveryLoadEnds == ~Idle ~> Idle

\* No script is loaded for its own load: README.md promises that gaps are
\* reported "rather than causing crashes", and such a load never ends.
NoLoadInsideItself ==
    \A i, j \in 1 .. Len(stack) : stack[i].script = stack[j].script => i = j
===============================================================================
