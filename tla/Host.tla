--------------------------------- MODULE Host ---------------------------------
(***************************************************************************)
(* HostRuntime (src/host.rs) with the registries it keeps (EventBus and    *)
(* KeymapStore of src/integration.rs): what an Ex command or a host call   *)
(* of a script does to them, in the order in which run_task of             *)
(* src/runtime/scheduler.rs asks them, and what reaches the editor.        *)
(*                                                                         *)
(* A command is a record [name, bang, args]; args is the number of words   *)
(* of a plain command and a record of parsed arguments of one that         *)
(* registers something.  Ranges, counts and registers are checked as the   *)
(* bang is, and left out.                                                  *)
(***************************************************************************)
EXTENDS Integers, Sequences, FiniteSets

CONSTANTS
    Owners,         \* who registers: the scripts and the embedding program
    UserNames,      \* names of user-defined commands
    Natives,        \* CommandRegistry: the host's commands
    Abbreviates,    \* pairs <<short, native>>: an accepted abbreviation
    AcceptsBang,    \* natives with accepts_bang
    Permitted,      \* natives and functions whose capabilities are granted
    Functions,      \* HostFunctionRegistry: the host's functions
    Arities,        \* pairs <<function, n>>: n arguments are accepted
    Groups, Events, Patterns, Subjects,
    Matches,        \* pairs <<pattern, subject>>: vim_glob_matches
    Keys, Buffers,
    MaxExpansions   \* 32 in prepare_command

NoBuffer == "no buffer"

\* What the host sends for &name and :let &name: it is Permitted when the
\* capability Settings is granted.
Option == "option"

ASSUME HostAssumption ==
    /\ NoBuffer \notin Buffers
    /\ AcceptsBang \subseteq Natives
    /\ Natives \cup Functions \cup {Option} \subseteq STRING
    /\ Abbreviates \subseteq (STRING \X Natives)
    /\ Matches \subseteq (Patterns \X Subjects)
    /\ MaxExpansions \in Nat \ {0}

VARIABLES
    user_commands,          \* by name
    keymaps,                \* KeymapStore: by buffer (or none), mode, keys
    handlers,               \* EventBus::handlers: a list for each event
    current_augroup,
    next_mapping_id,
    next_event_handler_id,
    sent,                   \* what the editor was asked to do
    consumed,               \* ids of the ++once handlers handed out
    answer                  \* how the last command ended, or that it has not

registries == <<user_commands, keymaps, handlers, current_augroup,
                next_mapping_id, next_event_handler_id>>
hostVars   == <<registries, sent, consumed, answer>>

NoCommand == [owner |-> "nobody"]
NoMapping == [owner |-> "nobody"]
NoGroup   == "no group"

Modes == {"Normal", "Visual", "Select", "OperatorPending", "Insert",
          "CommandLine", "LangArg", "Terminal"}

UserCommand ==
    [owner : Owners, nargs : {"0", "1", "?", "*", "+"}, bang : BOOLEAN,
     runs : STRING, args : Nat, passes_args : BOOLEAN, passes_bang : BOOLEAN,
     rejects : SUBSET Nat]
Mapping == [owner : Owners, id : Nat]
Handler ==
    [owner : Owners, id : Nat, group : Groups \cup {NoGroup},
     patterns : SUBSET Patterns, once : BOOLEAN]

\* The template: what it runs with how many words (its own or the caller's), and
\* the numbers of words with which it is no command when it is filled in.
Definition ==
    [nargs : {"0", "1", "?", "*", "+"}, bang : BOOLEAN, runs : STRING,
     args : Nat, passes_args : BOOLEAN, passes_bang : BOOLEAN,
     rejects : SUBSET Nat]

\* A command as its parsers leave it.
IsCommand(c) ==
    /\ c.name \in STRING /\ c.bang \in BOOLEAN
    /\ c.name = "command" /\ c.args.parses
          => c.args.defines \in UserNames /\ c.args.definition \in Definition
    /\ c.name = "delcommand" => c.args.deletes \in UserNames
    /\ c.name = "augroup" => c.args \in Groups \cup {"END", ""}
    /\ c.name = "autocmd" =>
          /\ c.args.events \in Seq(Events)
          /\ c.args.patterns \subseteq Patterns
          /\ c.args.once \in BOOLEAN

\* One type invariant for what HostRuntime holds.
HostTypeOK ==
    /\ user_commands \in [UserNames -> UserCommand \cup {NoCommand}]
    /\ keymaps \in [(Buffers \cup {NoBuffer}) \X Modes \X Keys ->
                        Mapping \cup {NoMapping}]
    /\ handlers \in [Events -> Seq(Handler)]
    /\ current_augroup \in Groups \cup {NoGroup}
    /\ next_mapping_id \in Nat
    /\ next_event_handler_id \in Nat
    /\ sent \subseteq [name : STRING, bang : BOOLEAN]
    /\ consumed \in Seq(Nat)
    /\ answer \in {"none", "waiting", "ok", "error"}

HostInit ==
    /\ user_commands = [u \in UserNames |-> NoCommand]
    /\ keymaps = [k \in (Buffers \cup {NoBuffer}) \X Modes \X Keys |-> NoMapping]
    /\ handlers = [e \in Events |-> <<>>]
    /\ current_augroup = NoGroup
    /\ next_mapping_id = 0
    /\ next_event_handler_id = 0
    /\ sent = {}
    /\ consumed = <<>>
    /\ answer = "none"

\* A command that is refused before it has changed anything.
Refuse ==
    /\ answer' = "error"
    /\ UNCHANGED <<registries, sent, consumed>>

(***************************************************************************)
(* :command and :delcommand                                                *)
(***************************************************************************)
\* args: [defines, definition], or a definition UserCommand::parse rejects.
Definable(c) ==
    /\ c.args.parses
    /\ c.bang \/ user_commands[c.args.defines] = NoCommand

\* Mutant: UserCommand::parse without its default for -nargs.
OwnedWithoutDefault(d, owner) ==
    [owner |-> owner, nargs |-> "", bang |-> d.bang, runs |-> d.runs,
     args |-> d.args, passes_args |-> d.passes_args,
     passes_bang |-> d.passes_bang, rejects |-> d.rejects]

Owned(d, owner) ==
    [owner |-> owner, nargs |-> d.nargs, bang |-> d.bang, runs |-> d.runs,
     args |-> d.args, passes_args |-> d.passes_args,
     passes_bang |-> d.passes_bang, rejects |-> d.rejects]

DefineUserCommand(c, owner) ==
    /\ c.name = "command"
    /\ IF Definable(c)
       THEN /\ user_commands' = [user_commands EXCEPT ![c.args.defines] =
                                    Owned(c.args.definition, owner)]
            /\ answer' = "ok"
            /\ UNCHANGED <<keymaps, handlers, current_augroup, next_mapping_id,
                           next_event_handler_id, sent, consumed>>
       ELSE Refuse

DeleteUserCommand(c) ==
    /\ c.name = "delcommand"
    /\ IF ~c.bang /\ user_commands[c.args.deletes] # NoCommand
       THEN /\ user_commands' = [user_commands EXCEPT ![c.args.deletes] = NoCommand]
            /\ answer' = "ok"
            /\ UNCHANGED <<keymaps, handlers, current_augroup, next_mapping_id,
                           next_event_handler_id, sent, consumed>>
       ELSE Refuse

(***************************************************************************)
(* :augroup and :autocmd                                                   *)
(***************************************************************************)
\* args: a group, "END", or "" when the name is missing.
Augroup(c) ==
    /\ c.name = "augroup"
    /\ IF c.args = ""
       THEN Refuse
       ELSE /\ current_augroup' = IF c.args = "END" THEN NoGroup ELSE c.args
            /\ answer' = "ok"
            /\ UNCHANGED <<user_commands, keymaps, handlers, next_mapping_id,
                           next_event_handler_id, sent, consumed>>

Members(list) == {list[i] : i \in 1 .. Len(list)}

\* Vec::retain: the elements that are in S, in their order.
Kept(list, S) ==
    LET kept[n \in 0 .. Len(list)] ==
            IF n = 0 THEN <<>>
            ELSE IF list[n] \in S THEN Append(kept[n - 1], list[n])
            ELSE kept[n - 1]
    IN  kept[Len(list)]

OutsideGroup(list, g) == Kept(list, {h \in Members(list) : h.group # g})

\* Mutant: clears every handler, whatever its group.
WithoutAnyGroup(g) == [e \in Events |-> <<>>]

\* EventBus::remove_group.
WithoutGroup(g) ==
    [e \in Events |-> OutsideGroup(handlers[e], g)]

\* `autocmd!` clears the current group, or everything outside a group, before
\* it reads its arguments.
Cleared(c) ==
    IF ~c.bang THEN handlers
    ELSE IF current_augroup = NoGroup THEN [e \in Events |-> <<>>]
    ELSE WithoutGroup(current_augroup)

\* The events of one command get handlers with consecutive ids.
HandlerIds(c) == next_event_handler_id + Len(c.args.events)

NewHandler(c, owner, i) ==
    [owner |-> owner, id |-> next_event_handler_id + i - 1,
     group |-> current_augroup, patterns |-> c.args.patterns,
     once |-> c.args.once]

\* EventBus::register, for each event named: a handler with the same id goes,
\* the new one comes last.
Registered(c, owner) ==
    LET given == [i \in 1 .. Len(c.args.events) |-> NewHandler(c, owner, i)]
        ids   == next_event_handler_id .. (HandlerIds(c) - 1)
        of(e) == {given[i] : i \in {j \in DOMAIN given : c.args.events[j] = e}}
    IN  [e \in Events |->
            LET old == Cleared(c)[e] IN
            Kept(old, {h \in Members(old) : h.id \notin ids}) \o Kept(given, of(e))]

\* args: [given, events, patterns, once], where given is "nothing", "part" of
\* what is needed (an event, no pattern or no command) or "all".
Autocmd(c, owner) ==
    /\ c.name = "autocmd"
    /\ handlers' = IF c.args.given = "all" THEN Registered(c, owner) ELSE Cleared(c)
    /\ next_event_handler_id' =
          IF c.args.given = "all" THEN HandlerIds(c) ELSE next_event_handler_id
    /\ answer' = IF \/ c.args.given = "all"
                    \/ c.bang /\ c.args.given = "nothing"
                 THEN "ok" ELSE "error"
    /\ UNCHANGED <<user_commands, keymaps, current_augroup, next_mapping_id,
                   sent, consumed>>

\* EventBus::handlers_for: the matching handlers in order, ++once ones taken.
Matching(h, subject) ==
    h.patterns = {} \/ \E p \in h.patterns : <<p, subject>> \in Matches

Affected(e, subject) == {h \in Members(handlers[e]) : Matching(h, subject)}

Handed(e, subject) == Kept(handlers[e], Affected(e, subject))

\* Mutant: ++once handlers stay.
RetainedAll(e, subject) == handlers[e]

Retained(e, subject) ==
    Kept(handlers[e], {h \in Members(handlers[e]) :
                          ~(h.once /\ h \in Affected(e, subject))})

FireEvent(e, subject) ==
    LET given == Handed(e, subject)
        once  == Kept(given, {h \in Members(given) : h.once})
    IN
    /\ handlers' = [handlers EXCEPT ![e] = Retained(e, subject)]
    /\ consumed' = consumed \o [i \in 1 .. Len(once) |-> once[i].id]
    /\ UNCHANGED <<user_commands, keymaps, current_augroup, next_mapping_id,
                   next_event_handler_id, sent, answer>>

(***************************************************************************)
(* Mappings                                                                *)
(***************************************************************************)
\* mapping_modes; the name of the Ex command is the prefix and "map" or
\* "noremap".  It does not recognise the names that end in "unmap".
ModesOf(prefix) ==
    CASE prefix = ""  -> {"Normal", "Visual", "Select", "OperatorPending"}
      [] prefix = "n" -> {"Normal"}
      [] prefix = "v" -> {"Visual", "Select"}
      [] prefix = "x" -> {"Visual"}
      [] prefix = "s" -> {"Select"}
      [] prefix = "o" -> {"OperatorPending"}
      [] prefix = "i" -> {"Insert"}
      [] prefix = "c" -> {"CommandLine"}
      [] prefix = "l" -> {"LangArg"}
      [] prefix = "t" -> {"Terminal"}

\* args: [prefix, lhs, rhs, local]; lhs or rhs FALSE when missing, local for
\* <buffer>.
MapKeys(c, owner, buffer) ==
    LET target == IF c.args.local THEN buffer ELSE NoBuffer
        cells  == {target} \X ModesOf(c.args.prefix) \X {c.args.lhs}
    IN
    /\ c.name \in {"map", "noremap"}
    /\ IF \/ c.args.lhs \notin Keys
          \/ c.args.local /\ buffer = NoBuffer
          \/ ~c.args.rhs
       THEN Refuse
       ELSE /\ keymaps' = [k \in DOMAIN keymaps |->
                              IF k \in cells
                              THEN [owner |-> owner, id |-> next_mapping_id]
                              ELSE keymaps[k]]
            /\ next_mapping_id' = next_mapping_id + 1
            /\ answer' = "ok"
            /\ UNCHANGED <<user_commands, handlers, current_augroup,
                           next_event_handler_id, sent, consumed>>

\* KeymapStore::unmap, which only the embedding program reaches.
Unmap(mode, lhs, buffer) ==
    /\ keymaps' = [keymaps EXCEPT ![<<buffer, mode, lhs>>] = NoMapping]
    /\ UNCHANGED <<user_commands, handlers, current_augroup, next_mapping_id,
                   next_event_handler_id, sent, consumed, answer>>

\* KeymapStore::resolve.
Resolve(mode, lhs, buffer) ==
    IF keymaps[<<buffer, mode, lhs>>] # NoMapping
    THEN keymaps[<<buffer, mode, lhs>>]
    ELSE keymaps[<<NoBuffer, mode, lhs>>]

(***************************************************************************)
(* Commands and calls for the editor                                       *)
(***************************************************************************)
IsUserCommand(name) == name \in UserNames /\ user_commands[name] # NoCommand

\* UserCommand::expand checks the invocation, fills in its template and has
\* ExLineParser read what comes of it, or fails with E488.
Expandable(d, c) ==
    /\ \/ d.nargs = "0" /\ c.args = 0
       \/ d.nargs = "1" /\ c.args = 1
       \/ d.nargs = "?" /\ c.args <= 1
       \/ d.nargs = "+" /\ c.args >= 1
       \/ d.nargs = "*"
    /\ c.bang => d.bang
    /\ c.args \notin d.rejects

Expanded(d, c) ==
    [name |-> d.runs,
     bang |-> d.passes_bang /\ c.bang,
     args |-> IF d.passes_args THEN c.args ELSE d.args]

Unexpandable == [name |-> "unexpandable"]

\* prepare_command looks MaxExpansions times for a user command of that name.
Prepared(c) ==
    LET after[n \in 0 .. (MaxExpansions - 1)] ==
            IF n = 0 THEN c
            ELSE LET prev == after[n - 1] IN
                 IF prev = Unexpandable \/ ~IsUserCommand(prev.name) THEN prev
                 ELSE IF Expandable(user_commands[prev.name], prev)
                 THEN Expanded(user_commands[prev.name], prev)
                 ELSE Unexpandable
        last == after[MaxExpansions - 1]
    IN  IF IsUserCommand(last.name) THEN Unexpandable ELSE last

\* CommandRegistry::resolve: the name itself, or what it abbreviates.
Resolved(name) ==
    IF name \in Natives THEN {name}
    ELSE {n \in Natives : <<name, n>> \in Abbreviates}

\* Mutant: dispatch_command without its capability check.
AcceptedUnchecked(c) ==
    \E n \in Natives :
        /\ Resolved(c.name) = {n}
        /\ c.bang => n \in AcceptsBang

\* dispatch_command.
Accepted(c) ==
    \E n \in Natives :
        /\ Resolved(c.name) = {n}
        /\ c.bang => n \in AcceptsBang
        /\ n \in Permitted

Registrations == {"command", "delcommand", "augroup", "autocmd", "map", "noremap"}

\* The task waits for the editor's future.
RunCommand(c) ==
    /\ c.name \notin Registrations \cup {"call", Option}
    /\ IF Prepared(c) # Unexpandable /\ Accepted(Prepared(c))
       THEN /\ sent' = sent \cup
                 {[name |-> CHOOSE n \in Resolved(Prepared(c).name) : TRUE,
                   bang |-> Prepared(c).bang]}
            /\ answer' = "waiting"
            /\ UNCHANGED <<registries, consumed>>
       ELSE Refuse

\* HostRuntime::dispatch.  args: [function, count].
Callable(c) ==
    /\ c.args.function \in Functions
    /\ <<c.args.function, c.args.count>> \in Arities
    /\ c.args.function \in Permitted

CallFunction(c) ==
    /\ c.name = "call"
    /\ IF Callable(c)
       THEN /\ sent' = sent \cup {[name |-> c.args.function, bang |-> FALSE]}
            /\ answer' = "waiting"
            /\ UNCHANGED <<registries, consumed>>
       ELSE Refuse

\* HostRuntime::dispatch_option.
AccessOption(c) ==
    /\ c.name = Option
    /\ IF Option \in Permitted
       THEN /\ sent' = sent \cup {[name |-> Option, bang |-> FALSE]}
            /\ answer' = "waiting"
            /\ UNCHANGED <<registries, consumed>>
       ELSE Refuse

\* The future is ready.  What the editor answers is its own business.
Answered ==
    /\ answer = "waiting"
    /\ answer' \in {"ok", "error"}
    /\ UNCHANGED <<registries, sent, consumed>>

\* run_task, for a command, a host call or an option of a script.
Command(c, owner, buffer) ==
    /\ answer = "none"
    /\ \/ DefineUserCommand(c, owner)
       \/ DeleteUserCommand(c)
       \/ Augroup(c)
       \/ Autocmd(c, owner)
       \/ MapKeys(c, owner, buffer)
       \/ RunCommand(c)
       \/ CallFunction(c)
       \/ AccessOption(c)
===============================================================================
