------------------------------ MODULE ToolSurface ------------------------------
(***************************************************************************)
(* register_tool_surface: the tools a connector's server offers.  The      *)
(* registrars run, the tools that route an action argument are split into  *)
(* one tool per action unless a tool of the client's operations serves     *)
(* that action, the operations are registered, and the server starts only  *)
(* with every tool classified.                                             *)
(*                                                                         *)
(* A name is the sequence of its words.  What the code finds out about an  *)
(* action by reading the source of its tool is part of the tool: how the   *)
(* action is routed, the operations it refers to, and whether it does more *)
(* than pass their results on.                                             *)
(***************************************************************************)
EXTENDS Integers, Sequences, FiniteSets, Functions

CONSTANTS
    Surfaces,    \* what a connector may hand in
    Prefix,      \* operation_prefix of the service
    ReadWords, MutatingWords, DestructiveWords,
    None

VARIABLES
    given,       \* the connector's declaration
    phase,
    todo,        \* registrars, routers or operations the phase still has
    tools,       \* name -> the tool the server holds
    gated,       \* GATED_TOOLS_ATTRIBUTE
    report,      \* action_split_report
    gone         \* ghost: names of routers that were taken off the server

vars == <<given, phase, todo, tools, gated, report, gone>>

Names == DOMAIN tools
Without(f, name) == Restrict(f, DOMAIN f \ {name})
With(f, name, tool) == [n \in DOMAIN f \cup {name} |-> IF n = name THEN tool ELSE f[n]]
Routes(tool) == tool.actions # None
Actions(tool) == IF Routes(tool) THEN DOMAIN tool.actions ELSE {}  \* the enumerable ones
Branch(tool, action) == tool.actions[action]

\* given: registrars (the tools each one adds, and its toggle), operations (the method
\* and the manifest's name of each), factory (get_client is set), keep (action_dispatch),
\* verbose (names verbose_register adds), classes (a class for each tool by name).
TypeOK ==
    /\ given \in Surfaces
    /\ phase \in {"condensed", "settle", "operations", "verbose", "classify", "serving",
                  "failed"}
    /\ gated \subseteq Names \cup gone
    /\ \A d \in report : d.outcome \in {"split", "covered", "kept"}

Init ==
    /\ given \in Surfaces
    /\ phase = "condensed" /\ todo = given.registrars
    /\ tools = << >> /\ gated = {} /\ report = {} /\ gone = {}

--------------------------------------------------------------------------------
(* _register_condensed *)

Condense ==
    /\ phase = "condensed"
    /\ \E r \in todo :
         /\ todo' = todo \ {r}
         /\ IF ~r.on THEN UNCHANGED <<tools, gated>>
            ELSE LET added == {t \in r.adds : t.name \notin Names}
                 IN /\ tools' = [n \in Names \cup {t.name : t \in r.adds} |->
                                   IF n \in Names THEN tools[n]
                                   ELSE CHOOSE t \in r.adds : t.name = n]
                    /\ gated' = gated \cup {t.name : t \in added}
    /\ UNCHANGED <<given, phase, report, gone>>

\* has_client
HasClient == given.operations # {}

Condensed ==
    /\ phase = "condensed" /\ todo = {}
    /\ phase' = IF HasClient THEN "settle" ELSE "verbose"
    /\ todo' = IF HasClient THEN {n \in Names : Routes(tools[n])} ELSE {}
    /\ UNCHANGED <<given, tools, gated, report, gone>>

--------------------------------------------------------------------------------
(* _settle_action_tools *)

\* _tool_name: a method that starts with the prefix keeps its name.
Named(op) ==
    LET n == IF op.name # None THEN op.name ELSE op.method
    IN IF Head(n) = Prefix THEN n ELSE <<Prefix>> \o n
Operations == [m \in {op.method : op \in given.operations} |->
                 Named(CHOOSE op \in given.operations : op.method = m)]
Taken(name) == (Names \ {name}) \cup Range(Operations)

Served(refs) == refs \cap DOMAIN Operations

\* Fault: a branch that calls one operation is taken to return its result.
AnyBranch(how) ==
    IF how.via = "branch" /\ Cardinality(Served(how.refs)) = 1 THEN Served(how.refs) ELSE {}
BranchOperation(how) ==
    IF how.via = "branch" /\ Cardinality(Served(how.refs)) = 1 /\ ~how.computes
    THEN Served(how.refs) ELSE {}
TableOperation(how) == IF how.via = "table" THEN Served(how.refs) ELSE {}
LiteralOperation(how) ==
    IF how.via = "literal" /\ Cardinality(Served(how.refs)) = 1 THEN Served(how.refs) ELSE {}

\* The tools that serve the action already, by the first rule that finds one.
Coverage(name, action, how) ==
    LET split == Append(name, action)
        By(methods) == {Operations[m] : m \in methods}
    IN IF split \in Taken(name) THEN {split}
       ELSE IF <<action>> \in DOMAIN Operations THEN {Operations[<<action>>]}
       ELSE IF BranchOperation(how) # {} THEN By(BranchOperation(how))
       ELSE IF TableOperation(how) # {} THEN By(TableOperation(how))
       ELSE By(LiteralOperation(how))

\* An action goes by a name, like a method: a sequence of words.
Decision(name, action, outcome, by) ==
    [tool |-> name, action |-> action, outcome |-> outcome, by |-> by]

ReadOnly(action) == action \in ReadWords /\ action \notin MutatingWords
Destructive(action) == action \in DestructiveWords
PerAction(tool, action) ==
    [name |-> Append(tool.name, action), actions |-> None, read |-> ReadOnly(action),
     destructive |-> Destructive(action), computes |-> Branch(tool, action).computes]

Settled(name) == phase = "settle" /\ name \in todo /\ todo' = todo \ {name}

\* Actions that cannot be enumerated.
\* Fault: the router goes before its actions are known.
Dropped(name) ==
    /\ Settled(name) /\ ~given.keep
    /\ Actions(tools[name]) = {} /\ tools[name].client = None
    /\ tools' = Without(tools, name) /\ gated' = gated \ {name} /\ gone' = gone \cup {name}
    /\ report' = report \cup {Decision(name, None, "kept", name)}
    /\ UNCHANGED <<given, phase>>
KeepRouter(name) ==
    /\ Settled(name) /\ ~given.keep
    /\ Actions(tools[name]) = {} /\ tools[name].client = None
    /\ report' = report \cup {Decision(name, None, "kept", name)}
    /\ UNCHANGED <<given, phase, tools, gated, gone>>

\* A generic router over the served client.
Dispatched(name) ==
    /\ Settled(name) /\ ~given.keep
    /\ Actions(tools[name]) = {} /\ tools[name].client # None
    /\ report' = report \cup
         {Decision(name, m, "covered", Operations[m]) : m \in DOMAIN Operations}
    /\ tools' = Without(tools, name) /\ gated' = gated \ {name} /\ gone' = gone \cup {name}
    /\ UNCHANGED <<given, phase>>

\* Fault: the split tools are not held back from the default view.
Ungated(name, added) == gated \ {name}
Gated(name, added) == (gated \ {name}) \cup added

Split(name) ==
    /\ Settled(name) /\ ~given.keep /\ Actions(tools[name]) # {}
    /\ LET tool == tools[name]
           Cover(a) == Coverage(name, a, Branch(tool, a))
           split == {a \in Actions(tool) : Cover(a) = {}}
           added == {Append(name, a) : a \in split}
       IN /\ \E by \in [Actions(tool) \ split -> Names \cup Range(Operations)] :
               /\ \A a \in DOMAIN by : by[a] \in Cover(a)
               /\ report' = report
                    \cup {Decision(name, <<a>>, "split", Append(name, a)) : a \in split}
                    \cup {Decision(name, <<a>>, "covered", by[a]) : a \in DOMAIN by}
          /\ tools' = [n \in (Names \ {name}) \cup added |->
                         IF n \in Names \ {name} THEN tools[n]
                         ELSE PerAction(tool, CHOOSE a \in split : Append(name, a) = n)]
          /\ gated' = Gated(name, added)
    /\ gone' = gone \cup {name}
    /\ UNCHANGED <<given, phase>>

\* action_dispatch: the router stays as it is.
Keep(name) ==
    /\ Settled(name) /\ given.keep
    /\ UNCHANGED <<given, phase, tools, gated, report, gone>>

SettlementDone ==
    /\ phase = "settle" /\ todo = {} /\ phase' = "operations"
    /\ todo' = IF given.factory THEN given.operations ELSE {}
    /\ UNCHANGED <<given, tools, gated, report, gone>>

--------------------------------------------------------------------------------
(* _register_operations, _gate_operations and verbose_register *)

\* Fault: an operation replaces the tool that has its name.
Overwrites(op) == FALSE
Collides(op) == Named(op) \in Names

OperationTool(op) ==
    [name |-> Named(op), actions |-> None, read |-> op.read, destructive |-> FALSE,
     computes |-> FALSE]

RegisterOperation ==
    /\ phase = "operations"
    /\ \E op \in todo :
         IF Collides(op) THEN phase' = "failed" /\ UNCHANGED <<todo, tools>>
         ELSE /\ tools' = With(tools, Named(op), OperationTool(op))
              /\ todo' = todo \ {op} /\ UNCHANGED phase
    /\ UNCHANGED <<given, gated, report, gone>>

GateOperations ==
    /\ phase = "operations" /\ todo = {} /\ phase' = "verbose"
    /\ gated' = gated \cup (IF given.factory THEN Range(Operations) ELSE {})
    /\ UNCHANGED <<given, todo, tools, report, gone>>

RunVerbose ==
    /\ phase = "verbose"
    /\ phase' = IF given.verbose \in Names THEN "failed" ELSE "classify"
    /\ tools' = IF given.verbose = None \/ given.verbose \in Names THEN tools
                ELSE With(tools, given.verbose,
                          [name |-> given.verbose, actions |-> None, read |-> FALSE,
                           destructive |-> FALSE, computes |-> TRUE])
    /\ UNCHANGED <<given, todo, gated, report, gone>>

--------------------------------------------------------------------------------
(* assert_tools_classified *)

\* A split tool has its parent's class, a read class only if its verb reads.
\* Fault: a read class passes to every action of its tool.
ClassOfParent(d) == given.classes[d.tool]
SplitClass(d) ==
    IF given.classes[d.tool] = "read" /\ ~ReadOnly(Head(d.action)) THEN None
    ELSE given.classes[d.tool]
SplitClasses ==
    LET split == {d \in report : d.outcome = "split" /\ d.tool \in DOMAIN given.classes}
    IN [n \in {d.by : d \in split} |-> SplitClass(CHOOSE d \in split : d.by = n)]
ClassOf(name) ==
    IF name \in DOMAIN given.classes THEN given.classes[name]
    ELSE IF name \in DOMAIN SplitClasses THEN SplitClasses[name] ELSE None

Classify ==
    /\ phase = "classify"
    /\ phase' = IF \E n \in Names : ClassOf(n) = None THEN "failed" ELSE "serving"
    /\ UNCHANGED <<given, todo, tools, gated, report, gone>>

Next ==
    \/ Condense \/ Condensed
    \/ \E name \in Names : KeepRouter(name) \/ Dispatched(name) \/ Split(name) \/ Keep(name)
    \/ SettlementDone \/ RegisterOperation \/ GateOperations \/ RunVerbose \/ Classify

Spec == Init /\ [][Next]_vars

--------------------------------------------------------------------------------

Done == phase \in {"classify", "serving"}
\* An operation of a client without a factory is counted on and never registered.
Unserved(name) == ~given.factory /\ name \in Range(Operations)

\* An action of a router that ran has a decision, and the tool the decision names is on
\* the server unless it was another router, split in its turn, or an operation of a
\* client that has no factory: nothing else loses an action.  A split or kept action
\* has its tool, and a tool that routes nothing stays what it is.
ActionsAreServed ==
    Done =>
        /\ \A d \in report : d.by \in Names \/ d.by \in gone \/ Unserved(d.by)
        /\ \A d \in report : d.outcome # "covered" => d.by \in Names
        /\ \A r \in given.registrars : r.on => \A t \in r.adds :
             ~Routes(t) => t.name \in Names /\ tools[t.name] = t
        /\ ~given.keep /\ HasClient =>
             \A r \in given.registrars : r.on => \A t \in r.adds :
               \/ t.name \in Names
               \/ \A a \in Actions(t) :
                    \E d \in report : d.tool = t.name /\ d.action = <<a>>

\* "Every action stays served, by its split tool or by the operation tool it duplicates"
\* (specs/SCION-CONNECTOR-CONTROL/requirements.md R020.2), on a server of a client with
\* a factory.
EveryActionIsServed ==
    phase = "serving" /\ given.factory => \A d \in report : d.by \in Names

\* An action that does more than pass one operation's result on has a tool of its own,
\* unless a table or a name gives it away.
ComputationsAreKept ==
    \A d \in report : d.outcome = "covered" =>
        \A r \in given.registrars : \A t \in r.adds : \A a \in Actions(t) :
          t.name = d.tool /\ d.action = <<a>> /\ Branch(t, a).via = "branch" =>
            \/ ~Branch(t, a).computes
            \/ d.by = Append(d.tool, a)
            \/ d.action \in DOMAIN Operations

\* The tools held back from a default view are exactly those of registrars and
\* operations that the server has, and a server that starts has none that mutates in a
\* read class.
SurfaceIsGated ==
    /\ Done => gated = Names \ {given.verbose}
    /\ phase = "serving" =>
         \A n \in Names : /\ ~(tools[n].read /\ tools[n].destructive)
                          /\ tools[n].destructive => ClassOf(n) # "read"
================================================================================
