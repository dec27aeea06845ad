------------------------------- MODULE Scripts -------------------------------
(***************************************************************************)
(* What the controller promises about the Expr scripts of its definition   *)
(* files before it ever runs one: the analysis of workflow node scripts    *)
(* (internal/workflow/script.go) and of MCP tool scripts                   *)
(* (internal/mcp/script.go, registry.go), and the host functions that      *)
(* check the same again while a script runs (host.go).                     *)
(*                                                                         *)
(* A script is any tree of at most MaxItems items; it is built bottom up,  *)
(* as a stack of finished subtrees.  Then it is compiled, and if it is     *)
(* accepted it is run, with conditions and collections that come out as    *)
(* they please.                                                            *)
(*                                                                         *)
(* Abstractions.  Unary, member, slice, array, map and chain nodes are     *)
(* walked and evaluated like a strict operator; the byte and node limits   *)
(* of a source text, argument counts, executor kinds and the builtins and  *)
(* operators that both languages forbid outright are left out.             *)
(* The Expr compiler (external) accepts every script that the analysis     *)
(* accepts, and an activity of a workflow has its result.                  *)
(***************************************************************************)
EXTENDS Integers, FiniteSets, SequencesExt

CONSTANTS
    Item(_),            \* language |-> subtrees a script is made from
    MaxItems(_),        \* bound: items of a script in a language
    MaxDepth,           \* maxScriptDepth, maxYAMLDepth
    MaxHostCalls,       \* maxHostCalls; 16
    MaxCollections,     \* 32
    Host,               \* hostCatalog: function |-> capability, effect
    Allowed,            \* mcp.allowed_host_capabilities
    Route               \* routes a definition may declare

VARIABLES
    language,   \* "workflow" or "mcp"
    stack,      \* finished subtrees, the last one on top
    items,      \* how many items they have
    compiled,   \* what the analysis said
    outcome     \* of one run of the script

vars == <<language, stack, items, compiled, outcome>>

\* Nodes of a script.  String literals and names have their text in arg, calls
\* their function, declarations their variable.
Leaf(op, arg)       == [op |-> op, arg |-> arg, kids |-> <<>>]
Branch(op, arg, ks) == [op |-> op, arg |-> arg, kids |-> ks]

Operators == {"strict", "logic", "cond", "let", "seq", "each"}
Arity(op) == IF op = "cond" THEN 3 ELSE 2

Mutation(call) == call.op = "call" /\ call.arg \in {"context_set", "context_delete"}
Activity(call) == call.op = "call" /\ call.arg = "activity"
HostCall(call) == call.op = "call" /\ call.arg \in DOMAIN Host

-----------------------------------------------------------------------------
(***************************************************************************)
(* The walks.  Each yields the nodes it visits in its order, with the      *)
(* depth and the guards above them; the checks of a walk are conditions on *)
(* its visits.                                                             *)
(***************************************************************************)
Visit(node, depth, guards) == [node |-> node, depth |-> depth, guards |-> guards]

\* mutant: a predicate guards nothing.
guardAtOpen(op, i) == IF op = "logic" \/ (op = "cond" /\ i = 1) THEN 1 ELSE 0

\* Guards between a node and its i-th child: the operands of && and ||, a
\* condition, and the predicate of a collection.
guardAt(op, i) ==
    IF op = "logic" \/ (op = "cond" /\ i = 1) \/ (op = "each" /\ i = 2) THEN 1 ELSE 0

\* A predicate is a node of its own between the collection and its body.
depthAt(op, i) == IF op = "each" /\ i = 2 THEN 2 ELSE 1

\* The arguments of a workflow host call are walked from depth 1, its literals
\* not at all.
RECURSIVE walk(_, _, _)
walk(node, depth, guards) ==
    LET below(i) ==
            IF Activity(node) \/ Mutation(node)
            THEN IF i = 1 THEN <<>> ELSE walk(node.kids[i], 1, guards)
            ELSE walk(node.kids[i], depth + depthAt(node.op, i), guards + guardAt(node.op, i))
    IN  <<Visit(node, depth, guards)>>
        \o FlattenSeq([i \in DOMAIN node.kids |-> below(i)])

\* mutant: a predicate is walked like any argument.
predicateAtNone(op, i) == 0

\* The walk of MCP tools counts predicates only.
predicateAt(op, i) == IF op = "each" /\ i = 2 THEN 1 ELSE 0

\* The name of the function called is visited like an argument.
callee(node, depth, predicates) ==
    IF node.op = "call" THEN <<Visit(Leaf("name", node.arg), depth, predicates)>> ELSE <<>>

RECURSIVE walkTool(_, _, _)
walkTool(node, depth, predicates) ==
    <<Visit(node, depth, predicates)>> \o callee(node, depth + 1, predicates)
    \o FlattenSeq([i \in DOMAIN node.kids |->
            walkTool(node.kids[i], depth + depthAt(node.op, i),
                     predicates + predicateAt(node.op, i))])

Having(visits, Test(_)) == SelectSeq(visits, LAMBDA v : Test(v.node))

-----------------------------------------------------------------------------
(***************************************************************************)
(* compileScript for a workflow node with its declared routes.             *)
(***************************************************************************)
NoRoute == "-"

\* mutant: the other branch of a condition is not an end.
RECURSIVE collectRouteLiteralsAll(_)
collectRouteLiteralsAll(node) ==
    CASE node.op = "string" -> {node.arg}
      [] node.op = "cond"   -> collectRouteLiteralsAll(node.kids[2])
      [] node.op \in {"seq", "let"} -> collectRouteLiteralsAll(node.kids[2])
      [] OTHER              -> {NoRoute}

\* The string literals in which the script may end, NoRoute for any other end.
RECURSIVE collectRouteLiterals(_)
collectRouteLiterals(node) ==
    CASE node.op = "string" -> {node.arg}
      [] node.op = "cond"   -> collectRouteLiterals(node.kids[2])
                               \cup collectRouteLiterals(node.kids[3])
      [] node.op \in {"seq", "let"} -> collectRouteLiterals(node.kids[2])
      [] OTHER              -> {NoRoute}

Reserved == {"parameters", "context", "nodes", "activities", "__workflow_context"}

\* The first argument of a host call names the operation or the key.
analyzeActivity(v)        == v.guards = 0 /\ v.node.kids[1].op = "string"
analyzeContextMutation(v) == v.guards = 0 /\ v.node.kids[1].op = "string"

named(visits, Test(_)) ==
    LET calls == Having(visits, Test)
    IN  [i \in DOMAIN calls |-> calls[i].node.kids[1].arg]

\* mutant: two calls of one activity are one activity.
walkAcceptsTwice(visits) ==
    \A i \in DOMAIN visits :
        LET node == visits[i].node
        IN  /\ visits[i].depth <= MaxDepth
            /\ node.op = "name" => node.arg # "__workflow_context"
            /\ node.op = "let"  => node.arg \notin Reserved
            /\ Activity(node)   => analyzeActivity(visits[i])
            /\ Mutation(node)   => analyzeContextMutation(visits[i])

walkAccepts(visits) ==
    LET operations == named(visits, Activity)
    IN  /\ \A i \in DOMAIN visits :
              LET node == visits[i].node
              IN  /\ visits[i].depth <= MaxDepth
                  /\ node.op = "name" => node.arg # "__workflow_context"
                  /\ node.op = "let"  => node.arg \notin Reserved
                  /\ Activity(node)   => analyzeActivity(visits[i])
                  /\ Mutation(node)   => analyzeContextMutation(visits[i])
        /\ IsInjective(operations)

compileScript(script, declared) ==
    LET visits == walk(script, 0, 0)
    IN  /\ collectRouteLiterals(script) = declared
        /\ walkAccepts(visits)
        /\ Len(Having(visits, LAMBDA n : Activity(n) \/ Mutation(n))) <= MaxHostCalls

\* What the rest of the service knows of an accepted script.
analysis(script, declared) ==
    LET visits == walk(script, 0, 0)
    IN  [routes |-> declared, operations |-> ToSet(named(visits, Activity)),
         contextKeys |-> ToSet(named(visits, Mutation))]

-----------------------------------------------------------------------------
(***************************************************************************)
(* compileScript and compileTool for an MCP tool.                          *)
(***************************************************************************)
Effects == <<"read", "mutate", "destructive">>
rank(effect) == IndexFirstSubSeq(<<effect>>, Effects)

\* mutant: the last expression may be anything that contains the call.
finalHostCallAnywhere(node) ==
    LET calls == Having(walkTool(node, 0, 0), LAMBDA n : HostCall(n) /\ Host[n.arg].effect # "read")
    IN  IF calls = <<>> THEN "" ELSE Last(calls).node.arg

RECURSIVE finalHostCall(_)
finalHostCall(node) ==
    IF node.op \in {"let", "seq"} THEN finalHostCall(node.kids[2])
    ELSE IF node.op = "call" THEN node.arg ELSE ""

policy(script) ==
    LET hosts     == Having(walkTool(script, 0, 0), HostCall)
        effects   == {Host[hosts[i].node.arg].effect : i \in DOMAIN hosts} \cup {"read"}
        mutations == Having(hosts, LAMBDA n : Host[n.arg].effect # "read")
    IN  [capabilities |-> {Host[hosts[i].node.arg].capability : i \in DOMAIN hosts},
         strongest    |-> CHOOSE e \in effects : \A f \in effects : rank(f) <= rank(e),
         mutations    |-> [i \in DOMAIN mutations |-> mutations[i].node.arg],
         calls        |-> Len(hosts)]

compileToolScript(script) ==
    LET visits == walkTool(script, 0, 0)
        p      == policy(script)
    IN  /\ \A i \in DOMAIN visits :
              /\ visits[i].depth <= MaxDepth
              /\ HostCall(visits[i].node) => visits[i].guards = 0
              /\ visits[i].guards <= 2
        /\ p.calls <= MaxHostCalls
        /\ Len(Having(visits, LAMBDA n : n.op = "each")) <= MaxCollections
        /\ Len(p.mutations) <= 1
        /\ p.mutations # <<>> => finalHostCall(script) = p.mutations[1]

Starts == {"processes.start", "process_templates.start"}

\* mutant: only a destructive script must say that it writes.
annotationsHoldWeak(a, p) ==
    /\ p.strongest = "read" => a.readOnly /\ ~a.destructive
    /\ p.strongest = "destructive" => ~a.readOnly /\ a.destructive
    /\ p.strongest = "mutate" => ~a.destructive
    /\ a.openWorld <=> p.capabilities \cap Starts # {}

annotationsHold(a, p) ==
    /\ p.strongest = "read" => a.readOnly /\ ~a.destructive
    /\ p.strongest # "read" => ~a.readOnly
    /\ p.strongest = "destructive" => a.destructive
    /\ p.strongest = "mutate" => ~a.destructive
    /\ p.capabilities \cap Starts # {} => ~a.idempotent
    /\ a.openWorld <=> p.capabilities \cap Starts # {}

Annotations == [readOnly : BOOLEAN, destructive : BOOLEAN, idempotent : BOOLEAN,
                openWorld : BOOLEAN]

\* Prepare: what a tool needs must be declared, exactly, and be allowed.
compileTool(script, capabilities, annotations) ==
    /\ compileToolScript(script)
    /\ capabilities = policy(script).capabilities
    /\ annotationsHold(annotations, policy(script))
    /\ capabilities \subseteq Allowed

-----------------------------------------------------------------------------
(***************************************************************************)
(* Running a script (expr.Run, external): the ways it may go, each with    *)
(* its value and the host calls it makes, in their order.                  *)
(***************************************************************************)
Other == "other"
Going(value, calls) == [value |-> value, calls |-> calls]

\* First as a, then as b.
Then(a, b) == {Going(r.value, l.calls \o r.calls) : l \in a, r \in b}

RECURSIVE Runs(_)
Runs(node) ==
    LET kid(i) == Runs(node.kids[i])
        nothing == {Going(Other, <<>>)}
        valueless(a) == {Going(Other, g.calls) : g \in a}
    IN  CASE node.op = "string" -> {Going(node.arg, <<>>)}
          [] node.op = "name"   -> nothing
          [] node.op = "strict" -> valueless(Then(kid(1), kid(2)))
          [] node.op = "logic"  -> valueless(kid(1) \cup Then(kid(1), kid(2)))
          [] node.op = "cond"   -> Then(kid(1), kid(2) \cup kid(3))
          [] node.op \in {"let", "seq"} -> Then(kid(1), kid(2))
          [] node.op = "each"   ->
                valueless(kid(1) \cup Then(kid(1), kid(2)) \cup Then(kid(1), Then(kid(2), kid(2))))
          [] node.op = "call"   ->
                LET named1   == IF node.kids # <<>> /\ node.kids[1].op = "string"
                                THEN node.kids[1].arg ELSE Other
                    itself   == {Going(Other, <<[fn |-> node.arg, name |-> named1]>>)}
                IN  FoldRight(Then, [i \in DOMAIN node.kids |-> kid(i)], itself)

\* bindHostOption: what a host function checks before it does its work.
HostError(tool, calls) ==
    LET writes == SelectSeq(calls, LAMBDA c : Host[c.fn].effect # "read")
    IN  CASE \E i \in DOMAIN calls : Host[calls[i].fn].capability \notin tool.capabilities
                -> "not authorized"
          [] Len(calls) > MaxHostCalls -> "host call budget"
          [] Len(writes) > 1           -> "mutation budget"
          [] OTHER                     -> "none"

\* runScript: a route nobody declared is an error of the run.
RouteError(node, value) == IF value \in node.routes THEN "none" ELSE "undeclared route"

-----------------------------------------------------------------------------
None == [verdict |-> "none"]

Init ==
    /\ language \in {"workflow", "mcp"}
    /\ stack = <<>> /\ items = 0
    /\ compiled = None /\ outcome = None

Building == compiled = None /\ items < MaxItems(language)

\* Only what can still become one tree: no operator takes more than three.
Push(item) ==
    /\ Building
    /\ Len(stack) <= 2 * (MaxItems(language) - items - 1)
    /\ stack' = Append(stack, item) /\ items' = items + 1
    /\ UNCHANGED <<language, compiled, outcome>>

Combine(op) ==
    LET n == Len(stack) - Arity(op)
    IN  /\ Building /\ n >= 0
        /\ stack' = Append(SubSeq(stack, 1, n),
                           Branch(op, "x", SubSeq(stack, n + 1, Len(stack))))
        /\ items' = items + 1
        /\ UNCHANGED <<language, compiled, outcome>>

Finished == compiled = None /\ Len(stack) = 1
Parsed   == stack[1]

CompileNode(declared) ==
    /\ Finished /\ language = "workflow"
    /\ compiled' = IF compileScript(Parsed, declared)
                   THEN [verdict |-> "accepted", node |-> analysis(Parsed, declared)]
                   ELSE [verdict |-> "refused"]
    /\ UNCHANGED <<language, stack, items, outcome>>

CompileTool(capabilities, annotations) ==
    /\ Finished /\ language = "mcp"
    /\ compiled' = IF compileTool(Parsed, capabilities, annotations)
                   THEN [verdict |-> "accepted",
                         tool |-> [capabilities |-> capabilities, annotations |-> annotations]]
                   ELSE [verdict |-> "refused"]
    /\ UNCHANGED <<language, stack, items, outcome>>

Run(going) ==
    /\ compiled.verdict = "accepted" /\ outcome = None
    /\ outcome' = [verdict |-> IF language = "workflow"
                               THEN RouteError(compiled.node, going.value)
                               ELSE HostError(compiled.tool, going.calls),
                   value |-> going.value, calls |-> going.calls]
    /\ UNCHANGED <<language, stack, items, compiled>>

Capabilities == {Host[f].capability : f \in DOMAIN Host}

Next ==
    \/ \E item \in Item(language) : Push(item)
    \/ \E op \in Operators : Combine(op)
    \/ \E declared \in (SUBSET Route) \ {{}} : CompileNode(declared)
    \/ \E c \in SUBSET Capabilities, a \in Annotations : CompileTool(c, a)
    \/ outcome = None /\ compiled.verdict = "accepted" /\ \E going \in Runs(Parsed) : Run(going)

Spec == Init /\ [][Next]_vars

-----------------------------------------------------------------------------
(***************************************************************************)
(* Properties.                                                             *)
(***************************************************************************)
Ran == outcome # None
Names(Fns) == LET calls == SelectSeq(outcome.calls, LAMBDA c : c.fn \in Fns)
              IN  [i \in DOMAIN calls |-> calls[i].name]

\* An accepted node script does at run time what the analysis said: it ends in
\* a declared route, calls no activity twice and only those it was said to
\* call, and changes only the context keys by which writers were ordered.
NodeScriptsKept ==
    Ran /\ language = "workflow" =>
        /\ outcome.verdict = "none"
        /\ IsInjective(Names({"activity"}))
        /\ ToSet(Names({"activity"})) \subseteq compiled.node.operations
        /\ ToSet(Names({"context_set", "context_delete"})) \subseteq compiled.node.contextKeys

\* An accepted tool never meets the checks the host functions repeat, and keeps
\* its annotations: it writes at most once and last, not at all when read-only,
\* nothing destructive unless it says so, starts no process unannounced, and
\* uses nothing the configuration does not allow.
ToolScriptsKept ==
    Ran /\ language = "mcp" =>
        LET a      == compiled.tool.annotations
            effect == [i \in DOMAIN outcome.calls |-> Host[outcome.calls[i].fn]]
        IN  /\ outcome.verdict = "none"
            /\ \A i \in DOMAIN effect :
                  /\ effect[i].capability \in Allowed
                  /\ effect[i].effect # "read" => i = Len(effect) /\ ~a.readOnly
                  /\ effect[i].effect = "destructive" => a.destructive
                  /\ effect[i].capability \in Starts => a.openWorld /\ ~a.idempotent

\* No more is refused than need be: of every declared route some run is the end.
RoutesReachable ==
    compiled.verdict = "accepted" /\ language = "workflow" =>
        compiled.node.routes = {going.value : going \in Runs(Parsed)}

\* What a script was compiled to is what its analysis and its runs say of it.
ScriptsKept == NodeScriptsKept /\ ToolScriptsKept /\ RoutesReachable
=============================================================================
