----------------------- MODULE MCWorkflowDefinitions -----------------------
(***************************************************************************)
(* Three models of the workflow service and of what is accepted before it  *)
(* runs anything: runs of the small workflow (MCWorkflow), small scripts   *)
(* of both languages, and workflow definitions of up to five nodes.  They  *)
(* share nothing; which of them runs is chosen at the start, and the       *)
(* others stay in their initial states.                                    *)
(***************************************************************************)
EXTENDS MCWorkflow

CONSTANTS n1, n2, n3, n4, n5, k1

VARIABLES
    part,                                           \* "runs", "scripts", "graphs"
    language, stack, items, compiled, outcome,      \* Scripts
    nodes, verdict, before, run, ended              \* WorkflowDefinition

Leaf(op, arg) == [op |-> op, arg |-> arg, kids |-> <<>>]
Str(s) == Leaf("string", s)
Calls(fn, args) == [op |-> "call", arg |-> fn, kids |-> args]

MCItem(lang) ==
    IF lang = "workflow"
    THEN {Str("ok"), Str("no"),
          Calls("activity", <<Str("a"), Leaf("name", "x")>>),
          Calls("context_set", <<Str("k"), Str("v")>>)}
    ELSE {Leaf("name", "args"), Calls("file_stat", <<Leaf("name", "args")>>),
          Calls("file_write_text", <<Leaf("name", "args")>>),
          Calls("file_remove", <<Leaf("name", "args")>>),
          Calls("process_start", <<Leaf("name", "args")>>)}

MCItems(lang) == IF lang = "workflow" THEN 6 ELSE 4

MCHost ==
    "file_stat"       :> [capability |-> "files.read",      effect |-> "read"] @@
    "file_write_text" :> [capability |-> "files.write",     effect |-> "destructive"] @@
    "file_remove"     :> [capability |-> "files.delete",    effect |-> "destructive"] @@
    "process_start"   :> [capability |-> "processes.start", effect |-> "mutate"]

S == INSTANCE Scripts
        WITH Item <- MCItem, MaxItems <- MCItems, MaxDepth <- 4, MaxHostCalls <- 2,
             MaxCollections <- 1, Host <- MCHost, Route <- {"ok", "no"},
             Allowed <- {"files.read", "files.write", "processes.start"}

-----------------------------------------------------------------------------
\* Where a node may lead: along n1, n3, n2, n4, n5 or over some of them, n4 also back.
Reach(id) ==
    CASE id = n1 -> {n2, n3, n4} [] id = n3 -> {n2, n4, n5} [] id = n2 -> {n4, n5} [] id = n4 -> {n3, n5}

\* One route, or two of which the second has one target.
RoutesTo(T) ==
    {("ok" :> targets) : targets \in (SUBSET T) \ {{}}}
    \cup UNION {{("ok" :> targets @@ "no" :> {n}) : targets \in (SUBSET (T \ {n})) \ {{}}} : n \in T}

NodeOf(id, routes, how, keys) ==
    [id |-> id, routes |-> routes, join |-> how, terminal |-> "", keys |-> keys]

Declared(id, joins) ==
    {NodeOf(id, routes, how, keys) :
        routes \in RoutesTo(Reach(id)), how \in joins, keys \in {{}, {k1}}}

\* Two nodes of one name, one target of two routes, no route, a missing target.
Faulty == {NodeOf(n2, "ok" :> {n4}, "", {}), NodeOf(n3, "ok" :> {n4} @@ "no" :> {n4}, "", {}),
           NodeOf(n3, <<>>, "", {}), NodeOf(n3, "ok" :> {k1}, "", {})}

MCCandidate(i) ==
    CASE i = 1 -> {NodeOf(n1, "ok" :> targets, "", {}) : targets \in (SUBSET Reach(n1)) \ {{}}}
      [] i = 2 -> {node \in Declared(n2, {"", "any"}) : node.keys = {k1}}
      [] i = 3 -> Declared(n3, {"all"}) \cup Faulty
      [] i = 4 -> Declared(n4, {"any"})
      [] OTHER -> {[id |-> n5, routes |-> <<>>, join |-> "any", terminal |-> "succeeded",
                    keys |-> {}]}

D == INSTANCE WorkflowDefinition
        WITH Entry <- n1, Candidate <- MCCandidate, MaxNodes <- 5

-----------------------------------------------------------------------------
scriptVars == <<language, stack, items, compiled, outcome>>
graphVars  == <<nodes, verdict, before, run, ended>>
allVars    == <<part, vars, scriptVars, graphVars>>

AllInit ==
    /\ part \in {"runs", "scripts", "graphs"} /\ Init /\ S!Init /\ D!Init
    /\ part # "scripts" => language = "workflow"

\* A finished script and a finished graph rest; runs have to go on.
AllSpec ==
    /\ AllInit
    /\ [][\/ part = "runs" /\ Next /\ UNCHANGED <<part, scriptVars, graphVars>>
          \/ part = "scripts" /\ S!Next /\ UNCHANGED <<part, vars, graphVars>>
          \/ part = "graphs" /\ D!Next /\ UNCHANGED <<part, vars, scriptVars>>
          \/ part # "runs" /\ UNCHANGED allVars]_allVars
    /\ Fairness

(* Accepted scripts keep the promises of their analysis (Scripts). *)
ScriptsKept == S!ScriptsKept

(* Accepted definitions can be run as declared (WorkflowDefinition). *)
DefinitionsSound == D!DefinitionsSound
=============================================================================
