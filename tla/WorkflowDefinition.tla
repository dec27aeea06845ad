------------------------- MODULE WorkflowDefinition -------------------------
(***************************************************************************)
(* The definition of a workflow (internal/workflow/definition.go): which   *)
(* graphs the builder accepts, and what a run of an accepted graph can     *)
(* rely on.  Module Workflow has one graph and every detail of its runs;   *)
(* here the graph is any that a file may declare, node by node, and a run  *)
(* is only the order in which its nodes get ready and end.                 *)
(*                                                                         *)
(* Abstractions.  A script is the set of context keys its analysis found   *)
(* (module Scripts) and ends in any of its routes, each a set of targets.  *)
(* Names, sizes, parameters, resources, timeouts and retries are left out, *)
(* and so is max_parallelism: every node that is ready is at work.  A node *)
(* that fails ends the run, which is a run that stops early.               *)
(***************************************************************************)
EXTENDS Integers, FiniteSets, SequencesExt

CONSTANTS
    Entry,          \* the entry a file declares
    Candidate(_),   \* i |-> what its i-th node may be
    MaxNodes        \* bound: nodes of a definition

VARIABLES
    nodes,      \* of the file, in its order: id, routes, join, terminal, context keys
    verdict,    \* "none", "accepted", "refused"
    before,     \* mustPrecede of the accepted definition
    run,        \* node |-> state and route
    ended       \* the run has ended

vars == <<nodes, verdict, before, run, ended>>

Executable(node) == node.terminal = ""

Ids == {nodes[i].id : i \in DOMAIN nodes}
def(n) == nodes[CHOOSE i \in DOMAIN nodes : nodes[i].id = n]

Targets(n)  == UNION {def(n).routes[route] : route \in DOMAIN def(n).routes}
Incoming(n) == {m \in Ids : n \in Targets(m)}
joinOf(n)   == IF def(n).join = "" THEN "all" ELSE def(n).join
Keys(n)     == def(n).keys

-----------------------------------------------------------------------------
(***************************************************************************)
(* compileDefinition: nodes first, then the graph, then the writers.       *)
(***************************************************************************)
nodesCompile ==
    /\ nodes # <<>>
    /\ \A i, j \in DOMAIN nodes : nodes[i].id = nodes[j].id => i = j
    /\ \A i \in DOMAIN nodes :
          /\ nodes[i].join \in {"", "all", "any"}
          /\ Executable(nodes[i]) <=> nodes[i].routes # <<>>
    /\ \E i \in DOMAIN nodes : ~Executable(nodes[i])
    /\ Entry \in Ids

\* Every target exists, and a node has one route at most to another.
edgesCompile ==
    \A n \in Ids :
        LET routes == def(n).routes
        IN  /\ \A r \in DOMAIN routes : routes[r] # {} /\ routes[r] \subseteq Ids
            /\ \A r, q \in DOMAIN routes : r # q => routes[r] \cap routes[q] = {}

degreesCompile ==
    /\ Incoming(Entry) = {}
    /\ \A n \in Ids \ {Entry} : Incoming(n) # {}

\* The orders in which the nodes may leave the queue: a node enters it when
\* its last source has left; the targets of one node come in the order of Go's
\* maps, which is any order.
RECURSIVE leave(_, _)
leave(queue, order) ==
    IF queue = <<>> THEN {order}
    ELSE LET left  == Append(order, Head(queue))
             freed == {n \in Targets(Head(queue)) : Incoming(n) \subseteq ToSet(left)}
         IN  UNION {leave(Tail(queue) \o p, left) : p \in SetToSeqs(freed)}

\* mutant: a node enters the queue with its first source.
compileGraphReached ==
    LET reach[i \in 0 .. MaxNodes] ==
            IF i = 0 THEN {Entry} ELSE reach[i - 1] \cup UNION {Targets(n) : n \in reach[i - 1]}
    IN  IF reach[MaxNodes] = Ids THEN {SetToSeq(Ids)} ELSE {}

\* The orders of the whole graph; none when a cycle keeps nodes back.
compileGraph == {order \in leave(<<Entry>>, <<>>) : ToSet(order) = Ids}

\* mutant: whatever the join, every source comes before.
mustPrecedeAll(order) ==
    LET add(b, n) == [b EXCEPT ![n] = UNION {{m} \cup b[m] : m \in Incoming(n)}]
    IN  FoldLeft(add, [n \in Ids |-> {}], order)

\* The nodes that have ended when a node starts: all that come before some
\* source, of an "any" join only those that come before every source.
mustPrecede(order) ==
    LET add(b, n) ==
            LET closures == {{m} \cup b[m] : m \in Incoming(n)}
            IN  [b EXCEPT ![n] =
                    IF closures # {} /\ joinOf(n) = "any"
                    THEN {m \in UNION closures : \A c \in closures : m \in c}
                    ELSE UNION closures]
    IN  FoldLeft(add, [n \in Ids |-> {}], order)

\* mutant: only neighbours in the order are compared.
writersOrderedNear(b) ==
    \A m, n \in Ids : m \in Incoming(n) /\ Keys(m) \cap Keys(n) # {} => m \in b[n]

writersOrdered(b) ==
    \A m, n \in Ids : m # n /\ Keys(m) \cap Keys(n) # {} => m \in b[n] \/ n \in b[m]

-----------------------------------------------------------------------------
Pending == [state |-> "PENDING", route |-> ""]

Init ==
    /\ nodes = <<>>
    /\ verdict = "none" /\ before = <<>>
    /\ run = <<>> /\ ended = FALSE

\* The author writes the next node.
Declare(node) ==
    /\ verdict = "none"
    /\ nodes' = Append(nodes, node)
    /\ UNCHANGED <<verdict, before, run, ended>>

Refuse ==
    /\ verdict = "none"
    /\ verdict' = "refused" /\ UNCHANGED <<nodes, before, run, ended>>

\* compileDefinition, and a run of what it accepts.
Compile ==
    LET accept(order) ==
            /\ verdict' = "accepted" /\ before' = mustPrecede(order)
            /\ run' = [n \in Ids |->
                          IF n = Entry THEN [Pending EXCEPT !.state = "READY"] ELSE Pending]
            /\ UNCHANGED <<nodes, ended>>
    IN  /\ verdict = "none"
        /\ IF ~(nodesCompile /\ edgesCompile /\ degreesCompile) \/ compileGraph = {} THEN Refuse
           ELSE \E order \in compileGraph :
                    IF writersOrdered(mustPrecede(order)) THEN accept(order) ELSE Refuse

Running == verdict = "accepted" /\ ~ended

Over(node) == node.state \in {"SUCCEEDED", "SKIPPED"}

\* The joins that its sources decide, and those that this decides in turn.
decide(nodeRuns, n) ==
    LET over  == {m \in Incoming(n) : Over(nodeRuns[m])}
        taken == {m \in over : nodeRuns[m].state = "SUCCEEDED"
                                  /\ n \in def(m).routes[nodeRuns[m].route]}
        ready == IF joinOf(n) = "any" THEN taken # {} ELSE taken = Incoming(n)
    IN  IF nodeRuns[n].state # "PENDING" THEN nodeRuns[n]
        ELSE IF ready THEN [Pending EXCEPT !.state = "READY"]
        ELSE IF over = Incoming(n) THEN [Pending EXCEPT !.state = "SKIPPED"]
        ELSE Pending

resolve(nodeRuns) ==
    LET after[i \in 0 .. MaxNodes] ==
            IF i = 0 THEN nodeRuns ELSE [n \in Ids |-> decide(after[i - 1], n)]
    IN  after[MaxNodes]

\* A node's script ends in one of its routes.
EndNode(n, route) ==
    /\ Running /\ run[n].state = "READY" /\ Executable(def(n))
    /\ run' = resolve([run EXCEPT ![n] = [state |-> "SUCCEEDED", route |-> route]])
    /\ ended' = \A m \in Ids : Over(run'[m])
    /\ UNCHANGED <<nodes, verdict, before>>

\* A terminal node ends the run.
ReachTerminal(n) ==
    /\ Running /\ run[n].state = "READY" /\ ~Executable(def(n))
    /\ run' = [run EXCEPT ![n].state = "SUCCEEDED"] /\ ended' = TRUE
    /\ UNCHANGED <<nodes, verdict, before>>

Next ==
    \/ Len(nodes) < MaxNodes /\ \E node \in Candidate(Len(nodes) + 1) : Declare(node)
    \/ Compile
    \/ \E n \in Ids :
          \/ \E route \in DOMAIN def(n).routes : EndNode(n, route)
          \/ ReachTerminal(n)

Spec == Init /\ [][Next]_vars

-----------------------------------------------------------------------------
(***************************************************************************)
(* Properties.                                                             *)
(***************************************************************************)
Edges == {<<m, n>> \in Ids \X Ids : n \in Targets(m)}

\* The nodes that can be reached from n along at least one edge.
Descendants(n) ==
    LET step(S) == S \cup {m \in Ids : \E l \in S : <<l, m>> \in Edges}
        reach[i \in 0 .. MaxNodes] ==
            IF i = 0 THEN {m \in Ids : <<n, m>> \in Edges} ELSE step(reach[i - 1])
    IN  reach[MaxNodes]

\* What a definition is accepted for, said of the graph as a whole: the entry
\* leads everywhere, nothing leads into it and nothing leads back.
SoundGraph ==
    /\ \A n \in Ids : Targets(n) \subseteq Ids
    /\ Descendants(Entry) = Ids \ {Entry}
    /\ \A n \in Ids : n \notin Descendants(n)

\* The builder's one pass over a queue accepts exactly the sound graphs (among
\* them, those whose writers it can order).
GraphsExact ==
    /\ verdict = "accepted" => SoundGraph
    /\ verdict = "refused" =>
          \/ ~nodesCompile \/ ~edgesCompile \/ ~SoundGraph
          \/ \E m, n \in Ids : m # n /\ Keys(m) \cap Keys(n) # {}

\* What the builder says comes before a node has ended before the node starts,
\* whatever routes are taken and whoever is fast.
PrecedenceHolds ==
    verdict = "accepted" =>
        \A n \in Ids : run[n].state \in {"READY", "SUCCEEDED"} =>
            \A m \in before[n] : Over(run[m])

\* Two nodes that change one context key are never at work at once.
WritersApart ==
    verdict = "accepted" =>
        \A m, n \in Ids :
            m # n /\ run[m].state = "READY" /\ run[n].state = "READY" =>
                Keys(m) \cap Keys(n) = {}

\* A run of an accepted graph never comes to a stop before its end: as long as
\* it has not ended, somebody is at work.
NeverStuck == Running => \E n \in Ids : run[n].state = "READY"

\* What is accepted can be run: the graph is sound, its order is the order of
\* every run, its writers take turns and its runs end.
DefinitionsSound == GraphsExact /\ PrecedenceHolds /\ WritersApart /\ NeverStuck
=============================================================================
