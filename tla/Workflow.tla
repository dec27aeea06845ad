------------------------------ MODULE Workflow ------------------------------
(***************************************************************************)
(* The runs of one workflow (internal/workflow/service.go): the scheduler  *)
(* that moves nodes along a graph, the activities that executors claim     *)
(* under a lease, operators who pause, cancel and intervene, and the       *)
(* reconciler that notices expired leases, timeouts and due retries.       *)
(*                                                                         *)
(* Every handler holds Service.mu, works on a copy of the run and ends in  *)
(* one bbolt transaction that writes run, lease and events; the copy then  *)
(* replaces the run in memory.  So a handler is one action, memory and     *)
(* database never differ, and a handler that fails changes nothing.        *)
(*                                                                         *)
(* Abstractions.  Time is not counted: that a lease, a backoff or a node's *)
(* timeout is over is found by Reconcile at any moment, and a call that    *)
(* comes later than its lease is refused because the lease has a newer     *)
(* token or none.  Every command is a new one: a repeated command id       *)
(* answers from the current state.  Executor kinds and the order of ids    *)
(* leave a claim free to take any activity that can be claimed.  Events,   *)
(* heartbeats (they move a deadline) and messages are left out.            *)
(***************************************************************************)
EXTENDS Integers, FiniteSets, SequencesExt

CONSTANTS
    RunId,
    \* the definition (definition.go)
    Node, Entry,
    Order,              \* compiled.order: the nodes, sources before targets
    Routes,             \* node |-> route |-> target nodes
    Join,               \* node |-> "all", "any"
    Terminal,           \* node |-> "none", "succeeded", "failed"
    Exclusive, Shared,  \* node |-> resource keys it claims
    Reads, Writes,      \* node |-> context keys its activity input depends on, its script sets
    Script(_, _),       \* node, results so far: a route, "call" or "error"
    MaxParallelism, MaxAttempts,
    \* Config
    MaxActiveRuns, MaxActiveAttempts,
    Key,                \* context keys
    Result,             \* results of activities
    NoNode, NoResult,   \* nobody wrote this key, no result yet
    MaxTokens           \* bound: lease tokens handed out per activity

Incoming(n) == {m \in Node : \E route \in DOMAIN Routes[m] : n \in Routes[m][route]}

ASSUME WorkflowAssumption ==
    /\ Entry \in Node /\ Incoming(Entry) = {}
    /\ \A i, j \in DOMAIN Order : Order[i] \in Incoming(Order[j]) => i < j
    /\ Join \in [Node -> {"all", "any"}]
    /\ Terminal \in [Node -> {"none", "succeeded", "failed"}]
    /\ Reads \in [Node -> SUBSET Key] /\ Writes \in [Node -> SUBSET Key]
    /\ MaxParallelism \in Nat \ {0} /\ MaxAttempts \in Nat \ {0}
    /\ MaxActiveRuns \in Nat \ {0} /\ MaxActiveAttempts \in Nat \ {0}
    /\ NoNode \notin Node /\ MaxTokens \in Nat

VARIABLES
    runs,       \* Service.runs and the database
    up          \* the controller runs and is not closing

vars == <<runs, up>>

RunState      == {"RUNNING", "PAUSED", "SUCCEEDED", "FAILED", "CANCELLED"}
NodeState     == {"PENDING", "READY", "EVALUATING", "WAITING_ACTIVITY", "WAITING_RETRY",
                  "NEEDS_INTERVENTION", "SUCCEEDED", "FAILED", "CANCELLED", "SKIPPED"}
ActivityState == {"SCHEDULED", "CLAIMED", "RUNNING", "WAITING_RETRY",
                  "NEEDS_INTERVENTION", "SUCCEEDED", "FAILED", "CANCELLED"}

terminalRunState(s)  == s \in {"SUCCEEDED", "FAILED", "CANCELLED"}
terminalNodeState(s) == s \in {"SUCCEEDED", "FAILED", "CANCELLED", "SKIPPED"}
Leased    == {"CLAIMED", "RUNNING"}
Closed    == {"SUCCEEDED", "FAILED", "CANCELLED"}
Scheduled == {"SCHEDULED", "WAITING_RETRY"}

\* lease: none, running towards its deadline, or frozen for an operator.
\* tokens: handed out so far, the lease is for the last one.  by: the token
\* whose holder brought the result (0: an operator).  input: the context keys
\* its input was made from, each with the node that wrote it.
Context  == [Key -> Node \cup {NoNode}]
Input    == UNION {[keys -> Node \cup {NoNode}] : keys \in SUBSET Key}
Activity == [state : ActivityState, attempts : Nat, lease : {"none", "live", "frozen"},
             tokens : 0 .. MaxTokens, result : Result \cup {NoResult},
             by : 0 .. MaxTokens, input : Input]

\* resolved, chosen: ResolvedInputs, and those of them that are true.
\* error: why the node failed, as far as a property asks.
Route   == (UNION {DOMAIN Routes[n] : n \in Node}) \cup {"none"}
Error   == {"none", "replay", "script", "attempts", "timeout", "operator"}
NodeRun == [state : NodeState, route : Route, acts : Seq(Activity),
            resolved : SUBSET Node, chosen : SUBSET Node, acquired : BOOLEAN,
            error : Error]

\* paused: the run was paused at some time (history).
Run == [state : RunState \cup {"NONE", "DELETED"}, context : Context,
        paused : BOOLEAN, nodes : [Node -> NodeRun]]

NewActivity(input) ==
    [state |-> "SCHEDULED", attempts |-> 0, lease |-> "none", tokens |-> 0,
     result |-> NoResult, by |-> 0, input |-> input]

NewNode(state) ==
    [state |-> state, route |-> "none", acts |-> <<>>, resolved |-> {}, chosen |-> {},
     acquired |-> FALSE, error |-> "none"]

NewRun ==
    [state |-> "RUNNING", context |-> [k \in Key |-> NoNode], paused |-> FALSE,
     nodes |-> [n \in Node |-> NewNode(IF n = Entry THEN "READY" ELSE "PENDING")]]

\* A run id nobody uses yet, and one that was deleted.
NoRun == [NewRun EXCEPT !.state = "NONE"]
Deleted == [NewRun EXCEPT !.state = "DELETED"]

Exists(r) == runs[r].state \in RunState
Live(r)   == Exists(r) /\ ~terminalRunState(runs[r].state)

last(node) == node.acts[Len(node.acts)]
open(node) == node.acts # <<>> /\ last(node).state \notin Closed

Init ==
    /\ runs = [r \in RunId |-> NoRun]
    /\ up = TRUE

-----------------------------------------------------------------------------
(***************************************************************************)
(* What a handler does to its copy t of a run.                             *)
(***************************************************************************)
WithLast(t, n, act) == [t EXCEPT !.nodes[n].acts[Len(t.nodes[n].acts)] = act]

\* mutant: only the node is cancelled, its activity stays with the executor.
cancelledAlone(node) ==
    IF terminalNodeState(node.state) THEN node
    ELSE [node EXCEPT !.state = "CANCELLED", !.acquired = FALSE]

cancelled(node) ==
    IF terminalNodeState(node.state) THEN node
    ELSE [node EXCEPT
            !.state = "CANCELLED", !.acquired = FALSE,
            !.acts  = [i \in DOMAIN @ |->
                IF @[i].state \in Closed THEN @[i]
                ELSE [@[i] EXCEPT !.state = "CANCELLED", !.lease = "none"]]]

\* mutant: a run that has ended ends once more.
finishAgain(t, state) ==
    [t EXCEPT !.state = state, !.nodes = [n \in Node |-> cancelled(t.nodes[n])]]

finishRun(t, state) ==
    IF terminalRunState(t.state) THEN t
    ELSE [t EXCEPT !.state = state, !.nodes = [n \in Node |-> cancelled(t.nodes[n])]]

failNode(t, n, error) ==
    finishRun([t EXCEPT !.nodes[n] =
        [@ EXCEPT !.state = "FAILED", !.acquired = FALSE, !.error = error]], "FAILED")

\* mutant: the lease outlives its attempt.
failLeased(t, n) ==
    LET act == last(t.nodes[n])
    IN  IF act.attempts < MaxAttempts
        THEN [WithLast(t, n, [act EXCEPT !.state = "WAITING_RETRY"])
                EXCEPT !.nodes[n].state = "WAITING_RETRY"]
        ELSE failNode(WithLast(t, n, [act EXCEPT !.state = "FAILED"]), n, "attempts")

failCurrentAttempt(t, n) ==
    LET act == [last(t.nodes[n]) EXCEPT !.lease = "none"]
    IN  IF act.attempts < MaxAttempts
        THEN [WithLast(t, n, [act EXCEPT !.state = "WAITING_RETRY"])
                EXCEPT !.nodes[n].state = "WAITING_RETRY"]
        ELSE failNode(WithLast(t, n, [act EXCEPT !.state = "FAILED"]), n, "attempts")

(***************************************************************************)
(* advance: move a run to its next stable point.                           *)
(***************************************************************************)
\* op applied to the value of t.
Apply(op(_), t) == CHOOSE u \in {op(v) : v \in {t}} : TRUE

\* mutant: one chosen source is enough for every join.
joinEager(node, n) ==
    IF node.chosen # {} THEN "READY"
    ELSE IF node.resolved # Incoming(n) THEN "PENDING" ELSE "SKIPPED"

join(node, n) ==
    IF Join[n] = "any" /\ node.chosen # {} THEN "READY"
    ELSE IF node.resolved # Incoming(n) THEN "PENDING"
    ELSE IF Join[n] = "all" /\ node.chosen = Incoming(n) THEN "READY"
    ELSE "SKIPPED"

\* The nodes after all edges were resolved whose source has ended, in the order
\* of the graph; an edge counts when its source succeeded along it.
resolve(t) ==
    LET node[n \in Node] ==
            LET old      == t.nodes[n]
                ended    == {m \in Incoming(n) : terminalNodeState(node[m].state)}
                taken(m) == node[m].state = "SUCCEEDED" /\ n \in Routes[m][node[m].route]
                new      == [old EXCEPT !.resolved = @ \cup ended,
                                        !.chosen   = @ \cup {m \in ended \ old.resolved : taken(m)}]
            IN  IF old.state = "PENDING" THEN [new EXCEPT !.state = join(new, n)] ELSE old
    IN  [t EXCEPT !.nodes = [n \in Node |-> node[n]]]

Holders(t) == {n \in Node : t.nodes[n].acquired}

conflict(t, n) ==
    \E m \in Holders(t) :
        \/ Exclusive[n] \cap (Exclusive[m] \cup Shared[m]) # {}
        \/ Shared[n] \cap Exclusive[m] # {}

\* mutant: only this run's own nodes are asked.
availableHere(t, r, n) == ~conflict(t, n)

resourcesAvailable(t, r, n) ==
    /\ ~conflict(t, n)
    /\ \A q \in RunId \ {r} : runs[q].state = "RUNNING" => ~conflict(runs[q], n)

MayStart(t, r, n) ==
    Cardinality(Holders(t)) < MaxParallelism /\ resourcesAvailable(t, r, n)

\* The part of the context that goes into the inputs of a node's activities.
Seen(t, n) == [k \in Reads[n] |-> t.context[k]]

suspended(state) ==
    IF state \in {"WAITING_RETRY", "NEEDS_INTERVENTION"} THEN state ELSE "WAITING_ACTIVITY"

\* mutant: a node keeps what it holds when it is done.
succeedHolding(t, n, route) ==
    [t EXCEPT
        !.context  = [k \in Key |-> IF k \in Writes[n] THEN n ELSE @[k]],
        !.nodes[n] = [@ EXCEPT !.state = "SUCCEEDED", !.route = route]]

\* mutant: a key that has a value keeps it.
succeedFirst(t, n, route) ==
    [t EXCEPT
        !.context  = [k \in Key |-> IF k \in Writes[n] /\ @[k] = NoNode THEN n ELSE @[k]],
        !.nodes[n] = [@ EXCEPT !.state = "SUCCEEDED", !.route = route, !.acquired = FALSE]]

succeed(t, n, route) ==
    [t EXCEPT
        !.context  = [k \in Key |-> IF k \in Writes[n] THEN n ELSE @[k]],
        !.nodes[n] = [@ EXCEPT !.state = "SUCCEEDED", !.route = route, !.acquired = FALSE]]


\* runScript from the start: activities already called must be called with the
\* input they had, the first that is not done suspends the script.
evaluate(t, n) ==
    LET acts    == t.nodes[n].acts
        results == [i \in DOMAIN acts |-> acts[i].result]
        next    == Script(n, results)
    IN  IF \E i \in DOMAIN acts : acts[i].input # Seen(t, n) THEN failNode(t, n, "replay")
        ELSE IF open(t.nodes[n])
             THEN [t EXCEPT !.nodes[n].state = suspended(last(t.nodes[n]).state)]
        ELSE IF \E i \in DOMAIN acts : acts[i].state # "SUCCEEDED" THEN failNode(t, n, "script")
        ELSE IF next = "call"
             THEN [t EXCEPT !.nodes[n].acts = Append(@, NewActivity(Seen(t, n))),
                            !.nodes[n].state = "WAITING_ACTIVITY"]
        ELSE IF next \in DOMAIN Routes[n] THEN succeed(t, n, next)
        ELSE failNode(t, n, "script")

reachTerminal(t, n) ==
    finishRun([t EXCEPT !.nodes[n].state = "SUCCEEDED"],
              IF Terminal[n] = "succeeded" THEN "SUCCEEDED" ELSE "FAILED")

\* Nothing more happens in this call once the run has ended.
schedule(t, r, n) ==
    LET state == t.nodes[n].state
    IN  IF t.state # "RUNNING" \/ state \notin {"READY", "EVALUATING"} THEN t
        ELSE IF Terminal[n] # "none" THEN reachTerminal(t, n)
        ELSE IF state = "EVALUATING" THEN evaluate(t, n)
        ELSE IF MayStart(t, r, n) THEN evaluate([t EXCEPT !.nodes[n].acquired = TRUE], n)
        ELSE t

pass(t, r) ==
    LET step(u, n) == Apply(LAMBDA v : schedule(v, r, n), u)
    IN  FoldLeft(step, Apply(resolve, t), Order)

\* mutant: one pass only.
advanceOnce(t, r) == IF t.state # "RUNNING" THEN t ELSE pass(t, r)

\* Passes until one changes nothing.
advance(t, r) ==
    LET ended(u) == \A n \in Node : terminalNodeState(u.nodes[n].state)
        stable[u \in Run] ==
            LET next(v) == IF v # u THEN stable[v]
                           ELSE IF ended(u) THEN finishRun(u, "FAILED") ELSE u
            IN  IF u.state = "RUNNING" THEN Apply(next, pass(u, r)) ELSE u
    IN  stable[t]

commit(r, t) == runs' = [runs EXCEPT ![r] = t]

-----------------------------------------------------------------------------
(***************************************************************************)
(* The handlers.                                                           *)
(***************************************************************************)
activeRunCount == Cardinality({r \in RunId : Live(r)})

activeAttemptCount ==
    Cardinality({<<r, n>> \in RunId \X Node :
        Exists(r) /\ runs[r].nodes[n].acts # <<>> /\ last(runs[r].nodes[n]).state \in Leased})

StartRun(r) ==
    /\ up /\ runs[r].state = "NONE"
    /\ activeRunCount < MaxActiveRuns
    /\ commit(r, advance(NewRun, r))
    /\ UNCHANGED up

CancelRun(r) ==
    /\ up /\ Exists(r)
    /\ commit(r, finishRun(runs[r], "CANCELLED"))
    /\ UNCHANGED up

PauseRun(r) ==
    /\ up /\ runs[r].state = "RUNNING"
    /\ commit(r, [runs[r] EXCEPT !.state = "PAUSED", !.paused = TRUE])
    /\ UNCHANGED up

ResumeRun(r) ==
    /\ up /\ runs[r].state = "PAUSED"
    /\ commit(r, advance([runs[r] EXCEPT !.state = "RUNNING"], r))
    /\ UNCHANGED up

DeleteRun(r) ==
    /\ up /\ Exists(r) /\ terminalRunState(runs[r].state)
    /\ commit(r, Deleted)
    /\ UNCHANGED up

\* mutant: the second attempt runs under the token of the first.
ClaimAgain(r, n) ==
    LET act == last(runs[r].nodes[n])
    IN  /\ up /\ runs[r].state = "RUNNING" /\ runs[r].nodes[n].acts # <<>>
        /\ act.state \in Scheduled /\ act.tokens < MaxTokens
        /\ activeAttemptCount < MaxActiveAttempts
        /\ commit(r, [WithLast(runs[r], n,
                [act EXCEPT !.state = "CLAIMED", !.lease = "live",
                            !.attempts = @ + 1, !.tokens = 1])
              EXCEPT !.nodes[n].state = "WAITING_ACTIVITY"])
        /\ UNCHANGED up

\* A retry can be claimed as soon as its backoff is over.
ClaimActivity(r, n) ==
    LET act == last(runs[r].nodes[n])
    IN  /\ up /\ runs[r].state = "RUNNING" /\ runs[r].nodes[n].acts # <<>>
        /\ act.state \in Scheduled /\ act.tokens < MaxTokens
        /\ activeAttemptCount < MaxActiveAttempts
        /\ commit(r, [WithLast(runs[r], n,
                [act EXCEPT !.state = "CLAIMED", !.lease = "live",
                            !.attempts = @ + 1, !.tokens = @ + 1])
              EXCEPT !.nodes[n].state = "WAITING_ACTIVITY"])
        /\ UNCHANGED up

\* mutant: the token of an earlier attempt is good enough.
verifyAttempt(act, token) == act.lease = "live" /\ token \in 1 .. act.tokens

verifyLease(act, token) == act.lease = "live" /\ token = act.tokens

\* A call of an executor that was once given this token, however late.
Called(r, n, token) ==
    /\ up /\ Exists(r) /\ runs[r].nodes[n].acts # <<>>
    /\ verifyLease(last(runs[r].nodes[n]), token)
    /\ UNCHANGED up

StartActivity(r, n, token) ==
    LET act == last(runs[r].nodes[n])
    IN  /\ Called(r, n, token) /\ act.state = "CLAIMED"
        /\ commit(r, WithLast(runs[r], n, [act EXCEPT !.state = "RUNNING"]))

CompleteActivity(r, n, token, result) ==
    LET act  == last(runs[r].nodes[n])
        completed == [act EXCEPT !.state = "SUCCEEDED", !.lease = "none",
                            !.result = result, !.by = token]
    IN  /\ Called(r, n, token) /\ act.state \in Leased
        /\ commit(r, advance([WithLast(runs[r], n, completed)
                                EXCEPT !.nodes[n].state = "EVALUATING"], r))

FailAttempt(r, n, token) ==
    /\ Called(r, n, token)
    /\ commit(r, advance(failCurrentAttempt(runs[r], n), r))

RequestIntervention(r, n, token) ==
    LET act == last(runs[r].nodes[n])
    IN  /\ Called(r, n, token) /\ act.state \in Leased
        /\ commit(r, [WithLast(runs[r], n,
                [act EXCEPT !.state = "NEEDS_INTERVENTION", !.lease = "frozen"])
              EXCEPT !.nodes[n].state = "NEEDS_INTERVENTION"])

(***************************************************************************)
(* ResolveIntervention.                                                    *)
(***************************************************************************)
Frozen(r, n) ==
    /\ up /\ Exists(r) /\ runs[r].nodes[n].acts # <<>>
    /\ last(runs[r].nodes[n]).state = "NEEDS_INTERVENTION"
    /\ UNCHANGED up

\* The same attempt goes on under a new token.
InterventionContinue(r, n) ==
    LET act == last(runs[r].nodes[n])
    IN  /\ Frozen(r, n) /\ act.tokens < MaxTokens
        /\ commit(r, advance(WithLast(runs[r], n,
                [act EXCEPT !.state = "RUNNING", !.lease = "live", !.tokens = @ + 1]), r))

InterventionRetry(r, n) ==
    LET act == last(runs[r].nodes[n])
    IN  /\ Frozen(r, n)
        /\ commit(r, advance([WithLast(runs[r], n,
                [act EXCEPT !.state = "SCHEDULED", !.lease = "none"])
              EXCEPT !.nodes[n].state = "WAITING_ACTIVITY"], r))

InterventionResolve(r, n, result) ==
    LET act == last(runs[r].nodes[n])
    IN  /\ Frozen(r, n)
        /\ commit(r, advance([WithLast(runs[r], n,
                [act EXCEPT !.state = "SUCCEEDED", !.lease = "none", !.result = result])
              EXCEPT !.nodes[n].state = "EVALUATING"], r))

InterventionFail(r, n) ==
    LET act == last(runs[r].nodes[n])
    IN  /\ Frozen(r, n)
        /\ commit(r, failNode(WithLast(runs[r], n,
                [act EXCEPT !.state = "FAILED", !.lease = "none"]), n, "operator"))

InterventionCancel(r, n) ==
    /\ Frozen(r, n)
    /\ commit(r, finishRun(runs[r], "CANCELLED"))

(***************************************************************************)
(* Reconcile visits every live run and every node in it; each thing it     *)
(* finds is a step here, as the ones it finds together lead where they     *)
(* lead one by one: a node that fails ends the run and cancels the rest.   *)
(***************************************************************************)
Visited(r) == up /\ Live(r) /\ UNCHANGED up

\* mutant: the clock stands still while an operator is asked.
TimesOutAttended(r, n) ==
    /\ Visited(r) /\ runs[r].nodes[n].acquired
    /\ runs[r].nodes[n].state # "NEEDS_INTERVENTION"
    /\ commit(r, failNode(runs[r], n, "timeout"))

NodeTimesOut(r, n) ==
    /\ Visited(r) /\ runs[r].nodes[n].acquired
    /\ commit(r, failNode(runs[r], n, "timeout"))

RetryIsDue(r, n) ==
    LET act == last(runs[r].nodes[n])
    IN  /\ Visited(r) /\ runs[r].nodes[n].acts # <<>> /\ act.state = "WAITING_RETRY"
        /\ commit(r, advance([WithLast(runs[r], n, [act EXCEPT !.state = "SCHEDULED"])
                                EXCEPT !.nodes[n].state = "WAITING_ACTIVITY"], r))

LeaseExpires(r, n) ==
    /\ Visited(r) /\ runs[r].nodes[n].acts # <<>>
    /\ last(runs[r].nodes[n]).state \in Leased
    /\ commit(r, advance(failCurrentAttempt(runs[r], n), r))

\* Nothing is due, but another run may have given up what this one waits for.
Reschedule(r) ==
    /\ Visited(r)
    /\ commit(r, advance(runs[r], r))

Reconcile(r) ==
    \/ Reschedule(r)
    \/ \E n \in Node : NodeTimesOut(r, n) \/ RetryIsDue(r, n) \/ LeaseExpires(r, n)

(***************************************************************************)
(* Shutdown or crash, and a new controller that reads the runs back.       *)
(***************************************************************************)
Stop == up /\ up' = FALSE /\ UNCHANGED runs

\* validateRecoveredRecord: one run it refuses keeps the service from starting.
NeedsLease(act) == act.state \in Leased \cup {"NEEDS_INTERVENTION"}

Acceptable(t) ==
    \A n \in Node : \A i \in DOMAIN t.nodes[n].acts :
        LET act == t.nodes[n].acts[i]
        IN  /\ act.state = "SUCCEEDED" => act.result # NoResult
            /\ NeedsLease(act) <=> act.lease # "none"
            /\ act.lease # "none" => act.attempts > 0

New ==
    /\ ~up /\ \A r \in RunId : Exists(r) => Acceptable(runs[r])
    /\ up' = TRUE /\ UNCHANGED runs

-----------------------------------------------------------------------------
Operator(r, n) ==
    \/ InterventionContinue(r, n) \/ InterventionRetry(r, n)
    \/ InterventionFail(r, n) \/ InterventionCancel(r, n)
    \/ \E result \in Result : InterventionResolve(r, n, result)

Executor(r, n) ==
    \/ ClaimActivity(r, n)
    \/ \E token \in 1 .. MaxTokens :
          \/ StartActivity(r, n, token) \/ FailAttempt(r, n, token)
          \/ RequestIntervention(r, n, token)
          \/ \E result \in Result : CompleteActivity(r, n, token, result)

Client(r) ==
    StartRun(r) \/ CancelRun(r) \/ PauseRun(r) \/ ResumeRun(r) \/ DeleteRun(r)

Next ==
    \/ \E r \in RunId : Client(r) \/ Reconcile(r)
    \/ \E r \in RunId, n \in Node : Executor(r, n) \/ Operator(r, n)
    \/ Stop \/ New

Spec == Init /\ [][Next]_vars

\* reconcileLoop ticks for ever and the clock passes every node's timeout;
\* executors, operators and clients owe nothing.
Fairness ==
    \A r \in RunId :
        WF_vars(Reschedule(r)) /\ \A n \in Node : WF_vars(NodeTimesOut(r, n))

FairSpec == Spec /\ Fairness

-----------------------------------------------------------------------------
(***************************************************************************)
(* The graph, as the definition's own checks see it.                       *)
(***************************************************************************)
\* validateContextWriteOrdering: the nodes that must have ended before a node
\* starts.
mustPrecede ==
    LET add(before, n) ==
            LET closure(m) == {m} \cup before[m]
                every      == {closure(m) : m \in Incoming(n)}
            IN  [before EXCEPT ![n] =
                    IF every = {} THEN {}
                    ELSE IF Join[n] = "any"
                         THEN {m \in UNION every : \A c \in every : m \in c}
                         ELSE UNION every]
    IN  FoldLeft(add, [n \in Node |-> {}], Order)

\* What the builder accepts: two writers of a key come one after the other.
ASSUME WritersOrdered ==
    \A m, n \in Node : m # n /\ Writes[m] \cap Writes[n] # {} =>
        m \in mustPrecede[n] \/ n \in mustPrecede[m]

\* What it does not ask for: every writer comes before or after every reader.
ReadsOrdered(n) ==
    \A m \in Node \ {n} : Writes[m] \cap Reads[n] # {} =>
        m \in mustPrecede[n] \/ n \in mustPrecede[m]

-----------------------------------------------------------------------------
(***************************************************************************)
(* Properties.                                                             *)
(***************************************************************************)
\* Every variable stays in its type; only the last activity of a node is open,
\* and every attempt at it had a token of its own.
TypeOK ==
    /\ up \in BOOLEAN
    /\ runs \in [RunId -> Run]
    /\ \A r \in RunId, n \in Node :
          LET node == runs[r].nodes[n]
          IN  /\ node.chosen \subseteq node.resolved /\ node.resolved \subseteq Incoming(n)
              /\ \A i \in 1 .. Len(node.acts) - 1 : node.acts[i].state = "SUCCEEDED"
              /\ \A i \in DOMAIN node.acts : node.acts[i].attempts <= node.acts[i].tokens

\* Whatever the calls and their order, a new controller accepts what it finds:
\* no run ever keeps the service from starting (validateRecoveredRecord).
RecoveryAccepts == \A r \in RunId : Exists(r) => Acceptable(runs[r])

Working == {"EVALUATING", "WAITING_ACTIVITY", "WAITING_RETRY", "NEEDS_INTERVENTION"}

\* In a live run the nodes that hold a slot and resources are exactly those at
\* work, never more than max_parallelism; a run that has ended holds nothing.
SlotsHeld ==
    \A r \in RunId : Exists(r) =>
        LET t == runs[r]
        IN  /\ Live(r) => Holders(t) = {n \in Node : t.nodes[n].state \in Working}
            /\ ~Live(r) => Holders(t) = {}
            /\ Cardinality(Holders(t)) <= MaxParallelism

Clash(q, m, r, n) ==
    /\ <<q, m>> # <<r, n>>
    /\ m \in Holders(runs[q]) /\ n \in Holders(runs[r])
    /\ Exclusive[m] \cap (Exclusive[n] \cup Shared[n]) # {}

\* No two nodes hold a resource that one of them claims for itself, in one run
\* or in two, unless a pause hid one of the runs from resourcesAvailable.
ExclusiveUnlessPaused ==
    \A q, r \in RunId, m, n \in Node :
        Clash(q, m, r, n) => runs[q].paused \/ runs[r].paused

\* A node runs or is skipped by what its sources came to: the joins are right
\* whatever the order in which the sources end.
JoinsKept ==
    \A r \in RunId, n \in Node \ {Entry} : Live(r) =>
        LET t        == runs[r]
            taken    == {m \in Incoming(n) : t.nodes[m].state = "SUCCEEDED"
                                              /\ n \in Routes[m][t.nodes[m].route]}
            ended    == {m \in Incoming(n) : terminalNodeState(t.nodes[m].state)}
            required == IF Join[n] = "any" THEN taken # {} ELSE taken = Incoming(n)
        IN  CASE t.nodes[n].state = "PENDING" -> TRUE
              [] t.nodes[n].state = "SKIPPED" -> ended = Incoming(n) /\ ~required
              [] OTHER                        -> required

\* After every call a running run is settled: no join is left undecided, no
\* script that could go on waits, and who is ready waits for a slot or for a
\* resource (which may have been given up by another run since).
Settled ==
    \A r \in RunId : runs[r].state = "RUNNING" =>
        LET t == runs[r]
        IN  /\ \E n \in Node : ~terminalNodeState(t.nodes[n].state)
            /\ \A n \in Node :
                  /\ t.nodes[n].state # "EVALUATING"
                  /\ t.nodes[n].state = "PENDING" =>
                        \E m \in Incoming(n) : ~terminalNodeState(t.nodes[m].state)
                  /\ t.nodes[n].state = "READY" =>
                        \/ Cardinality(Holders(t)) = MaxParallelism
                        \/ Exclusive[n] \cup Shared[n] # {}

\* After every call every node is where its sources put it, and no further.
JoinsSettle == JoinsKept /\ Settled

\* The context does not depend on the order in which parallel nodes end: the
\* last writer of a key is the last in the definition's order to succeed.
ContextOrdered ==
    \A r \in RunId, k \in Key : Live(r) =>
        LET finished == {n \in Node : k \in Writes[n] /\ runs[r].nodes[n].state = "SUCCEEDED"}
        IN  IF finished = {} THEN runs[r].context[k] = NoNode
            ELSE /\ runs[r].context[k] \in finished
                 /\ finished \ {runs[r].context[k]} \subseteq mustPrecede[runs[r].context[k]]

\* A node whose reads are ordered with the writes is replayed to the end: its
\* activities keep their inputs.
ReplayStable ==
    \A r \in RunId, n \in Node :
        Exists(r) /\ runs[r].nodes[n].error = "replay" => ~ReadsOrdered(n)


\* The result of an activity comes from the holder of the newest token (or from
\* an operator): a claim that was lost and repeated never delivers.
ResultsFenced ==
    \A r \in RunId, n \in Node :
        LET acts == runs[r].nodes[n].acts
        IN  \A i \in DOMAIN acts :
                acts[i].by # 0 => acts[i].by = acts[i].tokens /\ acts[i].lease = "none"

\* A run that ended, unless a timeout ended it, has no node, activity or lease
\* left open that would count against max_active_attempts.
CleanEnd ==
    \A r \in RunId : Exists(r) /\ ~Live(r) =>
        \/ \E n \in Node : runs[r].nodes[n].error = "timeout"
        \/ \A n \in Node :
              /\ terminalNodeState(runs[r].nodes[n].state)
              /\ ~open(runs[r].nodes[n])

\* What runs, nodes, activities and slots say of one another agrees, in every
\* state that a new controller may find.
RecordsAgree == TypeOK /\ RecoveryAccepts /\ SlotsHeld /\ CleanEnd

\* The outcome of a run is final, and so is the end of a node in a live run.
EndsAreFinal ==
    [][\A r \in RunId :
        /\ terminalRunState(runs[r].state) => runs'[r].state \in {runs[r].state, "DELETED"}
        /\ Live(r) => \A n \in Node :
              terminalNodeState(runs[r].nodes[n].state) =>
                  runs'[r].nodes[n].state = runs[r].nodes[n].state]_vars

\* Every run that is not paused comes to an end, whatever executors and
\* operators fail to do, as long as the controller stays up.
RunsEnd ==
    \A r \in RunId :
        runs[r].state = "RUNNING" ~> runs[r].state # "RUNNING" \/ ~up

-----------------------------------------------------------------------------
(***************************************************************************)
(* What the documents say and the code does not keep.                      *)
(***************************************************************************)
\* workflow-design-v1.md:285: a node holds its resources from the start of
\* EVALUATING to its end; 343: exclusive conflicts with every other lock.
ExclusiveHeld ==
    \A q, r \in RunId, m, n \in Node : ~Clash(q, m, r, n)

\* workflow-requirements-v1.md:422: a late submission must not change the run.
EndedNodesStay ==
    \A r \in RunId, n \in Node :
        Exists(r) /\ ~Live(r) => terminalNodeState(runs[r].nodes[n].state)

\* workflow-requirements-v1.md:285: the order in which parallel nodes end does
\* not decide the outcome.
ReplayDeterministic ==
    \A r \in RunId, n \in Node : Exists(r) => runs[r].nodes[n].error # "replay"
=============================================================================
