------------------------------ MODULE AgentTurns ------------------------------
(***************************************************************************)
(* The agent bridge: the shared child process (src/internal/agent/         *)
(* process.go), the session table and the turns (service.go, session.go).  *)
(*                                                                         *)
(* Concurrent: one StartTurn per turn, each followed by the pump of its    *)
(* turn; the watcher of each generation of the child; Shutdown; the child  *)
(* itself, which sends updates, answers a prompt, dies.  A step is what    *)
(* happens under one hold of service.mu or of agentProcess.mu, or one      *)
(* choice of the pump's select.                                            *)
(*                                                                         *)
(* Abstractions.  A record is its state (QueryStore has the rest).  Of the *)
(* frames only updates are counted, and the one that completes a turn.     *)
(* The agent sends its updates before it answers and the connection        *)
(* dispatches them in that order.  The child's own sessions, the persona   *)
(* and the environment of a session are left out: opening one succeeds or  *)
(* fails.  A caller may stop reading its stream at any frame, as if the    *)
(* buffer were full by then, and nothing makes it read again or leave.  A  *)
(* turn whose buffer of incoming events is full loses updates, which is    *)
(* outside the model.                                                      *)
(***************************************************************************)
EXTENDS Integers

CONSTANTS
    Turn,           \* calls to StartTurn
    Session,        \* session identifiers
    None,
    MaxGenerations, \* bound: children started
    MaxUpdates      \* bound: updates of all turns

ASSUME TurnAssumption ==
    /\ None \notin Turn \cup Session
    /\ MaxGenerations \in Nat \ {0}
    /\ MaxUpdates \in Nat

VARIABLES
    child,          \* each generation: "none", "alive", "dead"
    watch,          \* its watcher: "none", "watching", "crashing", "exited"
    current,        \* agentProcess.current, or 0
    generation,
    starting,       \* a caller is in agentProcess.start
    sessions,       \* Service.sessions: the turn registered under each identifier
    shutdown,       \* Shutdown: "no", "waiting" for turns, process "stopped"
    turn,           \* each call and its pump
    wiped,          \* ghost: turns the crash of another generation unregistered
    updates         \* bound

vars == <<child, watch, current, generation, starting, sessions, shutdown, turn, wiped, updates>>
process == <<child, watch, current, generation, starting>>

Generation == 1..MaxGenerations
shuttingDown == shutdown # "no"             \* and stop is closed
processStopped == shutdown = "stopped"      \* agentProcess.shutdown

NewTurn == [pc |-> "idle", sid |-> None, gen |-> 0,
            record |-> "none", cancel |-> FALSE, cancelling |-> FALSE,
            answer |-> "none", sent |-> 0, queued |-> 0, forwarded |-> 0,
            stream |-> "open", outcome |-> "none"]

InLiveQueries(t) == turn[t].pc = "prompting"

(* A turn moves on, nothing but its own record changes. *)
Steps(t, next) == turn' = [turn EXCEPT ![t] = next]
Goes(t, pc) == Steps(t, [turn[t] EXCEPT !.pc = pc])
Over(t, pc) == [NewTurn EXCEPT !.pc = pc, !.sid = turn[t].sid, !.record = turn[t].record]
Refuse(t) == Steps(t, Over(t, "refused"))
Rest == UNCHANGED <<sessions, shutdown, wiped, updates>>

-----------------------------------------------------------------------------
(* StartTurn *)

(* The first look at the service: a resume of a busy session fails fast. *)
StartTurn(t) ==
    /\ turn[t].pc = "idle"
    /\ \E sid \in Session \cup {None} :
          Steps(t, IF shuttingDown \/ (sid # None /\ sessions[sid] # None)
                   THEN Over(t, "refused")
                   ELSE [turn[t] EXCEPT !.sid = sid, !.pc = "ensuring"])
    /\ UNCHANGED process /\ Rest

(* ensure: one caller starts the child, the others wait for it. *)
Ensure(t) ==
    /\ turn[t].pc = "ensuring"
    /\ IF processStopped THEN Refuse(t) /\ UNCHANGED starting
       ELSE IF current # 0
       THEN Steps(t, [turn[t] EXCEPT !.pc = "opening", !.gen = current]) /\ UNCHANGED starting
       ELSE IF starting THEN Goes(t, "waiting") /\ UNCHANGED starting
       ELSE Goes(t, "starting") /\ starting' = TRUE
    /\ UNCHANGED <<child, watch, current, generation>> /\ Rest

(* Those that wait for a start look again when it has ended, *)
Woken == [u \in Turn |-> IF turn[u].pc = "waiting" THEN [turn[u] EXCEPT !.pc = "ensuring"]
                         ELSE turn[u]]

(* or their context ends. *)
GiveUpWaiting(t) ==
    /\ turn[t].pc = "waiting"
    /\ Refuse(t)
    /\ UNCHANGED process /\ Rest

(* start: a child that answered Initialize is a new generation and has its *)
(* watcher before ensure publishes it.                                     *)
ChildStarts(t) ==
    /\ turn[t].pc = "starting" /\ generation < MaxGenerations
    /\ generation' = generation + 1
    /\ child' = [child EXCEPT ![generation'] = "alive"]
    /\ watch' = [watch EXCEPT ![generation'] = "watching"]
    /\ Steps(t, [turn[t] EXCEPT !.pc = "publishing", !.gen = generation'])
    /\ UNCHANGED <<current, starting>> /\ Rest

StartFails(t) ==
    /\ turn[t].pc = "starting"
    /\ starting' = FALSE
    /\ turn' = [Woken EXCEPT ![t] = Over(t, "refused")]
    /\ UNCHANGED <<child, watch, current, generation>> /\ Rest

PublishChild(t) ==
    /\ turn[t].pc = "publishing"
    /\ current' = turn[t].gen /\ starting' = FALSE
    /\ turn' = [Woken EXCEPT ![t].pc = "opening"]
    /\ UNCHANGED <<child, watch, generation>> /\ Rest

(* The session is created or resumed and its persona selected, or not; the *)
(* query's record is begun, or not.                                        *)
OpenSession(t) ==
    /\ turn[t].pc = "opening"
    /\ \/ Refuse(t)
       \/ /\ child[turn[t].gen] = "alive"
          /\ \E sid \in IF turn[t].sid = None
                        THEN {s \in Session : \A u \in Turn : turn[u].sid # s}
                        ELSE {turn[t].sid} :
                Steps(t, [turn[t] EXCEPT !.sid = sid, !.record = "running", !.pc = "registering"])
    /\ UNCHANGED process /\ Rest

(* The table is looked at again; a call refused here leaves its record.  The *)
(* pump of one that is registered starts, and prompts.                       *)
Registered(t) == [turn[t] EXCEPT !.pc = "prompting",
                    !.answer = IF child[turn[t].gen] = "dead" THEN "error" ELSE @]
RegisterUnseen(t) ==         \* mutant: the table is not looked at again
    /\ turn[t].pc = "registering"
    /\ sessions' = [sessions EXCEPT ![turn[t].sid] = t]
    /\ Steps(t, Registered(t))
    /\ UNCHANGED <<shutdown, wiped, updates>> /\ UNCHANGED process

RegisterTurn(t) ==
    /\ turn[t].pc = "registering"
    /\ IF shuttingDown \/ sessions[turn[t].sid] # None
       THEN Refuse(t) /\ UNCHANGED sessions
       ELSE /\ sessions' = [sessions EXCEPT ![turn[t].sid] = t]
            /\ Steps(t, Registered(t))
    /\ UNCHANGED <<shutdown, wiped, updates>> /\ UNCHANGED process

-----------------------------------------------------------------------------
(* The child and its watcher *)

ChildDies(g) ==
    /\ child[g] = "alive"
    /\ child' = [child EXCEPT ![g] = "dead"]
    /\ turn' = [t \in Turn |->      \* its prompts end with the connection
            IF turn[t].gen = g /\ turn[t].pc = "prompting" /\ turn[t].answer = "none"
            THEN [turn[t] EXCEPT !.answer = "error"] ELSE turn[t]]
    /\ UNCHANGED <<watch, current, generation, starting>> /\ Rest

(* watch, to the unlock: a child that was published is cleared, *)
WatchClears(g) ==
    /\ child[g] = "dead" /\ watch[g] = "watching"
    /\ watch' = [watch EXCEPT ![g] = IF current = g THEN "crashing" ELSE "exited"]
    /\ current' = IF current = g THEN 0 ELSE current
    /\ UNCHANGED <<child, generation, starting, turn>> /\ Rest

(* handleCrash: then the table is emptied, whoever registered meanwhile. *)
HandleCrash(g) ==
    /\ watch[g] = "crashing"
    /\ watch' = [watch EXCEPT ![g] = "exited"]
    /\ sessions' = [s \in Session |-> None]
    /\ wiped' = wiped \cup {t \in Turn : turn[t].gen # g /\ \E s \in Session : sessions[s] = t}
    /\ UNCHANGED <<child, current, generation, starting,
                   shutdown, turn, updates>>

(* An update of the agent reaches the turn of the session it names. *)
DispatchUpdate(t) ==
    /\ turn[t].pc = "prompting" /\ turn[t].answer = "none" /\ child[turn[t].gen] = "alive"
    /\ updates < MaxUpdates /\ updates' = updates + 1
    /\ LET heard == sessions[turn[t].sid]
       IN  turn' = [u \in Turn |->
             IF u = t THEN [turn[u] EXCEPT !.sent = @ + 1, !.queued = IF heard = t THEN @ + 1 ELSE @]
             ELSE IF u = heard THEN [turn[u] EXCEPT !.queued = @ + 1] ELSE turn[u]]
    /\ UNCHANGED <<sessions, shutdown, wiped>> /\ UNCHANGED process

(* The answer to the prompt: a stop reason or an error *)
AnswerPrompt(t) ==
    /\ turn[t].pc = "prompting" /\ turn[t].answer = "none" /\ child[turn[t].gen] = "alive"
    /\ \E answer \in {"stop", "error"} : Steps(t, [turn[t] EXCEPT !.answer = answer])
    /\ UNCHANGED process /\ Rest

-----------------------------------------------------------------------------
(* The pump *)

(* emit, of a frame that is in the record: there is room, or the pump waits *)
(* for it until the service stops; once given up, a stream gets no more.    *)
Emits(t) ==
    IF turn[t].stream = "left" THEN {"left"}
    ELSE {"open", IF shuttingDown THEN "left" ELSE "full"}
Pumping(t) == turn[t].pc = "prompting" /\ turn[t].stream # "full"

ForwardUpdate(t) ==
    /\ Pumping(t) /\ turn[t].queued > 0
    /\ \E stream \in Emits(t) :
          Steps(t, [turn[t] EXCEPT !.queued = @ - 1, !.forwarded = @ + 1, !.stream = stream])
    /\ UNCHANGED process /\ Rest

(* The caller reads on, or its context ends or the service stops. *)
EmitReturns(t) ==
    /\ turn[t].stream = "full"
    /\ \E stream \in {"open", "left"} : Steps(t, [turn[t] EXCEPT !.stream = stream])
    /\ UNCHANGED process /\ Rest

(* endTurn, forgetQuery and retireSession, before anyone sees the outcome; *)
(* a turn that completed then emits its last frame.                        *)
Release(t, outcome, forwarded) ==
    /\ sessions' = [s \in Session |-> IF sessions[s] = t THEN None ELSE sessions[s]]
    /\ \E stream \in IF outcome = "completed" THEN Emits(t) ELSE {turn[t].stream} :
          Steps(t, [turn[t] EXCEPT !.pc = "recording", !.outcome = outcome,
                      !.queued = 0, !.forwarded = @ + forwarded, !.stream = stream])
    /\ UNCHANGED <<shutdown, wiped, updates>> /\ UNCHANGED process

Outcome(t) ==
    IF turn[t].answer = "stop" THEN "completed"
    ELSE IF child[turn[t].gen] = "dead" THEN "lost"
    ELSE IF turn[t].cancelling THEN "completed"
    ELSE "failed"

Undrained(t) ==              \* mutant: what is queued behind the answer is left
    Pumping(t) /\ turn[t].answer # "none" /\ Release(t, Outcome(t), 0)

(* The answer may be taken before the updates that came first: those are *)
(* drained once more.                                                    *)
TakeAnswer(t) ==
    Pumping(t) /\ turn[t].answer # "none" /\ Release(t, Outcome(t), turn[t].queued)

BeginCancel(t) ==
    /\ Pumping(t) /\ ~turn[t].cancelling
    /\ turn[t].cancel \/ shuttingDown
    /\ Steps(t, [turn[t] EXCEPT !.cancelling = TRUE])
    /\ UNCHANGED process /\ Rest

LosesDead(t) ==              \* mutant: a cancelled turn waits without a deadline
    Pumping(t) /\ watch[turn[t].gen] = "exited" /\ Release(t, "lost", 0)

(* connection.exited, or orphanTurnGrace after the cancellation *)
LosesChild(t) ==
    /\ Pumping(t)
    /\ \/ watch[turn[t].gen] = "exited" /\ Release(t, "lost", 0)
       \/ turn[t].cancelling /\ Release(t, "orphaned", 0)

(* Settle, Fail or Lost, after the completed frame; closeAgentSession gives *)
(* up in time and the stream is finished.                                   *)
VerdictRaw(outcome) == outcome   \* mutant: the state of the record is the outcome as it came

Verdict(outcome) ==
    CASE outcome = "completed" -> "settled"
      [] outcome = "failed" -> "failed"
      [] outcome \in {"lost", "orphaned"} -> "lost"
SettleRecord(t) ==
    /\ turn[t].pc = "recording" /\ turn[t].stream # "full"
    /\ Steps(t, [Over(t, "done") EXCEPT !.record = Verdict(turn[t].outcome)])
    /\ UNCHANGED process /\ Rest

-----------------------------------------------------------------------------
(* The callers *)

CancelQuery(t) ==
    /\ InLiveQueries(t) /\ ~turn[t].cancel
    /\ Steps(t, [turn[t] EXCEPT !.cancel = TRUE])
    /\ UNCHANGED process /\ Rest

BeginShutdown ==
    /\ shutdown = "no"
    /\ shutdown' = "waiting"
    /\ UNCHANGED <<sessions, turn, wiped, updates>> /\ UNCHANGED process

(* turns.Wait returned, or the grace is over: the process owner stops.  The *)
(* child finds its input closed, or is killed.                              *)
StopProcess ==
    /\ shutdown = "waiting"
    /\ shutdown' = "stopped"
    /\ current' = 0
    /\ UNCHANGED <<child, watch, generation, starting, sessions, turn, wiped, updates>>

Init ==
    /\ child = [g \in Generation |-> "none"]
    /\ watch = [g \in Generation |-> "none"]
    /\ current = 0 /\ generation = 0 /\ starting = FALSE
    /\ sessions = [s \in Session |-> None]
    /\ shutdown = "no"
    /\ turn = [t \in Turn |-> NewTurn]
    /\ wiped = {} /\ updates = 0

Start(t) == Ensure(t) \/ ChildStarts(t) \/ StartFails(t) \/ PublishChild(t)
              \/ OpenSession(t) \/ RegisterTurn(t)
Pump(t) == ForwardUpdate(t) \/ TakeAnswer(t) \/ BeginCancel(t) \/ LosesChild(t)
              \/ SettleRecord(t) \/ (shuttingDown /\ EmitReturns(t))
Watcher(g) == WatchClears(g) \/ HandleCrash(g)
Next == \/ \E t \in Turn : \/ StartTurn(t) \/ Start(t) \/ GiveUpWaiting(t) \/ Pump(t)
                            \/ DispatchUpdate(t) \/ AnswerPrompt(t)
                            \/ CancelQuery(t) \/ EmitReturns(t)
        \/ \E g \in Generation : ChildDies(g) \/ Watcher(g)
        \/ BeginShutdown \/ StopProcess

(* Goroutines that can run do, and calls to the child are bounded in time; *)
(* the child need not answer nor send, and the caller need not read.       *)
Spec == /\ Init /\ [][Next]_vars
        /\ \A t \in Turn : WF_vars(Start(t) \/ Pump(t))
        /\ \A g \in Generation : WF_vars(Watcher(g))

-----------------------------------------------------------------------------
(* Properties *)

TurnRecord ==
    [pc : {"idle", "ensuring", "waiting", "starting", "publishing", "opening", "registering",
           "prompting", "recording", "done", "refused"},
     sid : Session \cup {None}, gen : 0..generation,
     record : {"none", "running", "settled", "failed", "lost"}, cancel : BOOLEAN,
     cancelling : BOOLEAN, answer : {"none", "stop", "error"},
     sent : Nat, queued : Nat, forwarded : Nat, stream : {"open", "full", "left"},
     outcome : {"none", "completed", "failed", "lost", "orphaned"}]

TypeOK ==
    /\ child \in [Generation -> {"none", "alive", "dead"}]
    /\ watch \in [Generation -> {"none", "watching", "crashing", "exited"}]
    /\ current \in 0..generation /\ generation \in 0..MaxGenerations /\ starting \in BOOLEAN
    /\ sessions \in [Session -> Turn \cup {None}]
    /\ shutdown \in {"no", "waiting", "stopped"}
    /\ turn \in [Turn -> TurnRecord]
    /\ wiped \subseteq Turn /\ updates \in 0..MaxUpdates

(* While a turn runs on a living child its session is its own: the table    *)
(* names it, so no second turn prompts the session and its updates reach    *)
(* it.  The exception is a table emptied for the crash of an earlier child  *)
(* (process.go:210).  What a record then says of an ended turn is what      *)
(* happened: settled when the agent answered and with every update it sent  *)
(* before; failed never once a cancellation was under way; lost only when   *)
(* the child died or did not answer the cancellation (service.go:560-740).  *)
SessionsOwned ==
    \A t \in Turn :
        (InLiveQueries(t) /\ t \notin wiped
            /\ child[turn[t].gen] = "alive") => sessions[turn[t].sid] = t
RecordsTrue ==
    \A t \in Turn : turn[t].pc = "recording" =>
        CASE Verdict(turn[t].outcome) = "settled" ->
                /\ turn[t].answer # "none"
                /\ wiped = {} => turn[t].forwarded = turn[t].sent
          [] Verdict(turn[t].outcome) = "failed" -> turn[t].answer = "error" /\ ~turn[t].cancelling
          [] Verdict(turn[t].outcome) = "lost" -> turn[t].cancelling \/ child[turn[t].gen] = "dead"
TurnsAccounted == TypeOK /\ SessionsOwned /\ RecordsTrue

(* A turn that is cancelled, or whose child is gone or service stops, ends:  *)
(* no other caller, no watcher and no agent that stays silent can hold it    *)
(* (process.go:151, service.go:604-690).  Its own caller can, when it has    *)
(* stopped reading and not left, until the service stops: the pump waits in  *)
(* emit (service.go:225).                                                    *)
Ends(t) == turn[t].pc \in {"refused", "done"}
Doomed(t) ==
    \/ turn[t].cancel \/ shuttingDown
    \/ turn[t].gen # 0 /\ child[turn[t].gen] = "dead"
Unread(t) == turn[t].stream = "full" /\ ~shuttingDown
TurnsSettle == \A t \in Turn : (turn[t].pc # "idle" /\ Doomed(t)) ~> (Ends(t) \/ Unread(t))

(* "never blocking the pump on a consumer that stopped receiving"          *)
(* (service.go:224): a cancelled turn would end whether it is read or not. *)
(* Violated, see TurnsSettle.                                              *)
CancelEnds == \A t \in Turn : (turn[t].pc # "idle" /\ turn[t].cancel) ~> Ends(t)

=============================================================================
