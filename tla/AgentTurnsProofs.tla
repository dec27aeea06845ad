---------------------------- MODULE AgentTurnsProofs ----------------------------
(***************************************************************************)
(* Proofs about AgentTurns, for any number of turns, sessions and children:*)
(* a running turn owns its session, and the record of a turn that ended    *)
(* says what happened to it.                                               *)
(*                                                                         *)
(* Neither is inductive.  That the table still names a running turn needs  *)
(* to know which watchers may empty it (Watchers) and that a turn which    *)
(* has a session and a child has valid ones (Places); that a settled turn  *)
(* forwarded every update needs the balance of its queue while it runs,    *)
(* which in turn needs the table (Balance).                                *)
(***************************************************************************)
EXTENDS AgentTurns, TLAPS

(* A watcher acts only on a dead child; later generations do not exist.    *)
Watchers ==
    /\ \A g \in Generation : watch[g] \in {"crashing", "exited"} => child[g] = "dead"
    /\ \A g \in Generation : g > generation => child[g] = "none" /\ watch[g] = "none"

(* From the child on a turn has a generation, from the session on a sid,   *)
(* and once it is released an outcome.                                     *)
Places ==
    \A t \in Turn :
        /\ turn[t].pc \in {"publishing", "opening", "registering", "prompting", "recording"}
             => turn[t].gen \in 1..generation
        /\ turn[t].pc \in {"registering", "prompting", "recording"} => turn[t].sid \in Session
        /\ turn[t].pc = "recording" => turn[t].outcome # "none"

(* Until the table was emptied under a living child, every update that was *)
(* sent to a running turn is in its queue or was forwarded.                *)
Balance ==
    \A t \in Turn : turn[t].pc = "prompting" /\ wiped = {}
        => turn[t].forwarded + turn[t].queued = turn[t].sent

(* Nor was any update sent to a turn, or queued for it, before it prompts. *)
Fresh ==
    wiped = {} => \A t \in Turn :
        turn[t].pc \in {"idle", "ensuring", "waiting", "starting", "publishing", "opening", "registering"}
            => turn[t].sent = 0 /\ turn[t].queued = 0 /\ turn[t].forwarded = 0

(* RecordsTrue, outcome by outcome. *)
OutcomesTrue ==
    \A t \in Turn : turn[t].pc = "recording" =>
        /\ turn[t].outcome = "completed" =>
              turn[t].answer # "none" /\ (wiped = {} => turn[t].forwarded = turn[t].sent)
        /\ turn[t].outcome = "failed" => turn[t].answer = "error" /\ ~turn[t].cancelling
        /\ turn[t].outcome \in {"lost", "orphaned"} =>
              turn[t].cancelling \/ child[turn[t].gen] = "dead"

Sound == Places /\ Fresh /\ Balance /\ SessionsOwned /\ OutcomesTrue

IInv == TypeOK /\ Watchers /\ Sound

-----------------------------------------------------------------------------
(* Type correctness. *)

LEMMA TypeInit == Init => TypeOK
PROOF
<1> SUFFICES ASSUME Init PROVE TypeOK
  OBVIOUS
<1>1. generation = 0 /\ current = 0 /\ updates = 0 /\ starting \in BOOLEAN /\ wiped = {}
  BY DEF Init
<1>2. turn \in [Turn -> TurnRecord]
  <2>1. NewTurn \in TurnRecord
    BY <1>1 DEF NewTurn, TurnRecord
  <2> QED BY <2>1 DEF Init
<1>3. sessions \in [Session -> Turn \cup {None}] /\ shutdown \in {"no", "waiting", "stopped"}
  BY DEF Init
<1>4. /\ child \in [Generation -> {"none", "alive", "dead"}]
      /\ watch \in [Generation -> {"none", "watching", "crashing", "exited"}]
  BY DEF Init
<1> QED BY <1>1, <1>2, <1>3, <1>4, TurnAssumption DEF TypeOK

(* A turn moves on to a record of its type; generations only grow.         *)
LEMMA StepTypes ==
    ASSUME TypeOK, NEW t \in Turn, NEW next \in TurnRecord', Steps(t, next),
           generation' \in Nat, generation' >= generation
    PROVE  turn' \in [Turn -> TurnRecord']
BY DEF TypeOK, TurnRecord, Steps

LEMMA OverTypes ==
    ASSUME TypeOK, NEW t \in Turn, NEW pc \in {"refused", "done"}
    PROVE  Over(t, pc) \in TurnRecord
PROOF
<1>1. 0 \in 0..generation
  BY TurnAssumption DEF TypeOK
<1>2. turn[t].sid \in Session \cup {None} /\ turn[t].record \in {"none", "running", "settled", "failed", "lost"}
  BY DEF TypeOK, TurnRecord
<1>3. NewTurn \in TurnRecord
  BY <1>1 DEF NewTurn, TurnRecord
<1> HIDE DEF NewTurn
<1> QED BY <1>2, <1>3 DEF TurnRecord, Over

LEMMA RecordsGrow ==
    ASSUME TypeOK, generation' \in Nat, generation' >= generation
    PROVE  TurnRecord \subseteq TurnRecord'
PROOF
<1>1. generation \in Nat /\ 0..generation \subseteq 0..generation'
  BY TurnAssumption DEF TypeOK
<1> QED BY <1>1 DEF TurnRecord

(* The ways in which a step changes the record of one turn.                *)
LEMMA GoesTypes ==
    ASSUME TypeOK, NEW t \in Turn,
           NEW pc \in {"ensuring", "waiting", "starting", "opening", "prompting"}, Goes(t, pc),
           generation' = generation
    PROVE  turn' \in [Turn -> TurnRecord']
BY DEF TypeOK, TurnRecord, Goes, Steps

LEMMA RefuseTypes ==
    ASSUME TypeOK, NEW t \in Turn, Refuse(t), generation' = generation
    PROVE  turn' \in [Turn -> TurnRecord']
BY OverTypes DEF TypeOK, TurnRecord, Refuse, Steps

LEMMA WokenTypes ==
    ASSUME TypeOK
    PROVE  Woken \in [Turn -> TurnRecord]
BY DEF TypeOK, TurnRecord, Woken

(* What a turn's record is made of. *)
LEMMA TurnFields ==
    ASSUME TypeOK, NEW t \in Turn
    PROVE  /\ turn[t] \in TurnRecord
           /\ turn[t].sid \in Session \cup {None} /\ turn[t].gen \in 0..generation
           /\ turn[t].sent \in Nat /\ turn[t].queued \in Nat /\ turn[t].forwarded \in Nat
           /\ generation \in Nat /\ generation <= MaxGenerations
           /\ current \in 0..generation
           /\ \A g \in 1..generation : g \in Generation
BY TurnAssumption DEF TypeOK, TurnRecord, Generation

(* What emit makes of a stream                                             *)
LEMMA EmitsTypes ==
    ASSUME NEW t \in Turn
    PROVE  Emits(t) \subseteq {"open", "full", "left"}
BY DEF Emits

LEMMA EmitTypes ==
    ASSUME TypeOK, NEW t \in Turn, EmitReturns(t)
    PROVE  TypeOK'
PROOF
<1>1. /\ UNCHANGED <<child, watch, current, generation, starting, sessions, shutdown, wiped, updates>>
      /\ generation \in Nat /\ turn[t] \in TurnRecord
  BY TurnAssumption DEF EmitReturns, process, Rest, TypeOK
<1>2. PICK stream \in {"open", "left"} : Steps(t, [turn[t] EXCEPT !.stream = stream])
  BY DEF EmitReturns
<1>3. [turn[t] EXCEPT !.stream = stream] \in TurnRecord'
  BY <1>1 DEF TurnRecord
<1>4. turn' \in [Turn -> TurnRecord']
  BY <1>1, <1>2, <1>3, StepTypes
<1> QED BY <1>1, <1>4 DEF TypeOK

LEMMA TypeStep == TypeOK /\ Places /\ [Next]_vars => TypeOK'
PROOF
<1> SUFFICES ASSUME TypeOK, Places, [Next]_vars PROVE TypeOK'
  OBVIOUS
<1> USE TurnFields DEF Rest, process
<1>0. ASSUME generation' = generation, turn' \in [Turn -> TurnRecord'],
             UNCHANGED <<child, watch, current, starting, sessions, shutdown, wiped, updates>>
      PROVE  TypeOK'
  BY <1>0 DEF TypeOK
<1>1. ASSUME NEW t \in Turn, StartTurn(t) PROVE TypeOK'
  <2>1. PICK sid \in Session \cup {None} :
          Steps(t, IF shuttingDown \/ (sid # None /\ sessions[sid] # None)
                   THEN Over(t, "refused")
                   ELSE [turn[t] EXCEPT !.sid = sid, !.pc = "ensuring"])
    BY <1>1 DEF StartTurn
  <2>2. UNCHANGED <<child, watch, current, generation, starting, sessions, shutdown, wiped, updates>>
    BY <1>1 DEF StartTurn
  <2>3. Over(t, "refused") \in TurnRecord'
    BY <2>2, OverTypes DEF TurnRecord
  <2>4. [turn[t] EXCEPT !.sid = sid, !.pc = "ensuring"] \in TurnRecord'
    BY ZenonT(60), <2>2 DEF TurnRecord
  <2>5. turn' \in [Turn -> TurnRecord']
    BY <2>1, <2>2, <2>3, <2>4, StepTypes
  <2> QED BY <1>0, <2>2, <2>5
<1>2. ASSUME NEW t \in Turn, Start(t) PROVE TypeOK'
  <2>1. CASE Ensure(t)
    <3>1. turn' \in [Turn -> TurnRecord'] /\ generation' = generation
      <4>1. CASE Refuse(t)
        BY <2>1, <4>1, RefuseTypes DEF Ensure
      <4>2. CASE Steps(t, [turn[t] EXCEPT !.pc = "opening", !.gen = current])
        <5>1. [turn[t] EXCEPT !.pc = "opening", !.gen = current] \in TurnRecord' /\ generation' = generation
          BY ZenonT(60), <2>1 DEF Ensure, TurnRecord
        <5> QED BY <4>2, <5>1, StepTypes
      <4>3. CASE Goes(t, "waiting") \/ Goes(t, "starting")
        BY <2>1, <4>3, GoesTypes DEF Ensure
      <4> QED BY <2>1, <4>1, <4>2, <4>3 DEF Ensure
    <3>2. starting' \in BOOLEAN
      BY <2>1 DEF Ensure, TypeOK
    <3> QED BY <2>1, <3>1, <3>2 DEF Ensure, TypeOK
  <2>2. CASE ChildStarts(t)
    <3>1. generation' = generation + 1 /\ generation' \in Generation
      BY <2>2, TurnAssumption DEF ChildStarts, Generation
    <3>2. [turn[t] EXCEPT !.pc = "publishing", !.gen = generation'] \in TurnRecord'
      <4>1. turn[t] \in TurnRecord'
        BY <3>1, RecordsGrow
      <4>2. generation' \in 0..generation'
        BY <3>1
      <4> QED BY <4>1, <4>2 DEF TurnRecord
    <3>3. turn' \in [Turn -> TurnRecord']
      BY <2>2, <3>1, <3>2, StepTypes DEF ChildStarts
    <3>4. /\ child' \in [Generation -> {"none", "alive", "dead"}]
          /\ watch' \in [Generation -> {"none", "watching", "crashing", "exited"}]
      BY <2>2 DEF ChildStarts, TypeOK
    <3>5. generation' \in 0..MaxGenerations /\ current' \in 0..generation'
      BY <2>2, <3>1, TurnAssumption DEF ChildStarts
    <3> QED BY <2>2, <3>3, <3>4, <3>5 DEF ChildStarts, TypeOK
  <2>3. CASE StartFails(t)
    <3>1. turn' \in [Turn -> TurnRecord'] /\ starting' \in BOOLEAN
      BY <2>3, OverTypes, WokenTypes DEF StartFails, TurnRecord
    <3> QED BY <2>3, <3>1 DEF StartFails, TypeOK
  <2>4. CASE PublishChild(t)
    <3>1. turn' \in [Turn -> TurnRecord'] /\ starting' \in BOOLEAN
      <4>1. Woken \in [Turn -> TurnRecord'] /\ generation' = generation
        BY <2>4, WokenTypes DEF PublishChild, TurnRecord
      <4>2. turn' = [Woken EXCEPT ![t].pc = "opening"] /\ starting' = FALSE
        BY <2>4 DEF PublishChild
      <4> HIDE DEF Woken
      <4>3. [Woken[t] EXCEPT !.pc = "opening"] \in TurnRecord'
        <5>1. Woken[t] \in TurnRecord'
          BY <4>1
        <5> QED BY <5>1 DEF TurnRecord
      <4>4. turn' = [Woken EXCEPT ![t] = [Woken[t] EXCEPT !.pc = "opening"]]
        BY <4>1, <4>2
      <4> QED BY <4>1, <4>2, <4>3, <4>4
    <3>2. current' \in 0..generation
      BY <2>4 DEF PublishChild
    <3> QED BY <2>4, <3>1, <3>2 DEF PublishChild, TypeOK
  <2>5. CASE OpenSession(t)
    <3>1. UNCHANGED <<child, watch, current, generation, starting, sessions, shutdown, wiped, updates>>
      BY <2>5 DEF OpenSession
    <3>2. CASE Refuse(t)
      BY <1>0, <3>1, <3>2, RefuseTypes
    <3>3. ASSUME NEW sid \in Session,
                 Steps(t, [turn[t] EXCEPT !.sid = sid, !.record = "running", !.pc = "registering"])
          PROVE TypeOK'
      <4>1. [turn[t] EXCEPT !.sid = sid, !.record = "running", !.pc = "registering"] \in TurnRecord'
        BY ZenonT(60), <3>1 DEF TurnRecord
      <4> QED BY <1>0, <3>1, <3>3, <4>1, StepTypes
    <3>4. ~Refuse(t) => \E sid \in Session :
              Steps(t, [turn[t] EXCEPT !.sid = sid, !.record = "running", !.pc = "registering"])
      BY <2>5 DEF OpenSession
    <3> QED BY <3>2, <3>3, <3>4
  <2>6. CASE RegisterTurn(t)
    <3>1. /\ UNCHANGED <<child, watch, current, generation, starting, shutdown, wiped, updates>>
          /\ turn[t].sid \in Session
      BY <2>6 DEF RegisterTurn, Places
    <3>2. sessions' \in [Session -> Turn \cup {None}]
      BY <2>6, <3>1 DEF RegisterTurn, TypeOK
    <3>3. turn' \in [Turn -> TurnRecord']
      <4>1. CASE Refuse(t)
        BY <3>1, <4>1, RefuseTypes
      <4>2. CASE Steps(t, Registered(t))
        <5>1. Registered(t) \in TurnRecord'
          BY ZenonT(60), <3>1 DEF Registered, TurnRecord
        <5> QED BY <3>1, <4>2, <5>1, StepTypes
      <4> QED BY <2>6, <4>1, <4>2 DEF RegisterTurn
    <3> QED BY <3>1, <3>2, <3>3 DEF TypeOK
  <2> QED BY <1>2, <2>1, <2>2, <2>3, <2>4, <2>5, <2>6 DEF Start
<1>3. ASSUME NEW t \in Turn, GiveUpWaiting(t) PROVE TypeOK'
  BY <1>0, <1>3, RefuseTypes DEF GiveUpWaiting
<1>4. ASSUME NEW t \in Turn, Pump(t) PROVE TypeOK'
  <2>1. CASE ForwardUpdate(t)
    <3>1. UNCHANGED <<child, watch, current, generation, starting, sessions, shutdown, wiped, updates>>
      BY <2>1 DEF ForwardUpdate
    <3>2. ASSUME NEW stream \in {"open", "full", "left"}
          PROVE  [turn[t] EXCEPT !.queued = @ - 1, !.forwarded = @ + 1, !.stream = stream]
                    \in TurnRecord'
      <4>1. turn[t].queued - 1 \in Nat /\ turn[t].forwarded + 1 \in Nat
        BY <2>1 DEF ForwardUpdate
      <4>2. turn[t] \in TurnRecord'
        BY <3>1 DEF TurnRecord
      <4> QED BY <4>1, <4>2 DEF TurnRecord
    <3>3. PICK stream \in {"open", "full", "left"} :
              Steps(t, [turn[t] EXCEPT !.queued = @ - 1, !.forwarded = @ + 1, !.stream = stream])
      BY <2>1, EmitsTypes DEF ForwardUpdate
    <3>4. PICK next \in TurnRecord' : Steps(t, next)
      BY <3>2, <3>3
    <3> QED BY <1>0, <3>1, <3>4, StepTypes
  <2>2. ASSUME NEW outcome \in {"completed", "failed", "lost", "orphaned"}, NEW n \in Nat,
               Release(t, outcome, n)
        PROVE  TypeOK'
    <3>1. UNCHANGED <<child, watch, current, generation, starting, shutdown, wiped, updates>>
      BY <2>2 DEF Release
    <3>2. ASSUME NEW stream \in {"open", "full", "left"}
          PROVE  [turn[t] EXCEPT !.pc = "recording", !.outcome = outcome, !.queued = 0,
                    !.forwarded = @ + n, !.stream = stream] \in TurnRecord'
      <4>1. turn[t].forwarded + n \in Nat
        OBVIOUS
      <4>2. turn[t] \in TurnRecord'
        BY <3>1 DEF TurnRecord
      <4> QED BY ZenonT(60), <4>1, <4>2 DEF TurnRecord
    <3>3. turn' \in [Turn -> TurnRecord']
      <4>1. PICK stream \in {"open", "full", "left"} :
                Steps(t, [turn[t] EXCEPT !.pc = "recording", !.outcome = outcome, !.queued = 0,
                            !.forwarded = @ + n, !.stream = stream])
        <5>1. turn[t].stream \in {"open", "full", "left"}
          BY DEF TurnRecord
        <5>2. \E stream \in IF outcome = "completed" THEN Emits(t) ELSE {turn[t].stream} :
                  Steps(t, [turn[t] EXCEPT !.pc = "recording", !.outcome = outcome, !.queued = 0,
                              !.forwarded = @ + n, !.stream = stream])
          BY <2>2, Zenon DEF Release
        <5> QED BY <5>1, <5>2, EmitsTypes, Zenon
      <4>2. PICK next \in TurnRecord' : Steps(t, next)
        BY <3>2, <4>1
      <4> QED BY <3>1, <4>2, StepTypes
    <3>4. sessions' \in [Session -> Turn \cup {None}]
      BY <2>2 DEF Release, TypeOK
    <3> QED BY <3>1, <3>3, <3>4 DEF TypeOK
  <2>3. CASE TakeAnswer(t)
    <3>1. Outcome(t) \in {"completed", "failed", "lost", "orphaned"}
      BY DEF Outcome
    <3> QED BY <2>2, <2>3, <3>1 DEF TakeAnswer
  <2>4. CASE LosesChild(t)
    BY <2>2, <2>4 DEF LosesChild
  <2>5. CASE BeginCancel(t)
    <3>1. UNCHANGED <<child, watch, current, generation, starting, sessions, shutdown, wiped, updates>>
      BY <2>5 DEF BeginCancel
    <3>2. [turn[t] EXCEPT !.cancelling = TRUE] \in TurnRecord'
      <4>1. turn[t] \in TurnRecord'
        BY <3>1 DEF TurnRecord
      <4> QED BY <4>1 DEF TurnRecord
    <3> QED BY <1>0, <2>5, <3>1, <3>2, StepTypes DEF BeginCancel
  <2>6. CASE SettleRecord(t)
    <3>1. UNCHANGED <<child, watch, current, generation, starting, sessions, shutdown, wiped, updates>>
      BY <2>6 DEF SettleRecord
    <3>2. PICK r \in {"settled", "failed", "lost"} : Steps(t, [Over(t, "done") EXCEPT !.record = r])
      <4>1. turn[t].outcome \in {"completed", "failed", "lost", "orphaned"}
        BY <2>6 DEF SettleRecord, Places, TurnRecord
      <4>2. Verdict(turn[t].outcome) \in {"settled", "failed", "lost"}
        BY <4>1 DEF Verdict
      <4> QED BY <2>6, <4>2 DEF SettleRecord
    <3>3. [Over(t, "done") EXCEPT !.record = r] \in TurnRecord'
      BY <3>1, OverTypes DEF TurnRecord
    <3> QED BY <1>0, <3>1, <3>2, <3>3, StepTypes
  <2>7. CASE EmitReturns(t)
    BY <2>7, EmitTypes
  <2> QED BY <1>4, <2>1, <2>3, <2>4, <2>5, <2>6, <2>7 DEF Pump
<1>5. ASSUME NEW t \in Turn, DispatchUpdate(t) PROVE TypeOK'
  <2>1. UNCHANGED <<child, watch, current, generation, starting, sessions, shutdown, wiped>>
        /\ updates' = updates + 1 /\ updates < MaxUpdates
    BY <1>5 DEF DispatchUpdate
  <2>2. turn' \in [Turn -> TurnRecord']
    <3>1. ASSUME NEW u \in Turn, NEW n \in Nat
          PROVE  /\ turn[u] \in TurnRecord'
                 /\ [turn[u] EXCEPT !.queued = n] \in TurnRecord'
                 /\ [turn[u] EXCEPT !.sent = turn[u].sent + 1, !.queued = n] \in TurnRecord'
      <4>1. turn[u] \in TurnRecord' /\ turn[u].sent + 1 \in Nat
        BY <2>1 DEF TurnRecord
      <4> QED BY <4>1 DEF TurnRecord
    <3>2. ASSUME NEW u \in Turn PROVE turn'[u] \in TurnRecord'
      <4>1. /\ turn[u].queued \in Nat /\ turn[u].queued + 1 \in Nat
            /\ turn[u].sent + 1 \in Nat
        OBVIOUS
      <4>2. \/ turn'[u] = turn[u]
            \/ turn'[u] = [turn[u] EXCEPT !.queued = turn[u].queued + 1]
            \/ turn'[u] = [turn[u] EXCEPT !.sent = turn[u].sent + 1, !.queued = turn[u].queued + 1]
            \/ turn'[u] = [turn[u] EXCEPT !.sent = turn[u].sent + 1, !.queued = turn[u].queued]
        BY <1>5 DEF DispatchUpdate
      <4> HIDE DEF TurnRecord
      <4> QED BY <3>1, <4>1, <4>2
    <3>3. turn' = [u \in Turn |-> turn'[u]]
      BY <1>5 DEF DispatchUpdate
    <3>4. \A u \in Turn : turn'[u] \in TurnRecord'
      BY <3>2
    <3> QED BY <3>3, <3>4
  <2>3. updates' \in 0..MaxUpdates
    BY <2>1, TurnAssumption DEF TypeOK
  <2> QED BY <2>1, <2>2, <2>3 DEF TypeOK
<1>6. ASSUME NEW t \in Turn, AnswerPrompt(t) \/ CancelQuery(t) PROVE TypeOK'
  <2>1. UNCHANGED <<child, watch, current, generation, starting, sessions, shutdown, wiped, updates>>
    BY <1>6 DEF AnswerPrompt, CancelQuery
  <2>2. PICK next \in TurnRecord' : Steps(t, next)
    <3>1. [turn[t] EXCEPT !.cancel = TRUE] \in TurnRecord'
      BY ZenonT(60), <2>1 DEF TurnRecord
    <3>2. \A answer \in {"stop", "error"} : [turn[t] EXCEPT !.answer = answer] \in TurnRecord'
      BY <2>1 DEF TurnRecord
    <3> QED BY <1>6, <3>1, <3>2 DEF AnswerPrompt, CancelQuery
  <2> QED BY <1>0, <2>1, <2>2, StepTypes
<1>7. ASSUME NEW g \in Generation, ChildDies(g) PROVE TypeOK'
  <2>1. turn' \in [Turn -> TurnRecord'] /\ generation' = generation
    BY <1>7 DEF ChildDies, TypeOK, TurnRecord
  <2>2. child' \in [Generation -> {"none", "alive", "dead"}]
    BY <1>7 DEF ChildDies, TypeOK
  <2> QED BY <1>7, <2>1, <2>2 DEF ChildDies, TypeOK
<1>8. ASSUME NEW g \in Generation, Watcher(g) PROVE TypeOK'
  <2>1. turn' \in [Turn -> TurnRecord'] /\ generation' = generation
    BY <1>8 DEF Watcher, WatchClears, HandleCrash, TypeOK, TurnRecord
  <2>2. watch' \in [Generation -> {"none", "watching", "crashing", "exited"}]
    BY <1>8 DEF Watcher, WatchClears, HandleCrash, TypeOK
  <2>3. current' \in 0..generation
    <3>1. 0 \in 0..generation /\ current \in 0..generation
      BY TurnAssumption DEF TypeOK
    <3> QED BY <1>8, <3>1 DEF Watcher, WatchClears, HandleCrash
  <2> QED BY <1>8, <2>1, <2>2, <2>3 DEF Watcher, WatchClears, HandleCrash, TypeOK
<1>9. CASE BeginShutdown \/ StopProcess \/ UNCHANGED vars
  <2>1. turn' \in [Turn -> TurnRecord'] /\ generation' = generation
    BY <1>9 DEF BeginShutdown, StopProcess, vars, TypeOK, TurnRecord
  <2>2. current' \in 0..generation
    <3>1. 0 \in 0..generation /\ current \in 0..generation
      BY TurnAssumption DEF TypeOK
    <3> QED BY <1>9, <3>1 DEF BeginShutdown, StopProcess, vars
  <2> QED BY <1>9, <2>1, <2>2 DEF BeginShutdown, StopProcess, vars, TypeOK
<1>10. ASSUME NEW t \in Turn, EmitReturns(t) PROVE TypeOK'
  BY <1>10, EmitTypes
<1> QED BY <1>1, <1>2, <1>3, <1>4, <1>5, <1>6, <1>7, <1>8, <1>9, <1>10 DEF Next

-----------------------------------------------------------------------------
(* The strengthening. *)

(* What a step does to a turn other than the one it belongs to: it wakes   *)
(* it, ends its prompt or queues an update.                                *)
LEMMA OverFields ==
    ASSUME NEW t \in Turn, NEW pc
    PROVE  /\ Over(t, pc).pc = pc /\ Over(t, pc).sid = turn[t].sid /\ Over(t, pc).gen = 0
           /\ Over(t, pc).sent = 0 /\ Over(t, pc).queued = 0 /\ Over(t, pc).forwarded = 0
BY DEF Over, NewTurn

LEMMA WatchersStep ==
    ASSUME TypeOK, Watchers, [Next]_vars
    PROVE  Watchers'
PROOF
<1> USE DEF Watchers, TypeOK, process
<1>1. CASE \/ \E t \in Turn : \/ StartTurn(t) \/ Ensure(t) \/ StartFails(t) \/ PublishChild(t)
                              \/ OpenSession(t) \/ RegisterTurn(t) \/ GiveUpWaiting(t) \/ Pump(t)
                              \/ DispatchUpdate(t) \/ AnswerPrompt(t) \/ CancelQuery(t) \/ EmitReturns(t)
           \/ BeginShutdown \/ StopProcess \/ UNCHANGED vars
  <2>1. UNCHANGED <<child, watch, generation>>
    BY <1>1 DEF StartTurn, Ensure, StartFails, PublishChild, OpenSession, RegisterTurn,
       GiveUpWaiting, Pump, ForwardUpdate, EmitReturns, TakeAnswer, BeginCancel, LosesChild, SettleRecord, Release,
       DispatchUpdate, AnswerPrompt, CancelQuery, BeginShutdown, StopProcess, vars
  <2> QED BY <2>1
<1>2. ASSUME NEW t \in Turn, ChildStarts(t) PROVE Watchers'
  <2>1. generation \in Nat /\ generation' = generation + 1 /\ generation' \in Generation
    BY <1>2, TurnFields, TurnAssumption DEF ChildStarts, Generation
  <2>2. /\ child' = [child EXCEPT ![generation'] = "alive"]
        /\ watch' = [watch EXCEPT ![generation'] = "watching"]
    BY <1>2 DEF ChildStarts
  <2>3. \A g \in Generation : g \in Int
    BY DEF Generation
  <2>4. watch[generation'] = "none"
    BY <2>1
  <2> QED BY <2>1, <2>2, <2>3, <2>4
<1>3. ASSUME NEW g \in Generation, ChildDies(g) PROVE Watchers'
  BY <1>3 DEF ChildDies
<1>4. ASSUME NEW g \in Generation, Watcher(g) PROVE Watchers'
  BY <1>4 DEF Watcher, WatchClears, HandleCrash
<1> QED BY <1>1, <1>2, <1>3, <1>4 DEF Next, Start

LEMMA TurnShape ==
    ASSUME TypeOK, NEW t \in Turn
    PROVE  DOMAIN turn[t] = {"pc", "sid", "gen", "record", "cancel", "cancelling", "answer",
                             "sent", "queued", "forwarded", "stream", "outcome"}
BY DEF TypeOK, TurnRecord

LEMMA TurnMoves ==
    ASSUME TypeOK, NEW t \in Turn, NEW next, Steps(t, next)
    PROVE  turn'[t] = next /\ \A u \in Turn : u # t => turn'[u] = turn[u]
BY DEF TypeOK, Steps

(* What a turn has counted stands. *)
Uncounted(t) ==
    /\ turn'[t].sent = turn[t].sent /\ turn'[t].queued = turn[t].queued
    /\ turn'[t].forwarded = turn[t].forwarded

(* The fields a step of its own changes in a turn; the other turns stand.  *)
LEMMA StartFields ==
    ASSUME TypeOK, NEW t \in Turn, StartTurn(t) \/ GiveUpWaiting(t) \/ Ensure(t)
    PROVE  /\ \A u \in Turn : u # t => turn'[u] = turn[u]
           /\ UNCHANGED <<child, watch, current, generation, sessions, shutdown, wiped, updates>>
           /\ \/ turn[t].pc \in {"idle", "ensuring", "waiting"} /\ turn'[t].pc = "refused"
              \/ turn[t].pc = "idle" /\ turn'[t].pc = "ensuring" /\ Uncounted(t)
              \/ turn[t].pc = "ensuring" /\ turn'[t].pc \in {"waiting", "starting"} /\ Uncounted(t)
              \/ /\ turn[t].pc = "ensuring" /\ turn'[t].pc = "opening" /\ Uncounted(t)
                 /\ turn'[t].gen = current /\ current # 0
PROOF
<1> USE TurnShape, OverFields DEF process, Rest, Uncounted
<1>1. CASE StartTurn(t)
  <2>1. PICK sid \in Session \cup {None} :
          Steps(t, IF shuttingDown \/ (sid # None /\ sessions[sid] # None)
                   THEN Over(t, "refused")
                   ELSE [turn[t] EXCEPT !.sid = sid, !.pc = "ensuring"])
    BY <1>1 DEF StartTurn
  <2>2. turn[t].pc = "idle" /\ UNCHANGED <<child, watch, current, generation, sessions, shutdown, wiped, updates>>
    BY <1>1 DEF StartTurn
  <2>6. \A u \in Turn : u # t => turn'[u] = turn[u]
    BY <2>1 DEF Steps, TypeOK
  <2>3. CASE turn'[t] = Over(t, "refused")
    BY <2>2, <2>6, <2>3
  <2>4. CASE turn'[t] = [turn[t] EXCEPT !.sid = sid, !.pc = "ensuring"]
    BY <2>2, <2>6, <2>4
  <2>5. turn'[t] = Over(t, "refused") \/ turn'[t] = [turn[t] EXCEPT !.sid = sid, !.pc = "ensuring"]
    BY <2>1 DEF Steps, TypeOK
  <2> QED BY <2>3, <2>4, <2>5
<1>2. CASE GiveUpWaiting(t)
  BY <1>2 DEF GiveUpWaiting, Refuse, Steps, TypeOK
<1>3. CASE Ensure(t)
  <2>0. turn[t].pc = "ensuring" /\ UNCHANGED <<child, watch, current, generation, sessions, shutdown, wiped, updates>>
    BY <1>3 DEF Ensure
  <2>5. turn \in [Turn -> TurnRecord]
    BY DEF TypeOK
  <2>1. CASE Refuse(t)
    BY <2>0, <2>1, <2>5 DEF Refuse, Steps
  <2>2. CASE current # 0 /\ Steps(t, [turn[t] EXCEPT !.pc = "opening", !.gen = current])
    BY <2>0, <2>2, <2>5 DEF Steps
  <2>3. CASE Goes(t, "waiting")
    BY <2>0, <2>3, <2>5 DEF Goes, Steps
  <2>4. CASE Goes(t, "starting")
    BY <2>0, <2>4, <2>5 DEF Goes, Steps
  <2> QED BY <1>3, <2>1, <2>2, <2>3, <2>4 DEF Ensure
<1> QED BY <1>1, <1>2, <1>3

(* What such a step does to the other turns: it wakes those that wait.     *)
Stands(u) ==
    \/ turn'[u] = turn[u]
    \/ turn[u].pc = "waiting" /\ turn'[u].pc = "ensuring" /\ Uncounted(u)

(* A turn that does not yet prompt, or is over, disturbs nothing else.     *)
LEMMA Aside ==
    ASSUME TypeOK, Sound, NEW t \in Turn,
           \A u \in Turn : u # t => Stands(u),
           UNCHANGED <<child, generation, sessions, wiped>>,
           turn'[t].pc \in {"publishing", "opening", "registering"} => turn'[t].gen \in 1..generation,
           turn'[t].pc = "registering" => turn'[t].sid \in Session,
           wiped = {} /\ turn'[t].pc \notin {"refused", "done"} =>
               turn'[t].sent = 0 /\ turn'[t].queued = 0 /\ turn'[t].forwarded = 0,
           turn'[t].pc \notin {"prompting", "recording"}
    PROVE  Sound'
PROOF
<1> USE DEF Sound, Stands, Uncounted
<1>1. Places'
  BY DEF Places
<1>2. Fresh'
  BY DEF Fresh
<1>3. Balance'
  BY DEF Balance
<1>4. SessionsOwned'
  BY DEF SessionsOwned, InLiveQueries
<1>5. OutcomesTrue'
  BY DEF OutcomesTrue
<1> QED BY <1>1, <1>2, <1>3, <1>4, <1>5

LEMMA StartSound ==
    ASSUME TypeOK, Sound, NEW t \in Turn, StartTurn(t) \/ GiveUpWaiting(t) \/ Ensure(t)
    PROVE  Sound'
PROOF
<1>1. wiped = {} /\ turn[t].pc \in {"idle", "ensuring", "waiting"} => turn[t].sent = 0 /\ turn[t].queued = 0 /\ turn[t].forwarded = 0
  BY DEF Sound, Fresh
<1>2. current # 0 => current \in 1..generation
  BY TurnFields
<1> QED BY StartFields, Aside, <1>1, <1>2 DEF Uncounted, Stands

(* The end of a start: the others look again. *)
LEMMA PublishSound ==
    ASSUME TypeOK, Sound, NEW t \in Turn, StartFails(t) \/ PublishChild(t)
    PROVE  Sound'
PROOF
<1> USE DEF Uncounted, Stands, Rest
<1>1. /\ UNCHANGED <<child, generation, sessions, wiped>>
      /\ turn[t].pc \in {"starting", "publishing"}
  BY DEF StartFails, PublishChild
<1>2. \A u \in Turn : u # t => turn'[u] = Woken[u]
  BY DEF StartFails, PublishChild, Woken
<1>3. \A u \in Turn : u # t => Stands(u)
  <2> SUFFICES ASSUME NEW u \in Turn, u # t PROVE Stands(u)
    OBVIOUS
  <2>1. CASE turn[u].pc = "waiting"
    <3>1. turn'[u] = [turn[u] EXCEPT !.pc = "ensuring"]
      BY <1>2, <2>1 DEF Woken
    <3>2. turn'[u].pc = "ensuring" /\ Uncounted(u)
      BY <3>1, TurnShape
    <3> QED BY <2>1, <3>2
  <2>2. CASE turn[u].pc # "waiting"
    BY <1>2, <2>2 DEF Woken
  <2> QED BY <2>1, <2>2
<1>4. CASE StartFails(t)
  <2>1. turn'[t] = Over(t, "refused")
    BY <1>4 DEF StartFails, Woken
  <2>2. turn'[t].pc = "refused"
    BY <2>1, OverFields
  <2> QED BY <1>1, <1>3, <2>2, Aside
<1>5. CASE PublishChild(t)
  <2>1. Woken[t] = turn[t] /\ turn[t].pc = "publishing"
    BY <1>5 DEF PublishChild, Woken
  <2>2. turn' = [Woken EXCEPT ![t].pc = "opening"] /\ Woken = [u \in Turn |-> Woken[u]]
    BY <1>5 DEF PublishChild, Woken
  <2>3. turn'[t] = [turn[t] EXCEPT !.pc = "opening"]
    BY <2>1, <2>2
  <2>4. turn'[t].pc = "opening" /\ turn'[t].gen = turn[t].gen /\ Uncounted(t)
    BY <2>3, TurnShape
  <2>5. /\ turn[t].gen \in 1..generation
        /\ wiped = {} => turn'[t].sent = 0 /\ turn'[t].queued = 0 /\ turn'[t].forwarded = 0
    BY <2>1, <2>4 DEF Sound, Places, Fresh
  <2> QED BY <1>1, <1>3, <2>4, <2>5, Aside
<1> QED BY <1>4, <1>5

LEMMA OpenSound ==
    ASSUME TypeOK, Sound, NEW t \in Turn, OpenSession(t)
    PROVE  Sound'
PROOF
<1> USE DEF Uncounted, Stands
<1>1. /\ UNCHANGED <<child, generation, sessions, wiped>>
      /\ turn[t].pc = "opening"
  BY DEF OpenSession, process, Rest
<1>2. CASE Refuse(t)
  <2>1. turn'[t].pc = "refused" /\ \A u \in Turn : u # t => turn'[u] = turn[u]
    BY <1>2, OverFields DEF Refuse, Steps, TypeOK
  <2> QED BY <1>1, <2>1, Aside
<1>3. ASSUME NEW sid \in Session,
             Steps(t, [turn[t] EXCEPT !.sid = sid, !.record = "running", !.pc = "registering"])
      PROVE  Sound'
  <2>1. turn'[t] = [turn[t] EXCEPT !.sid = sid, !.record = "running", !.pc = "registering"]
        /\ \A u \in Turn : u # t => turn'[u] = turn[u]
    BY <1>3 DEF Steps, TypeOK
  <2>2. turn'[t].pc = "registering" /\ turn'[t].sid = sid /\ turn'[t].gen = turn[t].gen /\ Uncounted(t)
    BY <2>1, TurnShape
  <2>3. /\ turn[t].gen \in 1..generation
        /\ wiped = {} => turn'[t].sent = 0 /\ turn'[t].queued = 0 /\ turn'[t].forwarded = 0
    BY <1>1, <2>2 DEF Sound, Places, Fresh
  <2> QED BY <1>1, <2>1, <2>2, <2>3, Aside
<1>4. ~Refuse(t) => \E sid \in Session :
          Steps(t, [turn[t] EXCEPT !.sid = sid, !.record = "running", !.pc = "registering"])
  BY DEF OpenSession, TypeOK, TurnRecord
<1> QED BY <1>2, <1>3, <1>4

LEMMA ChildStartsSound ==
    ASSUME TypeOK, Sound, NEW t \in Turn, ChildStarts(t)
    PROVE  Sound'
PROOF
<1> USE DEF Sound
<1>1. /\ generation \in Nat /\ generation' = generation + 1
      /\ \A g \in 1..generation : g \in 1..generation' /\ g \in Generation /\ g # generation'
      /\ generation' \in 1..generation'
  BY TurnFields DEF ChildStarts
<1>2. /\ UNCHANGED <<sessions, wiped>> /\ turn[t].pc = "starting"
      /\ \A g \in 1..generation : child'[g] = child[g]
  BY <1>1 DEF ChildStarts, Rest, TypeOK
<1>3. turn'[t] = [turn[t] EXCEPT !.pc = "publishing", !.gen = generation']
      /\ \A u \in Turn : u # t => turn'[u] = turn[u]
  BY DEF ChildStarts, Steps, TypeOK
<1>4. turn'[t].pc = "publishing" /\ turn'[t].gen = generation' /\ Uncounted(t)
  BY <1>3, TurnShape DEF Uncounted
<1>5. Places'
  BY <1>1, <1>3, <1>4 DEF Places
<1>6. Fresh'
  BY <1>2, <1>3, <1>4 DEF Fresh, Uncounted
<1>7. Balance'
  BY <1>2, <1>3, <1>4 DEF Balance
<1>8. SessionsOwned'
  BY <1>2, <1>3, <1>4 DEF SessionsOwned, InLiveQueries, Places
<1>9. OutcomesTrue'
  <2>1. ASSUME NEW u \in Turn, turn'[u].pc = "recording"
        PROVE  turn'[u] = turn[u] /\ child'[turn'[u].gen] = child[turn[u].gen]
    BY <1>2, <1>3, <1>4, <2>1 DEF Places
  <2>2. wiped' = wiped /\ OutcomesTrue
    BY <1>2
  <2> QED BY <2>1, <2>2 DEF OutcomesTrue
<1> QED BY <1>5, <1>6, <1>7, <1>8, <1>9

(* A registered turn is heard and has sent nothing yet. *)
LEMMA RegisterSound ==
    ASSUME TypeOK, Sound, NEW t \in Turn, RegisterTurn(t)
    PROVE  Sound'
PROOF
<1> USE DEF Sound
<1>1. /\ UNCHANGED <<child, generation, wiped>> /\ turn[t].pc = "registering"
      /\ turn[t].sid \in Session /\ turn[t].gen \in 1..generation
      /\ wiped = {} => turn[t].sent = 0 /\ turn[t].queued = 0 /\ turn[t].forwarded = 0
  BY DEF RegisterTurn, process, Places, Fresh
<1>2. CASE Refuse(t) /\ UNCHANGED sessions
  <2>1. turn'[t].pc = "refused" /\ \A u \in Turn : u # t => turn'[u] = turn[u]
    BY <1>2, OverFields DEF Refuse, Steps, TypeOK
  <2> QED BY <1>1, <1>2, <2>1, Aside DEF Stands
<1>3. CASE /\ sessions[turn[t].sid] = None /\ sessions' = [sessions EXCEPT ![turn[t].sid] = t]
           /\ Steps(t, Registered(t))
  <2>1. turn'[t] = Registered(t) /\ \A u \in Turn : u # t => turn'[u] = turn[u]
    BY <1>3 DEF Steps, TypeOK
  <2>2. /\ turn'[t].pc = "prompting" /\ turn'[t].sid = turn[t].sid /\ turn'[t].gen = turn[t].gen
        /\ wiped = {} => turn'[t].sent = 0 /\ turn'[t].queued = 0 /\ turn'[t].forwarded = 0
    BY <1>1, <2>1, TurnShape DEF Registered
  <2>3. /\ sessions'[turn[t].sid] = t
        /\ \A s \in Session : s # turn[t].sid => sessions'[s] = sessions[s]
    BY <1>1, <1>3 DEF TypeOK
  <2>4. Places'
    BY <1>1, <2>1, <2>2 DEF Places
  <2>5. Fresh'
    BY <1>1, <2>1, <2>2 DEF Fresh
  <2>6. Balance'
    BY <1>1, <2>1, <2>2 DEF Balance
  <2>7. SessionsOwned'
    BY <1>1, <1>3, <2>1, <2>2, <2>3, TurnAssumption DEF SessionsOwned, InLiveQueries, Places
  <2>8. OutcomesTrue'
    BY <1>1, <2>1, <2>2 DEF OutcomesTrue
  <2> QED BY <2>4, <2>5, <2>6, <2>7, <2>8
<1> QED BY <1>2, <1>3 DEF RegisterTurn

(* The same turns are placed and own the same sessions. *)
LEMMA ForwardSound ==
    ASSUME TypeOK, Sound, NEW t \in Turn, ForwardUpdate(t) \/ BeginCancel(t) \/ CancelQuery(t) \/ AnswerPrompt(t)
    PROVE  Sound'
PROOF
<1> USE DEF Sound
<1>1. /\ UNCHANGED <<child, generation, sessions, wiped>> /\ turn[t].pc = "prompting"
      /\ \A u \in Turn : u # t => turn'[u] = turn[u]
  BY DEF ForwardUpdate, BeginCancel, CancelQuery, AnswerPrompt, Pumping, InLiveQueries, process, Rest,
         Steps, TypeOK
<1>2. /\ turn'[t].pc = "prompting" /\ turn'[t].sid = turn[t].sid /\ turn'[t].gen = turn[t].gen
      /\ turn'[t].sent = turn[t].sent
      /\ turn'[t].forwarded + turn'[t].queued = turn[t].forwarded + turn[t].queued
  <2>1. CASE ForwardUpdate(t)
    <3>1. PICK stream :
              turn'[t] = [turn[t] EXCEPT !.queued = @ - 1, !.forwarded = @ + 1, !.stream = stream]
      BY <2>1 DEF ForwardUpdate, Steps, TypeOK
    <3>2. turn'[t].queued = turn[t].queued - 1 /\ turn'[t].forwarded = turn[t].forwarded + 1
      BY <3>1, TurnShape
    <3>3. turn'[t].pc = turn[t].pc /\ turn'[t].sid = turn[t].sid /\ turn'[t].gen = turn[t].gen
          /\ turn'[t].sent = turn[t].sent
      BY <3>1, TurnShape
    <3> QED BY <1>1, <3>2, <3>3, TurnFields
  <2>2. CASE BeginCancel(t)
    <3>1. turn'[t] = [turn[t] EXCEPT !.cancelling = TRUE]
      BY <2>2 DEF BeginCancel, Steps, TypeOK
    <3> QED BY <1>1, <3>1, TurnShape
  <2>3. CASE CancelQuery(t)
    <3>1. turn'[t] = [turn[t] EXCEPT !.cancel = TRUE]
      BY <2>3 DEF CancelQuery, Steps, TypeOK
    <3> QED BY <1>1, <3>1, TurnShape
  <2>4. CASE AnswerPrompt(t)
    <3>1. PICK answer \in {"stop", "error"} : turn'[t] = [turn[t] EXCEPT !.answer = answer]
      BY <2>4 DEF AnswerPrompt, Steps, TypeOK
    <3> QED BY <1>1, <3>1, TurnShape
  <2> QED BY <2>1, <2>2, <2>3, <2>4
<1>3. Places'
  BY <1>1, <1>2 DEF Places
<1>4. Fresh'
  BY <1>1, <1>2 DEF Fresh
<1>5. Balance'
  BY <1>1, <1>2 DEF Balance
<1>6. SessionsOwned'
  BY <1>1, <1>2 DEF SessionsOwned, InLiveQueries
<1>7. OutcomesTrue'
  BY <1>1, <1>2 DEF OutcomesTrue
<1> QED BY <1>3, <1>4, <1>5, <1>6, <1>7

(* Nothing but a stream changes. *)
LEMMA EmitSound ==
    ASSUME TypeOK, Sound, NEW t \in Turn, EmitReturns(t)
    PROVE  Sound'
PROOF
<1> USE DEF Sound
<1>1. /\ UNCHANGED <<child, generation, sessions, wiped>>
      /\ \A u \in Turn : u # t => turn'[u] = turn[u]
  BY DEF EmitReturns, process, Rest, Steps, TypeOK
<1>2. PICK stream : turn'[t] = [turn[t] EXCEPT !.stream = stream]
  BY DEF EmitReturns, Steps, TypeOK
<1>3. /\ turn'[t].pc = turn[t].pc /\ turn'[t].sid = turn[t].sid /\ turn'[t].gen = turn[t].gen
      /\ turn'[t].sent = turn[t].sent /\ turn'[t].queued = turn[t].queued
      /\ turn'[t].forwarded = turn[t].forwarded /\ turn'[t].outcome = turn[t].outcome
      /\ turn'[t].answer = turn[t].answer /\ turn'[t].cancelling = turn[t].cancelling
  BY <1>2, TurnShape
<1>4. Places'
  BY <1>1, <1>3 DEF Places
<1>5. Fresh'
  BY <1>1, <1>3 DEF Fresh
<1>6. Balance'
  BY <1>1, <1>3 DEF Balance
<1>7. SessionsOwned'
  BY <1>1, <1>3 DEF SessionsOwned, InLiveQueries
<1>8. OutcomesTrue'
  BY <1>1, <1>3 DEF OutcomesTrue
<1> QED BY <1>4, <1>5, <1>6, <1>7, <1>8

(* A turn leaves the table with an outcome that is true of it. *)
LEMMA ReleaseSound ==
    ASSUME TypeOK, Sound, NEW t \in Turn, turn[t].pc = "prompting",
           NEW outcome \in {"completed", "failed", "lost", "orphaned"}, NEW n \in Nat,
           Release(t, outcome, n),
           outcome = "completed" => turn[t].answer # "none" /\ n = turn[t].queued,
           outcome = "failed" => turn[t].answer = "error" /\ ~turn[t].cancelling,
           outcome \in {"lost", "orphaned"} => turn[t].cancelling \/ child[turn[t].gen] = "dead"
    PROVE  Sound'
PROOF
<1> USE DEF Sound
<1>1. /\ UNCHANGED <<child, generation, wiped>>
      /\ \A u \in Turn : u # t => turn'[u] = turn[u]
      /\ \E stream : turn'[t] = [turn[t] EXCEPT !.pc = "recording", !.outcome = outcome,
                                    !.queued = 0, !.forwarded = @ + n, !.stream = stream]
      /\ sessions' = [s \in Session |-> IF sessions[s] = t THEN None ELSE sessions[s]]
  <2>1. PICK stream : Steps(t, [turn[t] EXCEPT !.pc = "recording", !.outcome = outcome,
                                  !.queued = 0, !.forwarded = @ + n, !.stream = stream])
    BY Zenon DEF Release
  <2>2. /\ turn'[t] = [turn[t] EXCEPT !.pc = "recording", !.outcome = outcome,
                          !.queued = 0, !.forwarded = @ + n, !.stream = stream]
        /\ \A u \in Turn : u # t => turn'[u] = turn[u]
    BY <2>1, TurnMoves
  <2>3. /\ UNCHANGED <<child, generation, wiped>>
        /\ sessions' = [s \in Session |-> IF sessions[s] = t THEN None ELSE sessions[s]]
    BY DEF Release, process
  <2> QED BY <2>2, <2>3
<1>2. /\ turn'[t].pc = "recording" /\ turn'[t].outcome = outcome /\ turn'[t].sid = turn[t].sid
      /\ turn'[t].gen = turn[t].gen /\ turn'[t].answer = turn[t].answer
      /\ turn'[t].cancelling = turn[t].cancelling
      /\ turn'[t].sent = turn[t].sent /\ turn'[t].forwarded = turn[t].forwarded + n
  BY <1>1, TurnShape
<1>3. Places'
  BY ZenonT(60), <1>1, <1>2 DEF Places
<1>a. wiped' = wiped /\ turn'[t].pc = "recording" /\ \A u \in Turn : u # t => turn'[u] = turn[u]
  BY <1>1, <1>2
<1>4. Fresh'
  BY <1>a DEF Fresh
<1>5. Balance'
  BY <1>a DEF Balance
<1>6. SessionsOwned'
  <2>1. ASSUME NEW u \in Turn, turn'[u].pc = "prompting"
        PROVE  u # t /\ turn'[u] = turn[u] /\ turn[u].sid \in Session
    BY <1>1, <1>2, <2>1 DEF Places
  <2> QED BY <1>1, <2>1 DEF SessionsOwned, InLiveQueries
<1>7. OutcomesTrue'
  <2>1. wiped = {} => turn[t].forwarded + turn[t].queued = turn[t].sent
    BY DEF Balance
  <2>2. ASSUME NEW u \in Turn, turn'[u].pc = "recording", u # t
        PROVE  turn[u].pc = "recording" /\ turn'[u] = turn[u]
    BY <1>1, <2>2
  <2>3. outcome = "completed" => (wiped = {} => turn'[t].forwarded = turn'[t].sent)
    BY <1>2, <2>1
  <2>4. /\ outcome = "completed" => turn'[t].answer # "none"
        /\ outcome = "failed" => turn'[t].answer = "error" /\ ~turn'[t].cancelling
        /\ outcome \in {"lost", "orphaned"} => turn'[t].cancelling \/ child'[turn'[t].gen] = "dead"
    BY <1>1, <1>2
  <2>5. wiped' = wiped /\ child' = child /\ turn'[t].outcome = outcome
    BY <1>1, <1>2
  <2> QED BY <2>2, <2>3, <2>4, <2>5 DEF OutcomesTrue
<1> QED BY <1>3, <1>4, <1>5, <1>6, <1>7

LEMMA PumpSound ==
    ASSUME TypeOK, Watchers, Sound, NEW t \in Turn, Pump(t)
    PROVE  Sound'
PROOF
<1>1. CASE ForwardUpdate(t) \/ BeginCancel(t)
  BY <1>1, ForwardSound
<1>2. CASE TakeAnswer(t)
  <2>1. /\ turn[t].pc = "prompting" /\ turn[t].answer \in {"stop", "error"}
        /\ turn[t].queued \in Nat /\ Release(t, Outcome(t), turn[t].queued)
    BY <1>2 DEF TakeAnswer, Pumping, TypeOK, TurnRecord
  <2>2. /\ Outcome(t) \in {"completed", "failed", "lost", "orphaned"}
        /\ Outcome(t) = "failed" => turn[t].answer = "error" /\ ~turn[t].cancelling
        /\ Outcome(t) \in {"lost", "orphaned"} => child[turn[t].gen] = "dead"
    BY <2>1 DEF Outcome
  <2> HIDE DEF Outcome
  <2> QED BY <2>1, <2>2, ReleaseSound
<1>3. CASE LosesChild(t)
  <2>1. /\ turn[t].pc = "prompting"
        /\ \/ watch[turn[t].gen] = "exited" /\ Release(t, "lost", 0)
           \/ turn[t].cancelling /\ Release(t, "orphaned", 0)
    BY <1>3 DEF LosesChild, Pumping
  <2>2. watch[turn[t].gen] = "exited" => child[turn[t].gen] = "dead"
    BY <2>1, TurnFields DEF Sound, Places, Watchers
  <2> QED BY <2>1, <2>2, ReleaseSound
<1>4. CASE SettleRecord(t)
  <2>1. /\ UNCHANGED <<child, generation, sessions, wiped>>
        /\ \A u \in Turn : u # t => turn'[u] = turn[u]
        /\ turn'[t] = [Over(t, "done") EXCEPT !.record = Verdict(turn[t].outcome)]
    BY <1>4 DEF SettleRecord, process, Rest, Steps, TypeOK
  <2>2. turn'[t].pc = "done"
    BY <2>1 DEF Over, NewTurn
  <2> QED BY <2>1, <2>2, Aside DEF Stands
<1>5. CASE EmitReturns(t)
  BY <1>5, EmitSound
<1> QED BY <1>1, <1>2, <1>3, <1>4, <1>5 DEF Pump

LEMMA ChildSound ==
    ASSUME TypeOK, Sound, NEW g \in Generation, ChildDies(g)
    PROVE  Sound'
PROOF
<1> USE DEF Sound
<1>1. /\ UNCHANGED <<generation, sessions, wiped>>
      /\ child' = [child EXCEPT ![g] = "dead"]
      /\ \A u \in Turn : \/ turn'[u] = turn[u]
                         \/ /\ turn[u].pc = "prompting" /\ turn[u].answer = "none"
                            /\ turn'[u] = [turn[u] EXCEPT !.answer = "error"]
  BY DEF ChildDies, Rest
<1>2. \A h \in Generation : child'[h] = child[h] \/ child'[h] = "dead"
  BY <1>1 DEF TypeOK
<1>3. \A u \in Turn :
        /\ turn'[u].pc = turn[u].pc /\ turn'[u].sid = turn[u].sid /\ turn'[u].gen = turn[u].gen
        /\ turn'[u].sent = turn[u].sent /\ turn'[u].queued = turn[u].queued
        /\ turn'[u].forwarded = turn[u].forwarded
        /\ turn[u].pc = "recording" => turn'[u] = turn[u]
        /\ turn'[u].outcome = turn[u].outcome
  BY ZenonT(60), <1>1, TurnShape
<1>4. \A u \in Turn : turn[u].pc \in {"prompting", "recording"} => turn[u].gen \in Generation
  BY TurnFields DEF Places
<1>5. Places'
  BY <1>1, <1>3 DEF Places
<1>6. Fresh'
  BY <1>1, <1>3 DEF Fresh
<1>7. Balance'
  BY <1>1, <1>3 DEF Balance
<1>8. SessionsOwned'
  BY <1>1, <1>2, <1>3, <1>4 DEF SessionsOwned, InLiveQueries
<1>9. OutcomesTrue'
  <2>1. ASSUME NEW u \in Turn, turn'[u].pc = "recording"
        PROVE  /\ turn[u].pc = "recording" /\ turn'[u] = turn[u]
               /\ child[turn[u].gen] = "dead" => child'[turn'[u].gen] = "dead"
    BY <1>2, <1>3, <1>4, <2>1
  <2>2. wiped' = wiped /\ OutcomesTrue
    BY <1>1
  <2> QED BY <2>1, <2>2 DEF OutcomesTrue
<1> QED BY <1>5, <1>6, <1>7, <1>8, <1>9

(* The table is emptied for a dead child: a turn of another one that was   *)
(* in it is remembered.                                                    *)
LEMMA WatcherSound ==
    ASSUME TypeOK, Watchers, Sound, NEW g \in Generation, Watcher(g)
    PROVE  Sound'
PROOF
<1> USE DEF Sound
<1>1. CASE WatchClears(g)
  <2>1. UNCHANGED <<child, generation, sessions, wiped, turn>>
    BY <1>1 DEF WatchClears, Rest
  <2> QED BY <2>1 DEF Places, Fresh, Balance, SessionsOwned, InLiveQueries, OutcomesTrue
<1>2. CASE HandleCrash(g)
  <2>1. UNCHANGED <<child, generation, turn>> /\ child[g] = "dead" /\ wiped \subseteq wiped'
    BY <1>2 DEF HandleCrash, Watchers
  <2>2. Places' /\ Fresh'
    BY <2>1 DEF Places, Fresh
  <2>3. Balance'
    BY <2>1 DEF Balance
  <2>4. ASSUME NEW u \in Turn, turn[u].pc = "prompting", u \notin wiped', child[turn[u].gen] = "alive"
        PROVE  FALSE
    <3>1. sessions[turn[u].sid] = u /\ turn[u].sid \in Session /\ turn[u].gen # g
      BY <2>1, <2>4 DEF SessionsOwned, InLiveQueries, Places
    <3> QED BY <1>2, <2>4, <3>1 DEF HandleCrash
  <2>5. SessionsOwned'
    BY <2>1, <2>4 DEF SessionsOwned, InLiveQueries
  <2>6. OutcomesTrue'
    BY <2>1 DEF OutcomesTrue
  <2> QED BY <2>2, <2>3, <2>5, <2>6
<1> QED BY <1>1, <1>2 DEF Watcher

(* An update joins the queue of the turn that the table names; while       *)
(* nothing was wiped this is the turn it was sent to.                      *)
LEMMA DispatchSound ==
    ASSUME TypeOK, Sound, NEW t \in Turn, DispatchUpdate(t)
    PROVE  Sound'
PROOF
<1> USE DEF Sound
<1> DEFINE heard == sessions[turn[t].sid]
<1>1. /\ UNCHANGED <<child, generation, sessions, wiped>>
      /\ turn[t].pc = "prompting" /\ child[turn[t].gen] = "alive"
      /\ \A u \in Turn : turn'[u] =
             IF u = t THEN [turn[u] EXCEPT !.sent = @ + 1, !.queued = IF heard = t THEN @ + 1 ELSE @]
             ELSE IF u = heard THEN [turn[u] EXCEPT !.queued = @ + 1] ELSE turn[u]
  BY DEF DispatchUpdate, process
<1>2. \A u \in Turn :
        /\ turn'[u].pc = turn[u].pc /\ turn'[u].sid = turn[u].sid /\ turn'[u].gen = turn[u].gen
        /\ turn'[u].outcome = turn[u].outcome /\ turn'[u].answer = turn[u].answer
        /\ turn'[u].cancelling = turn[u].cancelling /\ turn'[u].forwarded = turn[u].forwarded
        /\ u # t => turn'[u].sent = turn[u].sent
        /\ u # t /\ u # heard => turn'[u].queued = turn[u].queued
  BY ZenonT(60), <1>1, TurnShape
<1>3. Places'
  BY ZenonT(60), <1>1, <1>2 DEF Places
<1>4. SessionsOwned'
  BY <1>1, <1>2 DEF SessionsOwned, InLiveQueries
<1>5. wiped = {} => heard = t
  BY <1>1 DEF SessionsOwned, InLiveQueries
<1>6. heard = t => turn'[t].sent = turn[t].sent + 1 /\ turn'[t].queued = turn[t].queued + 1
  BY <1>1, TurnShape
<1>7. Fresh'
  BY ZenonT(60), <1>1, <1>2, <1>5 DEF Fresh
<1>8. Balance'
  <2>1. ASSUME wiped = {}, NEW u \in Turn, turn'[u].pc = "prompting"
        PROVE  turn'[u].forwarded + turn'[u].queued = turn'[u].sent
    <3>1. turn[u].forwarded + turn[u].queued = turn[u].sent /\ heard = t
      BY <1>2, <1>5, <2>1 DEF Balance
    <3>2. CASE u = t
      <4>1. /\ turn'[t].forwarded = turn[t].forwarded /\ turn[t].forwarded \in Nat
            /\ turn[t].queued \in Nat /\ turn[t].sent \in Nat
        BY <1>2, TurnFields
      <4> HIDE DEF heard
      <4> QED BY <1>6, <3>1, <3>2, <4>1
    <3>3. CASE u # t
      BY <1>2, <3>1, <3>3
    <3> QED BY <3>2, <3>3
  <2> QED BY <1>1, <2>1 DEF Balance
<1>9. OutcomesTrue'
  <2>1. ASSUME NEW u \in Turn, turn'[u].pc = "recording"
        PROVE  turn[u].pc = "recording" /\ u # t /\ turn'[u].sent = turn[u].sent
    BY <1>1, <1>2, <2>1
  <2>2. wiped' = wiped /\ child' = child /\ OutcomesTrue
    BY <1>1
  <2> QED BY <1>2, <2>1, <2>2 DEF OutcomesTrue
<1> QED BY <1>3, <1>4, <1>7, <1>8, <1>9

LEMMA ShutdownSound ==
    ASSUME Sound, BeginShutdown \/ StopProcess \/ UNCHANGED vars
    PROVE  Sound'
PROOF
<1>1. UNCHANGED <<child, generation, sessions, wiped, turn>>
  BY DEF BeginShutdown, StopProcess, process, vars
<1> QED BY <1>1 DEF Sound, Places, Fresh, Balance, SessionsOwned, InLiveQueries, OutcomesTrue

-----------------------------------------------------------------------------
(* The theorems. *)

LEMMA InvInit == Init => IInv
PROOF
<1> SUFFICES ASSUME Init PROVE IInv
  OBVIOUS
<1>1. \A t \in Turn : turn[t] = NewTurn
  BY DEF Init
<1>2. Sound
  BY <1>1 DEF NewTurn, Sound, Places, Fresh, Balance, SessionsOwned, InLiveQueries, OutcomesTrue
<1>3. Watchers
  BY DEF Init, Watchers
<1> QED BY <1>2, <1>3, TypeInit DEF IInv

LEMMA InvStep == IInv /\ [Next]_vars => IInv'
PROOF
<1> SUFFICES ASSUME IInv, [Next]_vars PROVE IInv'
  OBVIOUS
<1> USE DEF IInv
<1>1. TypeOK' /\ Watchers'
  BY TypeStep, WatchersStep DEF Sound
<1>2. ASSUME NEW t \in Turn, \/ StartTurn(t) \/ Start(t) \/ GiveUpWaiting(t) \/ Pump(t)
                             \/ DispatchUpdate(t) \/ AnswerPrompt(t) \/ CancelQuery(t)
                             \/ EmitReturns(t)
      PROVE  Sound'
  BY <1>2, StartSound, PublishSound, OpenSound, ChildStartsSound, RegisterSound, ForwardSound,
     PumpSound, DispatchSound, EmitSound DEF Start
<1>3. ASSUME NEW g \in Generation, ChildDies(g) \/ Watcher(g) PROVE Sound'
  BY <1>3, ChildSound, WatcherSound
<1>4. CASE BeginShutdown \/ StopProcess \/ UNCHANGED vars
  BY <1>1, <1>4, ShutdownSound
<1> QED BY <1>1, <1>2, <1>3, <1>4 DEF Next

LEMMA TrueByOutcome == TypeOK /\ Places /\ OutcomesTrue => RecordsTrue
PROOF
<1> SUFFICES ASSUME TypeOK, Places, OutcomesTrue, NEW t \in Turn, turn[t].pc = "recording"
             PROVE  CASE Verdict(turn[t].outcome) = "settled" ->
                           /\ turn[t].answer # "none"
                           /\ wiped = {} => turn[t].forwarded = turn[t].sent
                      [] Verdict(turn[t].outcome) = "failed" ->
                           turn[t].answer = "error" /\ ~turn[t].cancelling
                      [] Verdict(turn[t].outcome) = "lost" ->
                           turn[t].cancelling \/ child[turn[t].gen] = "dead"
  BY DEF RecordsTrue
<1>1. turn[t].outcome \in {"completed", "failed", "lost", "orphaned"}
  BY DEF Places, TypeOK, TurnRecord
<1>2. CASE turn[t].outcome = "completed"
  BY <1>2 DEF OutcomesTrue, Verdict
<1>3. CASE turn[t].outcome = "failed"
  BY <1>3 DEF OutcomesTrue, Verdict
<1>4. CASE turn[t].outcome \in {"lost", "orphaned"}
  BY <1>4 DEF OutcomesTrue, Verdict
<1> QED BY <1>1, <1>2, <1>3, <1>4

(* Whatever the child, its watcher, the callers and Shutdown do, a turn    *)
(* that runs on a living child is the one its session names, unless the    *)
(* table was emptied for another child; and what the record of an ended    *)
(* turn will say is what happened: settled only when the agent answered    *)
(* and every update it had sent was forwarded, failed only without a       *)
(* cancellation, lost only when the child died or ignored a cancellation   *)
(* (service.go:560-740, process.go:200-215).                               *)
THEOREM TurnsAreAccounted == Spec => []TurnsAccounted
PROOF
<1>1. IInv => TurnsAccounted
  BY TrueByOutcome DEF IInv, Sound, TurnsAccounted
<1> QED BY <1>1, InvInit, InvStep, PTL DEF Spec
===============================================================================
