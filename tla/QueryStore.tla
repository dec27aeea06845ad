------------------------------ MODULE QueryStore ------------------------------
(***************************************************************************)
(* The event records of agent queries: the store                           *)
(* (src/internal/agent/query_store.go), the writer of a running turn       *)
(* (query_writer.go), the segments on disk (query_record.go) and the       *)
(* observers of ObserveQuery (service.go).                                 *)
(*                                                                         *)
(* Concurrent: the pump of each turn, which appends frames and ends the    *)
(* record; the observers, which attach, read segments from disk while the  *)
(* record grows and is pruned, then drain their subscription; the garbage  *)
(* collector, which removes a record file by file.  The controller ends    *)
(* and restarts at any point.  A step is what a handler does under one     *)
(* hold of store.mu or of the writer's mu, or one file it opens or removes.*)
(*                                                                         *)
(* Abstractions.  A frame is its sequence and weighs one; a segment is its *)
(* base and how many whole frames it holds, a fragment after the last is   *)
(* "torn".  Of a state file only what replay tells apart is kept.          *)
(***************************************************************************)
EXTENDS Integers, FiniteSets, Sequences, SequencesExt, FiniteSetsExt

CONSTANTS
    Query,              \* identifiers newQueryUUID draws
    OldQuery,           \* bound: those that left a settled record of one frame
    Observer,
    SegmentBytes,       \* config, at least 1
    MaxBytesPerQuery,   \* config
    MaxTotalBytes,      \* config
    MaxObservers,       \* config
    ObserverBuffer,     \* queryObserverBuffer
    MaxFrames,          \* bound: frames of all queries
    MaxTroubles,        \* bound: crashes and failing calls of the system
    MaxObserved         \* bound: calls to ObserveQuery

ASSUME QueryAssumption ==
    /\ {SegmentBytes, MaxBytesPerQuery, MaxTotalBytes, MaxObservers, ObserverBuffer} \subseteq Nat
    /\ SegmentBytes > 0 /\ SegmentBytes <= MaxBytesPerQuery
    /\ MaxBytesPerQuery <= MaxTotalBytes
    /\ MaxObservers > 0 /\ ObserverBuffer > 0
    /\ "none" \notin Query /\ OldQuery \subseteq Query
    /\ IsFiniteSet(Query) /\ IsFiniteSet(Observer)

VARIABLES
    disk,       \* each record directory: its state file and segments
    writer,     \* the QueryWriter of each query
    live,       \* store.live
    settled,    \* store.settled, by settledAt: a sequence of queries
    totalSet,   \* store.totalSet
    aged,       \* queries settled for RetentionAfterSettle
    gc,         \* the records a sweep has still to remove
    phase,      \* "serving", "stopping" (the service closed stop), "down"
    obs,        \* the call of each observer
    abandoned,  \* fills of the subscriptions of callers that left, per query
    givenUp,    \* ghost: records no longer kept, or that recovery could not save
    frames, troubles, observed

vars == <<disk, writer, live, settled, totalSet, aged, gc, phase, obs,
          abandoned, givenUp, frames, troubles, observed>>

Terminal == {"settled", "failed", "lost"}    \* "failed": settled with an error

NoRecord == [state |-> "absent", earliest |-> 0, next |-> 0, since |-> 0,
             segs |-> <<>>, torn |-> FALSE]
NoWriter == [finished |-> TRUE, state |-> "absent", earliest |-> 0, next |-> 0,
             stuck |-> FALSE, subs |-> {}, pump |-> "none"]
Idle == [pc |-> "idle", query |-> "none", at |-> 0, to |-> 0, snap |-> "none",
         list |-> <<>>, buf |-> <<>>, sub |-> "none", lags |-> FALSE,
         end |-> "none", whole |-> TRUE]

Held(segs) == FoldLeft(LAMBDA n, s : n + s.count, 0, segs)
EndOf(segs) == IF segs = <<>> THEN 0 ELSE Last(segs).base + Last(segs).count
StartOf(segs) == IF segs = <<>> THEN 0 ELSE Head(segs).base
Now == 1 + Max({disk[q].since : q \in Query})    \* settledAt orders the records

Trouble == troubles < MaxTroubles /\ troubles' = troubles + 1

-----------------------------------------------------------------------------
(* The pump of a turn *)

(* QueryStore.Begin, to the state file *)
BeginRecord(q) ==
    /\ phase = "serving" /\ disk[q] = NoRecord /\ writer[q].pump = "none"
    /\ q \notin givenUp
    /\ disk' = [disk EXCEPT ![q].state = "running"]
    /\ writer' = [writer EXCEPT ![q].pump = "beginning"]
    /\ UNCHANGED <<live, settled, totalSet, aged, gc, phase, obs, abandoned,
                   givenUp, frames, troubles, observed>>

(* newQueryWriter opens the first segment, and the record is live *)
BeginWriter(q) ==
    /\ writer[q].pump = "beginning"
    /\ \/ /\ disk' = [disk EXCEPT ![q].segs = <<[base |-> 0, count |-> 0]>>]
          /\ writer' = [writer EXCEPT ![q] =
                [@ EXCEPT !.finished = FALSE, !.state = "running", !.pump = "running"]]
          /\ live' = live \cup {q}
          /\ UNCHANGED <<givenUp, troubles>>
       \/ /\ Trouble
          /\ disk' = [disk EXCEPT ![q] = NoRecord]
          /\ writer' = [writer EXCEPT ![q].pump = "done"]
          /\ givenUp' = givenUp \cup {q}
          /\ UNCHANGED live
    /\ UNCHANGED <<settled, totalSet, aged, gc, phase, obs, abandoned, frames, observed>>

(* rotateLocked: a full segment is closed and the next one opened *)
Rotated(segs, next) ==
    IF Last(segs).count >= SegmentBytes
    THEN Append(segs, [base |-> next, count |-> 0]) ELSE segs

(* enforceCapLocked drops head segments, never the newest *)
Capped(segs) ==
    LET fits(i) == Held(SubSeq(segs, i, Len(segs))) <= MaxBytesPerQuery \/ i = Len(segs)
    IN  SubSeq(segs, CHOOSE i \in DOMAIN segs :
                        fits(i) /\ \A j \in 1..(i - 1) : ~fits(j), Len(segs))

(* publishLocked: an observer whose buffer is full is kicked *)
Full(o) == Len(obs[o].buf) = ObserverBuffer
Published(q, frame) ==
    [o \in Observer |->
        IF o \notin writer[q].subs THEN obs[o]
        ELSE IF Full(o) THEN [obs[o] EXCEPT !.sub = "closed", !.lags = TRUE]
        ELSE [obs[o] EXCEPT !.buf = Append(@, frame)]]
StillRoom(fills) ==
    FoldLeft(LAMBDA room, n : IF n < ObserverBuffer THEN Append(room, n + 1) ELSE room, <<>>, fills)

(* Append of the turn's next frame *)
AppendFrame(q) ==
    /\ writer[q].pump = "running" /\ ~writer[q].stuck /\ frames < MaxFrames
    /\ LET next  == writer[q].next
           grown == LET segs == Rotated(disk[q].segs, next)
                    IN  [segs EXCEPT ![Len(segs)].count = @ + 1]
           kept  == Capped(grown)
       IN  /\ disk' = [disk EXCEPT ![q].segs = kept]
           /\ writer' = [writer EXCEPT
                ![q].next = next + 1, ![q].earliest = Head(kept).base,
                ![q].subs = {o \in @ : ~Full(o)}]
           /\ obs' = Published(q, next)
    /\ abandoned' = [abandoned EXCEPT ![q] = StillRoom(@)]
    /\ frames' = frames + 1
    /\ UNCHANGED <<live, settled, totalSet, aged, gc, phase, givenUp, troubles, observed>>

(* An Append that fails, in a rotation or a flush: the pump's sequence runs *)
(* ahead of the record's and no later frame is accepted.                    *)
AppendFails(q) ==
    /\ writer[q].pump = "running" /\ ~writer[q].stuck /\ Trouble
    /\ \E torn \in BOOLEAN : disk' = [disk EXCEPT ![q].torn = torn]
    /\ writer' = [writer EXCEPT ![q].stuck = TRUE]
    /\ UNCHANGED <<live, settled, totalSet, aged, gc, phase, obs, abandoned,
                   givenUp, frames, observed>>

(* finish, to the unlock: Settle, Fail or Lost *)
Finish(q, outcome) ==
    /\ writer[q].pump = "running" /\ ~writer[q].finished
    /\ \/ /\ disk' = [disk EXCEPT ![q] = [@ EXCEPT !.state = outcome, !.since = Now,
                            !.earliest = writer[q].earliest, !.next = writer[q].next]]
          /\ writer' = [writer EXCEPT ![q] = [@ EXCEPT !.finished = TRUE,
                            !.state = outcome, !.pump = "ending"]]
          /\ UNCHANGED troubles
       \/ /\ Trouble        \* writeQueryState fails: nobody is told
          /\ writer' = [writer EXCEPT ![q] = [@ EXCEPT !.finished = TRUE,
                            !.state = outcome, !.pump = "done"]]
          /\ UNCHANGED disk
    /\ UNCHANGED <<live, settled, totalSet, aged, gc, phase, obs, abandoned,
                   givenUp, frames, observed>>

(* mutant: the subscribers are forgotten, not ended *)
DropSubscriber(q, o) ==
    /\ writer[q].pump = "ending" /\ o \in writer[q].subs
    /\ writer' = [writer EXCEPT ![q].subs = {}]
    /\ UNCHANGED <<disk, live, settled, totalSet, aged, gc, phase, obs, abandoned,
                   givenUp, frames, troubles, observed>>

(* finish: end(nil) for each subscriber *)
EndSubscriber(q, o) ==
    /\ writer[q].pump = "ending" /\ o \in writer[q].subs
    /\ obs' = [obs EXCEPT ![o].sub = "closed"]
    /\ writer' = [writer EXCEPT ![q].subs = @ \ {o}]
    /\ UNCHANGED <<disk, live, settled, totalSet, aged, gc, phase, abandoned,
                   givenUp, frames, troubles, observed>>

(* settleRecord, the last step of finish *)
SettleRecord(q) ==
    /\ writer[q].pump = "ending" /\ writer[q].subs = {}
    /\ live' = live \ {q}
    /\ settled' = Append(settled, q)
    /\ totalSet' = totalSet + Held(disk[q].segs)
    /\ writer' = [writer EXCEPT ![q].pump = "done"]
    /\ abandoned' = [abandoned EXCEPT ![q] = <<>>]
    /\ UNCHANGED <<disk, aged, gc, phase, obs, givenUp, frames, troubles, observed>>

-----------------------------------------------------------------------------
(* ObserveQuery *)

Ended(o, how) == [obs[o] EXCEPT !.pc = "ended", !.end = how]
Replaying(call, from, to, state, sub) ==
    IF from > to THEN [call EXCEPT !.pc = "ended", !.end = "sequence"]
    ELSE [call EXCEPT !.pc = IF to > from THEN "listing" ELSE "replayed",
                      !.at = from, !.to = to, !.snap = state, !.sub = sub]

(* A caller's subscription stays registered when its call returns early. *)
Leave(o) ==
    IF obs[o].sub # "open" THEN UNCHANGED <<writer, abandoned>>
    ELSE LET q == obs[o].query
         IN  /\ writer' = [writer EXCEPT ![q].subs = @ \ {o}]
             /\ abandoned' = [abandoned EXCEPT ![q] = Append(@, Len(obs[o].buf))]
Stay == UNCHANGED <<writer, abandoned>>

(* QueryStore.Attach: a live record is left to its writer, any other is *)
(* served from what its state file says.  Clients know the identifiers  *)
(* that Begin returned, or that a recovered record is listed under.     *)
ObserveQuery(o, q, from) ==
    /\ phase # "down" /\ obs[o].pc = "idle" /\ observed < MaxObserved
    /\ writer[q].pump \notin {"none", "beginning"}
    /\ observed' = observed + 1
    /\ LET called == [Idle EXCEPT !.query = q, !.at = from]
       IN  obs' = [obs EXCEPT ![o] =
             IF q \in live THEN [called EXCEPT !.pc = "found"]
             ELSE IF disk[q].state \notin Terminal
                  THEN [called EXCEPT !.pc = "ended", !.end = "notfound"]
             ELSE Replaying(called, from, disk[q].next, disk[q].state, "none")]
    /\ UNCHANGED <<disk, writer, live, settled, totalSet, aged, gc, phase,
                   abandoned, givenUp, frames, troubles>>

(* The rest of a call changes the call and the writer's subscribers only. *)
Serving == UNCHANGED <<disk, live, settled, totalSet, aged, gc, phase,
                       givenUp, frames, troubles, observed>>

(* QueryWriter.Attach: the window is pinned and the observer registered  *)
(* under one lock; a record that finished meanwhile is served from disk. *)
(* mutant: the limit of observers is not looked at *)
RegistersAny(o, q) ==
    ~writer[q].finished /\ writer[q].earliest <= obs[o].at /\ obs[o].at <= writer[q].next
Registers(o, q) ==
    /\ ~writer[q].finished /\ writer[q].earliest <= obs[o].at /\ obs[o].at <= writer[q].next
    /\ Cardinality(writer[q].subs) + Len(abandoned[q]) < MaxObservers
AttachWriter(o) ==
    LET q == obs[o].query
        from == obs[o].at
        w == writer[q]
    IN  /\ obs[o].pc = "found"
        /\ obs' = [obs EXCEPT ![o] =
              IF from < w.earliest THEN Ended(o, "pruned")
              ELSE IF Registers(o, q) \/ w.finished \/ from > w.next
                   THEN Replaying(@, from, w.next, w.state, IF w.finished THEN "none" ELSE "open")
              ELSE Ended(o, "limit")]
        /\ writer' = IF Registers(o, q) THEN [writer EXCEPT ![q].subs = @ \cup {o}] ELSE writer
        /\ UNCHANGED abandoned
        /\ Serving

(* ReadFrames and listQuerySegments up to the names in the directory: the *)
(* look whether the record is there says that it is not found, the read of *)
(* a directory that is gone since is an internal error.                    *)
ListSegments(o) ==
    LET q == obs[o].query
    IN  /\ obs[o].pc = "listing"
        /\ IF disk[q] = NoRecord
           THEN /\ \E how \in {"notfound", "internal"} : obs' = [obs EXCEPT ![o] = Ended(o, how)]
                /\ Leave(o)
           ELSE /\ obs' = [obs EXCEPT ![o].pc = "listed",
                        ![o].list = [i \in DOMAIN disk[q].segs |-> disk[q].segs[i].base]]
                /\ Stay
        /\ Serving

(* listQuerySegments asks for each name's file, which may be gone by then. *)
(* A removed file never comes back, so one look at all of them has every   *)
(* outcome.                                                                *)
Opened(q, base) == {i \in DOMAIN disk[q].segs : disk[q].segs[i].base = base}
Vanished(o) == \E i \in DOMAIN obs[o].list : Opened(obs[o].query, obs[o].list[i]) = {}
StatSegments(o) ==
    /\ obs[o].pc = "listed"
    /\ IF Vanished(o)
       THEN obs' = [obs EXCEPT ![o] = Ended(o, "internal")] /\ Leave(o)
       ELSE obs' = [obs EXCEPT ![o].pc = "reading"] /\ Stay
    /\ Serving

(* replayQuerySegments, one segment of the listing: its file may be gone, *)
(* or hold more than when it was listed.                                  *)
ReadSegment(o) ==
    LET q == obs[o].query
        at == obs[o].at
        base == Head(obs[o].list)
        held(i) == Min({base + disk[q].segs[i].count, obs[o].to})
    IN  /\ obs[o].pc = "reading"
        /\ IF at >= obs[o].to \/ obs[o].list = <<>>
           THEN obs' = [obs EXCEPT ![o].pc = "replayed", ![o].list = <<>>] /\ Stay
           ELSE IF base > at \/ Opened(q, base) = {}
           THEN obs' = [obs EXCEPT ![o] = Ended(o, "pruned")] /\ Leave(o)
           ELSE /\ \E i \in Opened(q, base) :
                     obs' = [obs EXCEPT ![o] = [obs[o] EXCEPT !.list = Tail(obs[o].list),
                                                              !.at = Max({at, held(i)})]]
                /\ Stay
        /\ Serving

(* What was on disk is sent.  A record that was not live ends the call with *)
(* its end marker or with the error of its turn; a live one is followed,    *)
(* whether the caller asked for it or not.                                  *)
EndOfTurn(state) == IF state = "settled" THEN "settled" ELSE "error"
Replayed(o) ==
    /\ obs[o].pc = "replayed"
    /\ obs' = [obs EXCEPT ![o] =
          IF @.sub = "none" THEN Ended(o, EndOfTurn(@.snap))
          ELSE [@ EXCEPT !.pc = "live", !.at = obs[o].to, !.whole = obs[o].at = obs[o].to]]
    /\ Stay /\ Serving

(* A frame of the subscription; delivered moves past it *)
ReceiveFrame(o) ==
    /\ obs[o].pc = "live" /\ obs[o].buf # <<>>
    /\ obs' = [obs EXCEPT ![o] = [obs[o] EXCEPT
                    !.whole = obs[o].whole /\ Head(obs[o].buf) = obs[o].at,
                    !.at = Head(obs[o].buf) + 1, !.buf = Tail(obs[o].buf)]]
    /\ Stay /\ Serving

(* mutant: the end is looked for before the frames are drained *)
EndsUndrained(o) ==
    LET q == obs[o].query
        state == IF q \in live THEN writer[q].state ELSE disk[q].state
    IN  /\ obs[o].pc = "live" /\ obs[o].sub = "closed"
        /\ obs' = [obs EXCEPT ![o] = Ended(o, IF obs[o].lags THEN "lag" ELSE EndOfTurn(state))]
        /\ Stay /\ Serving

(* The frames are closed: the observer lagged, or Stat has the outcome. *)
SubscriptionEnds(o) ==
    LET q == obs[o].query
        state == IF q \in live THEN writer[q].state ELSE disk[q].state
    IN  /\ obs[o].pc = "live" /\ obs[o].buf = <<>> /\ obs[o].sub = "closed"
        /\ obs' = [obs EXCEPT ![o] = Ended(o,
              IF obs[o].lags THEN "lag"
              ELSE IF state \in Terminal THEN EndOfTurn(state) ELSE "notfound")]
        /\ Stay /\ Serving

(* The service stops, or the caller is gone. *)
Interrupted(o) ==
    /\ \/ obs[o].pc = "live" /\ phase = "stopping" /\ obs' = [obs EXCEPT ![o] = Ended(o, "shutdown")]
       \/ obs[o].pc \in {"listing", "listed", "reading", "replayed", "live"} /\ obs' = [obs EXCEPT ![o] = Idle]
    /\ Leave(o) /\ Serving

ObserveAgain(o) ==
    /\ obs[o].pc = "ended"
    /\ obs' = [obs EXCEPT ![o] = Idle]
    /\ Stay /\ Serving

-----------------------------------------------------------------------------
(* Retention *)

(* The clock passes settledAt + RetentionAfterSettle. *)
Age(q) ==
    /\ q \in Range(settled) \ aged
    /\ aged' = aged \cup {q}
    /\ UNCHANGED <<disk, writer, live, settled, totalSet, gc, phase, obs,
                   abandoned, givenUp, frames, troubles, observed>>

(* RunGC, under the lock: expired records, then the oldest while the count *)
(* that settlements add to, and no removal takes from, exceeds the cap.    *)
Bytes(q) == Held(disk[q].segs)
BytesOf(list) == FoldLeft(LAMBDA n, q : n + Bytes(q), 0, list)
SettledIn(S) == FoldLeft(LAMBDA list, q : IF q \in S THEN Append(list, q) ELSE list, <<>>, settled)
RunGC ==
    LET expired == SettledIn(aged)
        rest == SettledIn(Query \ aged)
        fits(n) == totalSet - BytesOf(expired) - BytesOf(SubSeq(rest, 1, n)) <= MaxTotalBytes
        oldest == CHOOSE n \in 0..Len(rest) :
                      (fits(n) \/ n = Len(rest)) /\ \A m \in 0..(n - 1) : ~fits(m)
        out == expired \o SubSeq(rest, 1, oldest)
    IN  /\ phase # "down" /\ gc = <<>> /\ out # <<>>
        /\ gc' = out
        /\ UNCHANGED <<disk, writer, live, settled, totalSet, aged, phase, obs,
                       abandoned, givenUp, frames, troubles, observed>>

(* RunGC, one record: it leaves the table, *)
ForgetRecord(q) ==
    /\ gc # <<>> /\ q = Head(gc)
    /\ \E i \in DOMAIN settled : settled[i] = q /\ settled' = RemoveAt(settled, i)
    /\ givenUp' = givenUp \cup {q}
    /\ UNCHANGED <<disk, writer, live, totalSet, aged, gc, phase, obs,
                   abandoned, frames, troubles, observed>>

(* and RemoveAll takes its files, in no order, or fails. *)
RemoveFile(q) ==
    /\ gc # <<>> /\ q = Head(gc) /\ q \notin Range(settled)
    /\ \/ /\ \E i \in DOMAIN disk[q].segs : disk' = [disk EXCEPT ![q].segs = RemoveAt(@, i)]
          /\ UNCHANGED <<gc, troubles>>
       \/ /\ disk[q].state # "unreadable"
          /\ disk' = [disk EXCEPT ![q].state = "unreadable"]
          /\ UNCHANGED <<gc, troubles>>
       \/ /\ disk[q].segs = <<>> /\ disk[q].state = "unreadable"
          /\ disk' = [disk EXCEPT ![q] = NoRecord]
          /\ gc' = Tail(gc) /\ UNCHANGED troubles
       \/ Trouble /\ gc' = Tail(gc) /\ UNCHANGED disk
    /\ UNCHANGED <<writer, live, settled, totalSet, aged, phase, obs,
                   abandoned, givenUp, frames, observed>>

-----------------------------------------------------------------------------
(* The controller's life *)

(* Service.Shutdown closes stop: no turn begins, those that run still end. *)
Stop ==
    /\ phase = "serving" /\ Trouble
    /\ phase' = "stopping"
    /\ UNCHANGED <<disk, writer, live, settled, totalSet, aged, gc, obs,
                   abandoned, givenUp, frames, observed>>

(* The process ends, by itself or after a shutdown; an append under way *)
(* leaves a fragment.                                                   *)
Exit ==
    /\ \/ phase = "serving" /\ Trouble
       \/ phase = "stopping" /\ UNCHANGED troubles
    /\ phase' = "down"
    /\ \E cut \in SUBSET {q \in live : ~writer[q].finished} :
            disk' = [q \in Query |-> IF q \in cut THEN [disk[q] EXCEPT !.torn = TRUE] ELSE disk[q]]
    /\ writer' = [q \in Query |-> IF writer[q].pump = "none" THEN NoWriter
                                  ELSE [NoWriter EXCEPT !.pump = "done"]]
    /\ live' = {} /\ settled' = <<>> /\ totalSet' = 0 /\ gc' = <<>>
    /\ obs' = [o \in Observer |-> Idle]
    /\ abandoned' = [q \in Query |-> <<>>]
    /\ UNCHANGED <<aged, givenUp, frames, observed>>

(* recoverDirectory: a fragment is cut off; a record that was running is *)
(* lost, with the window its segments hold.                              *)
Unscanned(q) ==          \* mutant: the window of the old state file is kept
    IF disk[q].state = "running"
    THEN [disk[q] EXCEPT !.state = "lost", !.torn = FALSE, !.since = Now] ELSE disk[q]
Recovered(q) ==
    IF disk[q].state = "running"
    THEN [disk[q] EXCEPT !.state = "lost", !.torn = FALSE, !.since = Now,
              !.earliest = StartOf(disk[q].segs), !.next = EndOf(disk[q].segs)]
    ELSE [disk[q] EXCEPT !.torn = FALSE]

(* OpenQueryStore: the records of the last life, oldest settlement first;  *)
(* one that had to be rewritten, or has lost its state file, counts as new.*)
(* A rewrite that fails is logged.                                         *)
Known == {q \in Query : disk[q] # NoRecord}
New == {q \in Known : disk[q].state \in {"running", "unreadable"}}
OpenQueryStore ==
    /\ phase = "down"
    /\ phase' = "serving"
    /\ \/ /\ disk' = [q \in Query |-> Recovered(q)]
          /\ UNCHANGED <<givenUp, troubles>>
       \/ /\ Trouble
          /\ \E q \in Known : /\ disk[q].state = "running"
                              /\ disk' = [[p \in Query |-> Recovered(p)] EXCEPT ![q] = 
                                            [disk[q] EXCEPT !.torn = FALSE]]
                              /\ givenUp' = givenUp \cup {q}
    /\ \E old \in SetToSeqs(Known \ New), order \in SetToSeqs(New) :
            /\ \A i, j \in DOMAIN old : i < j => disk[old[i]].since <= disk[old[j]].since
            /\ settled' = old \o order
    /\ totalSet' = MapThenSumSet(Bytes, Known)
    /\ aged' = aged \ New
    /\ UNCHANGED <<writer, live, gc, obs, abandoned, frames, observed>>

OldRecord == [NoRecord EXCEPT !.state = "settled", !.next = 1, !.since = 1,
                              !.segs = <<[base |-> 0, count |-> 1]>>]
Init ==
    /\ disk = [q \in Query |-> IF q \in OldQuery THEN OldRecord ELSE NoRecord]
    /\ writer = [q \in Query |-> IF q \in OldQuery THEN [NoWriter EXCEPT !.pump = "done"]
                                 ELSE NoWriter]
    /\ live = {} /\ settled \in SetToSeqs(OldQuery) /\ totalSet = Cardinality(OldQuery)
    /\ aged = {} /\ gc = <<>> /\ givenUp = {}
    /\ phase = "serving"
    /\ obs = [o \in Observer |-> Idle]
    /\ abandoned = [q \in Query |-> <<>>]
    /\ frames = 0 /\ troubles = 0 /\ observed = 0

Finishes(q) == \E outcome \in Terminal : Finish(q, outcome)
Ending(q) == SettleRecord(q) \/ \E o \in Observer : EndSubscriber(q, o)
Turn(q) == BeginRecord(q) \/ BeginWriter(q) \/ AppendFrame(q) \/ AppendFails(q)
              \/ Finishes(q) \/ Ending(q)
Serve(o) == AttachWriter(o) \/ ListSegments(o) \/ StatSegments(o) \/ ReadSegment(o)
              \/ Replayed(o) \/ ReceiveFrame(o) \/ SubscriptionEnds(o)
Observe(o) == (\E q \in Query, from \in 0..MaxFrames : ObserveQuery(o, q, from))
              \/ Serve(o) \/ Interrupted(o) \/ ObserveAgain(o)
Retain(q) == Age(q) \/ ForgetRecord(q) \/ RemoveFile(q)
Next == \/ \E q \in Query : Turn(q) \/ Retain(q)
        \/ \E o \in Observer : Observe(o)
        \/ RunGC \/ Stop \/ Exit \/ OpenQueryStore

(* Goroutines that can run do: the one that ends a record, and the calls *)
(* that are being served.  No turn has to end and no caller has to stay. *)
Spec == /\ Init /\ [][Next]_vars
        /\ \A q \in Query : WF_vars(Ending(q))
        /\ \A o \in Observer : WF_vars(Serve(o))

-----------------------------------------------------------------------------
(* Properties *)

Segments == Seq([base : Nat, count : Nat])
TypeOK ==
    /\ disk \in [Query -> [state : Terminal \cup {"absent", "running", "unreadable"},
                           earliest : Nat, next : Nat, since : Nat,
                           segs : Segments, torn : BOOLEAN]]
    /\ writer \in [Query -> [finished : BOOLEAN, state : Terminal \cup {"absent", "running"},
                             earliest : Nat, next : Nat, stuck : BOOLEAN, subs : SUBSET Observer,
                             pump : {"none", "beginning", "running", "ending", "done"}]]
    /\ live \subseteq Query /\ settled \in Seq(Query) /\ IsInjective(settled)
    /\ totalSet \in Nat /\ aged \subseteq Query /\ gc \in Seq(Query)
    /\ phase \in {"serving", "stopping", "down"}
    /\ \A q \in Query : Cardinality(writer[q].subs) + Len(abandoned[q]) <= MaxObservers

(* What a record promises to replay is what its segments hold: they follow  *)
(* one another without a hole, a live or ended record's window is theirs,   *)
(* only the newest ends in a fragment, and every record that is kept is in  *)
(* exactly one of the tables of the store, across appends that fail, head   *)
(* retention, crashes and recovery (query_writer.go:84, query_store.go:233).*)
Window(q, earliest, next) ==
    /\ disk[q].segs = <<>> => earliest = 0 /\ next = 0
    /\ disk[q].segs # <<>> => earliest = StartOf(disk[q].segs) /\ next = EndOf(disk[q].segs)
RecordsWhole ==
    /\ TypeOK
    /\ \A q \in Query \ givenUp :
           /\ \A i \in 1..(Len(disk[q].segs) - 1) :
                   disk[q].segs[i + 1].base = disk[q].segs[i].base + disk[q].segs[i].count
           /\ disk[q].state \in Terminal => Window(q, disk[q].earliest, disk[q].next)
           /\ q \in live => Window(q, writer[q].earliest, writer[q].next)
           /\ (q \in live /\ disk[q].state = "running") => q \notin Range(settled)
           /\ (phase = "serving" /\ disk[q].state \in Terminal) => q \in live \cup Range(settled)

(* What an observer is told is true: it gets every frame from the sequence  *)
(* it asked for, in order and once, from disk and then live; an end marker  *)
(* comes after the last frame; a record is not found, its frames pruned, or *)
(* its listing fails, only when retention took frames of it                 *)
(* (service.go:449-550).  RemoveAll is not atomic: a record being removed   *)
(* is the exception.                                                        *)
ObserversServed ==
    \A o \in Observer : LET q == obs[o].query IN
        /\ obs[o].whole \/ q \in givenUp
        /\ (obs[o].end \in {"settled", "error"} /\ q \notin givenUp) =>
                obs[o].at = EndOf(disk[q].segs)
        /\ obs[o].end = "notfound" => q \in givenUp
        /\ obs[o].end \in {"pruned", "internal"} => StartOf(disk[q].segs) > 0 \/ q \in givenUp
        /\ obs[o].end = "lag" => obs[o].at < writer[q].next

(* Everyone who follows a turn whose outcome was saved hears of its end, *)
(* unless the caller leaves (query_writer.go:258, service.go:497).       *)
ObserversEnd ==
    \A o \in Observer, q \in Query :
        (obs[o].pc \notin {"idle", "ended"} /\ obs[o].query = q /\ disk[q].state \in Terminal)
            ~> obs[o].pc \in {"idle", "ended"}

=============================================================================
