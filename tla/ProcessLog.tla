----------------------------- MODULE ProcessLog -----------------------------
(***************************************************************************)
(* The segmented log of one process (internal/process/log_v2.go), the RPC  *)
(* that observes it (log_service.go) and the controller's own log built on *)
(* the same store (runtime_log.go).                                        *)
(*                                                                         *)
(* A log is a run of records with consecutive offsets, cut into segment    *)
(* files; segments before the last are sealed, the last may be active.     *)
(* Writers, the janitor and every observer take l.mu for a step of their   *)
(* own; an observer reads segment files without the lock, one at a time.   *)
(*                                                                         *)
(* Abstractions.  A record is its offset, its stream, the first offset of  *)
(* its line and whether it ends the line; its bytes are left out, so a     *)
(* segment header and a record are one unit of size each and the index     *)
(* files weigh nothing.  A call to write is one frame: a longer payload is *)
(* as many calls.  Timestamps, checksums and the offset index (a shortcut  *)
(* to the same record) are left out.                                       *)
(***************************************************************************)
EXTENDS Integers, FiniteSets, SequencesExt

CONSTANTS
    Readers,            \* ObserveProcessLogs calls
    Streams,            \* stdout and stderr
    MaxObservers,       \* LogConfig.MaxObservers
    SegmentBytes,       \* LogConfig.SegmentBytes, in units
    MaxBytesPerProcess, \* LogConfig.MaxBytesPerProcess, in units
    Owners,             \* whose log: "process", "controller"
    TailSizes,          \* the tail_lines that readers ask for
    MaxOffset,          \* bound: records ever written
    MaxCrashes,         \* bound: crashes of the controller
    MaxFaults           \* bound: failing file operations

ASSUME LogAssumption ==
    /\ MaxObservers \in Nat \ {0}
    /\ SegmentBytes \in Nat \ {0}
    /\ MaxBytesPerProcess \in Nat \ {0}
    /\ Owners \subseteq {"process", "controller"}
    /\ MaxOffset \in Nat /\ MaxCrashes \in Nat /\ MaxFaults \in Nat
    /\ TailSizes \subseteq Nat

VARIABLES
    owner,      \* whose log this is, for good
    log,        \* the processLog of the running controller
    disk,       \* segment files, by the offset in their name
    saved,      \* state.json
    status,     \* "open", "down" (crashed), "refused" (openProcessLog failed)
    obs,        \* observing calls
    crashes,    \* how often the controller crashed
    faults,     \* how many file operations failed
    floor,      \* history: the highest earliest offset any boot announced
    lossKnown   \* history: a write of some boot has failed

vars == <<owner, log, disk, saved, status, obs, crashes, faults, floor, lossKnown>>

Offsets == 0 .. MaxOffset

(***************************************************************************)
(* Records, lines, files and the state of the log.                         *)
(***************************************************************************)
Record == [offset : Offsets, line : Offsets, stream : Streams, ends : BOOLEAN]
Entry  == [start : Offsets, last : Offsets]
Line   == [open : BOOLEAN, start : Offsets, last : Offsets]
NoLine == [open |-> FALSE, start |-> 0, last |-> 0]

\* header: the segment header is complete; torn: bytes of a cut-off record
\* follow the last whole one; lines: the line index of each stream.
File == [header : BOOLEAN, recs : Seq(Record), torn : BOOLEAN,
         lines : [Streams -> Seq(Entry)]]

EmptyFile == [header |-> TRUE, recs |-> <<>>, torn |-> FALSE,
              lines |-> [s \in Streams |-> <<>>]]

Segment == [first : Offsets, next : Offsets]

processLog == [segments : Seq(Segment), active : BOOLEAN, earliest : Offsets,
               next : Offsets, finalized : BOOLEAN, complete : BOOLEAN,
               expired : BOOLEAN, writeErr : BOOLEAN, observers : Nat,
               lines : [Streams -> Line], hollow : BOOLEAN]

newProcessLog ==
    [segments |-> <<>>, active |-> FALSE, earliest |-> 0, next |-> 0,
     finalized |-> FALSE, complete |-> TRUE, expired |-> FALSE,
     writeErr |-> FALSE, observers |-> 0, lines |-> [s \in Streams |-> NoLine],
     hollow |-> FALSE]

processLogState == [earliest : Offsets, next : Offsets, complete : BOOLEAN,
                    expired : BOOLEAN]

StateOf(l) == [earliest |-> l.earliest, next |-> l.next,
               complete |-> l.complete, expired |-> l.expired]

(***************************************************************************)
(* What a call does to the store: a step of the code takes a store, the    *)
(* log in memory with its files and its state file, to the next one.       *)
(***************************************************************************)
Here == [log |-> log, disk |-> disk, saved |-> saved]

Commit(t) == log' = t.log /\ disk' = t.disk /\ saved' = t.saved

\* mutant: the state file is never brought up to date.
StateUnsaved(t) == t

writeState(t) == [t EXCEPT !.saved = StateOf(t.log)]

Newest(l) == l.segments[Len(l.segments)]

FileBytes(f) == 1 + Len(f.recs) + (IF f.torn THEN 1 ELSE 0)

diskBytes(segments, d) ==
    FoldSeq(LAMBDA seg, total : total + FileBytes(d[seg.first]), 0, segments)

removeSegments(t, k) ==
    LET gone == {t.log.segments[i].first : i \in 1 .. k}
    IN  [t EXCEPT !.log.segments = SubSeq(@, k + 1, Len(@)),
                  !.disk = [f \in DOMAIN @ \ gone |-> @[f]]]

firstOffset(l) == IF l.segments = <<>> THEN l.next ELSE l.segments[1].first

\* The segments trimLocked may delete: not the active one, and not the only
\* one of a log that is still written.
Trimmable(l) ==
    IF l.active \/ ~l.finalized THEN Len(l.segments) - 1 ELSE Len(l.segments)

TrimCount(t) ==
    CHOOSE k \in 0 .. Len(t.log.segments) :
        LET enough(j) ==
              \/ j >= Trimmable(t.log)
              \/ diskBytes(SubSeq(t.log.segments, j + 1, Len(t.log.segments)), t.disk)
                   <= MaxBytesPerProcess
        IN  enough(k) /\ \A j \in 0 .. k - 1 : ~enough(j)

\* mutant: segments are trimmed under the observers' feet.
trimObserved(t) ==
    LET u == removeSegments(t, TrimCount(t))
    IN  [u EXCEPT !.log.earliest = firstOffset(u.log)]

trim(t) ==
    IF t.log.observers > 0 THEN t
    ELSE LET u == removeSegments(t, TrimCount(t))
         IN  [u EXCEPT !.log.earliest = firstOffset(u.log)]

sealActive(t) ==
    IF t.log.active THEN writeState([t EXCEPT !.log.active = FALSE]) ELSE t

\* ensureActiveLocked, up to the creation of a segment.
MustRotate(l) ==
    /\ l.active
    /\ Newest(l).next > Newest(l).first
    /\ 1 + (Newest(l).next - Newest(l).first) + 1 > SegmentBytes

rotate(t) == IF MustRotate(t.log) THEN trim(sealActive(t)) ELSE t

\* O_EXCL: a file with the new segment's name is already there.
NameTaken(t) == ~t.log.active /\ t.log.next \in DOMAIN t.disk

AddFile(t, file) == [t EXCEPT !.disk = (t.log.next :> file) @@ @]

createSegment(t) ==
    IF t.log.active THEN t
    ELSE [AddFile(t, EmptyFile) EXCEPT
            !.log.active = TRUE,
            !.log.segments = Append(@, [first |-> t.log.next, next |-> t.log.next]),
            !.log.earliest = IF t.log.segments = <<>> THEN t.log.next ELSE @]

ensureActive(t) == createSegment(rotate(t))

\* The line the next record of stream s belongs to.
openLine(t, s) ==
    IF t.log.lines[s].open THEN t
    ELSE [t EXCEPT !.log.lines[s] = [@ EXCEPT !.open = TRUE, !.start = t.log.next]]

indexLine(file, s, entry) == [file EXCEPT !.lines[s] = Append(@, entry)]

appendRecord(t, s, ends) ==
    LET at   == Newest(t.log).first
        line == t.log.lines[s].start
        rec  == [offset |-> t.log.next, line |-> line, stream |-> s, ends |-> ends]
        file == [t.disk[at] EXCEPT !.recs = Append(@, rec)]
    IN  [t EXCEPT
           !.disk[at] = IF ends
                        THEN indexLine(file, s, [start |-> line, last |-> rec.offset])
                        ELSE file,
           !.log.segments[Len(t.log.segments)].next = rec.offset + 1,
           !.log.next = rec.offset + 1,
           !.log.lines[s] = IF ends THEN NoLine ELSE [@ EXCEPT !.last = rec.offset]]

Content(l, d) == FlattenSeq([i \in DOMAIN l.segments |-> d[l.segments[i].first].recs])

-----------------------------------------------------------------------------
(***************************************************************************)
(* Observers.  pc is the place in ObserveProcessLogs: "acquired" holds an  *)
(* observer slot, "ranged" has a range [cursor, end) to read, "reading"    *)
(* reads the remaining segs of it, "looking" is the head of the follow     *)
(* loop, "waiting" blocks on notify, "exited" waits for the process's      *)
(* terminal state, "leaving" has returned and runs the deferred release.   *)
(***************************************************************************)
Holding == {"acquired", "ranged", "reading", "looking", "waiting", "exited", "leaving"}

\* Calls that have announced a start to their client and go on reading.
Serving == {"ranged", "reading", "looking", "waiting", "exited"}

Observer == [pc : Holding \cup {"idle"}, follow : BOOLEAN,
             streams : SUBSET Streams, wanted : SUBSET Offsets,
             start : Offsets, replayEnd : Offsets, cursor : Offsets, end : Offsets,
             segs : Seq(Segment), sent : Seq(Record), notified : BOOLEAN,
             outcome : {"none", "range", "loss", "snapshot", "exited", "canceled"}]

IdleObserver == [pc |-> "idle", follow |-> FALSE, streams |-> {}, wanted |-> {},
                 start |-> 0, replayEnd |-> 0, cursor |-> 0, end |-> 0,
                 segs |-> <<>>, sent |-> <<>>, notified |-> FALSE, outcome |-> "none"]

\* mutant: nobody is told.
NoBroadcast == UNCHANGED obs

\* mutant: followers hear of records, not of the end of the log.
WakeWhileOpen == obs' = [o \in Readers |->
                IF obs[o].pc = "waiting" /\ ~log'.finalized
                THEN [obs[o] EXCEPT !.notified = TRUE] ELSE obs[o]]

\* The captured notify channel of every waiting follower is closed.
broadcast == obs' = [o \in Readers |->
                IF obs[o].pc = "waiting" THEN [obs[o] EXCEPT !.notified = TRUE]
                ELSE obs[o]]

Init ==
    /\ owner \in Owners
    /\ log = newProcessLog
    /\ disk = <<>>
    /\ saved = StateOf(newProcessLog)
    /\ status = "open"
    /\ obs = [o \in Readers |-> IdleObserver]
    /\ crashes = 0 /\ faults = 0
    /\ floor = 0 /\ lossKnown = FALSE

-----------------------------------------------------------------------------
(***************************************************************************)
(* The writer.                                                             *)
(***************************************************************************)
\* mutant: a finalized log is written to.
MayWriteFinalized ==
    /\ status = "open"
    /\ ~log.writeErr
    /\ log.next < MaxOffset

MayWrite ==
    /\ status = "open"
    /\ ~log.finalized /\ ~log.writeErr
    /\ log.next < MaxOffset

Write(s, ends) ==
    LET t == openLine(Here, s)
    IN  /\ MayWrite
        /\ ~NameTaken(rotate(t))
        /\ Commit(appendRecord(ensureActive(t), s, ends))
        /\ broadcast
        /\ UNCHANGED <<status, crashes, faults, floor, lossKnown>>

Fails(t) == [t EXCEPT !.log.complete = FALSE, !.log.writeErr = TRUE]

WriteFails(t) ==
    /\ Commit(Fails(t))
    /\ lossKnown' = TRUE
    /\ broadcast
    /\ UNCHANGED <<status, crashes, floor>>

\* openExclusiveLogFile finds the segment's name taken.
WriteBlocked(s) ==
    LET t == openLine(Here, s)
    IN  /\ MayWrite
        /\ NameTaken(rotate(t))
        /\ WriteFails(rotate(t))
        /\ UNCHANGED faults

Fault == faults < MaxFaults /\ faults' = faults + 1

SealFails(s) ==
    LET t == openLine(Here, s)
    IN  /\ MayWrite /\ Fault
        /\ MustRotate(log)
        /\ WriteFails(t)

\* createProcessLogSegment creates the file and cannot write its header.
CreateFails(s) ==
    LET t == rotate(openLine(Here, s))
    IN  /\ MayWrite /\ Fault
        /\ ~t.log.active /\ ~NameTaken(t)
        /\ WriteFails(AddFile(t, [EmptyFile EXCEPT !.header = FALSE]))

\* The record or an index entry cannot be written; rollback truncates the
\* files, unless truncating fails too (torn).
AppendFails(s, torn) ==
    LET t == ensureActive(openLine(Here, s))
    IN  /\ MayWrite /\ Fault
        /\ ~NameTaken(rotate(openLine(Here, s)))
        /\ WriteFails([t EXCEPT !.disk[Newest(t.log).first].torn = torn])

\* finalize: index the unfinished lines, seal, trim, persist, wake followers.
\* mutant: the line a process was in when it exited is not indexed.
LinesUnindexed(t) == t

IndexOpenLines(t) ==
    LET open(s) == t.log.lines[s]
    IN  IF t.log.active
        THEN [t EXCEPT !.disk[Newest(t.log).first].lines =
                [s \in Streams |->
                    IF open(s).open
                    THEN Append(@[s], [start |-> open(s).start, last |-> open(s).last])
                    ELSE @[s]]]
        ELSE t

ForgetLines(t) == [t EXCEPT !.log.lines = [s \in Streams |-> NoLine]]

Finalize(sealFails) ==
    LET indexed == ForgetLines(IndexOpenLines(Here))
        sealed  == IF sealFails THEN Fails(indexed) ELSE sealActive(indexed)
    IN  /\ status = "open" /\ ~log.finalized
        /\ IF sealFails
           THEN log.active /\ Fault /\ lossKnown' = TRUE
           ELSE UNCHANGED <<faults, lossKnown>>
        /\ Commit(writeState(trim([sealed EXCEPT !.log.finalized = TRUE])))
        /\ broadcast
        /\ UNCHANGED <<status, crashes, floor>>

-----------------------------------------------------------------------------
(***************************************************************************)
(* The janitor (enforceLogRetention), once a log is too old or all logs    *)
(* together are too big, and the controller log's own retention on open.   *)
(***************************************************************************)
\* mutant: removing segments leaves the earliest offset where it was.
EmptiedOnDisk(t) == t

Emptied(t) == [t EXCEPT !.log.earliest = firstOffset(t.log)]

MayExpire == status = "open" /\ log.observers = 0 /\ log.finalized

Expire ==
    /\ MayExpire
    /\ LET t == Emptied(removeSegments(Here, Len(log.segments)))
       IN  Commit(writeState([t EXCEPT !.log.expired = TRUE, !.log.active = FALSE,
                                       !.log.hollow = FALSE]))
    /\ UNCHANGED <<status, obs, crashes, faults, floor, lossKnown>>

MayTrimOldest ==
    /\ status = "open"
    /\ log.observers = 0 /\ log.segments # <<>>
    /\ ~(log.active /\ Len(log.segments) = 1)

TrimOldestSegment ==
    /\ MayTrimOldest
    /\ Commit(writeState(Emptied(removeSegments(Here, 1))))
    /\ UNCHANGED <<status, obs, crashes, faults, floor, lossKnown>>

-----------------------------------------------------------------------------
(***************************************************************************)
(* ObserveProcessLogs.                                                     *)
(***************************************************************************)
Step(o, changes) == obs' = [obs EXCEPT ![o] = changes @@ @]

At(o, pc) == status = "open" /\ obs[o].pc = pc

Unmoved == UNCHANGED <<log, disk, saved, status, crashes, faults, floor, lossKnown>>

AcquireObserver(o, streams, follow) ==
    /\ At(o, "idle")
    /\ log.observers < MaxObservers
    /\ log' = [log EXCEPT !.observers = @ + 1]
    /\ Step(o, [pc |-> "acquired", streams |-> streams, follow |-> follow])
    /\ UNCHANGED <<disk, saved, status, crashes, faults, floor, lossKnown>>

Leave(o, outcome) == Step(o, [pc |-> "leaving", outcome |-> outcome])

BeginAt(o, from, wanted) ==
    Step(o, [pc |-> "ranged", wanted |-> wanted, start |-> from,
             cursor |-> from, end |-> log.next, replayEnd |-> log.next])

\* mutant: an error return without the deferred release.
PrepareOffsetLeaks(o, offset) ==
    /\ At(o, "acquired")
    /\ IF offset < log.earliest \/ offset > log.next
       THEN Step(o, IdleObserver)
       ELSE BeginAt(o, offset, Offsets)
    /\ Unmoved

\* prepareOffset: a token outside [earliest, next] is refused.
PrepareOffset(o, offset) ==
    /\ At(o, "acquired")
    /\ IF offset < log.earliest \/ offset > log.next
       THEN Leave(o, "range")
       ELSE BeginAt(o, offset, Offsets)
    /\ Unmoved

\* lastLineEntriesLocked: the last n entries of the line indexes of a stream.
LastEntries(s, n) ==
    LET all == FlattenSeq([i \in DOMAIN log.segments |->
                              disk[log.segments[i].first].lines[s]])
        skip == IF Len(all) > n THEN Len(all) - n ELSE 0
    IN  {all[i] : i \in skip + 1 .. Len(all)}

OpenEntry(s) ==
    IF log.lines[s].open
    THEN {[start |-> log.lines[s].start, last |-> log.lines[s].last]}
    ELSE {}

\* prepareTail: of the candidates, latest first, the n first distinct lines.
SelectedLines(streams, n) ==
    LET candidates == UNION {LastEntries(s, n) \cup OpenEntry(s) : s \in streams}
        before(c, d) == \/ c.last > d.last
                        \/ c.last = d.last /\ c.start > d.start
        earlier(c) == {d.start : d \in {e \in candidates : before(e, c)}}
    IN  {c.start : c \in {e \in candidates :
            e.start \notin earlier(e) /\ Cardinality(earlier(e)) < n}}

\* Where the replay of the selected lines starts: at the first of them, or
\* at the earliest record when its beginning is gone.
TailStart(selected) ==
    LET retained == {IF x < log.earliest THEN log.earliest ELSE x : x \in selected}
    IN  Min(retained \cup {log.next})

PrepareTail(o, n) ==
    /\ At(o, "acquired")
    /\ LET selected == IF n = 0 THEN {} ELSE SelectedLines(obs[o].streams, n)
       IN  BeginAt(o, TailStart(selected), selected)
    /\ Unmoved

\* readRange: a copy of the segment table is taken under the lock.
OpenRange(o) ==
    /\ At(o, "ranged")
    /\ Step(o, [pc |-> "reading",
                segs |-> IF obs[o].cursor >= obs[o].end THEN <<>>
                         ELSE SelectSeq(log.segments, LAMBDA seg :
                                  seg.next > obs[o].cursor /\ seg.first < obs[o].end)])
    /\ Unmoved

\* mutant: records of every stream are sent.
SelectedAnyStream(o, rec) ==
    /\ obs[o].cursor <= rec.offset /\ rec.offset < obs[o].end
    /\ rec.offset < obs[o].replayEnd => rec.line \in obs[o].wanted

\* Records of one file that go to the client.  Only the replay filters lines.
Selected(o, rec) ==
    /\ obs[o].cursor <= rec.offset /\ rec.offset < obs[o].end
    /\ rec.stream \in obs[o].streams
    /\ rec.offset < obs[o].replayEnd => rec.line \in obs[o].wanted

ReadSegment(o) ==
    /\ At(o, "reading")
    /\ obs[o].segs # <<>>
    /\ LET at == Head(obs[o].segs).first
       IN  IF at \notin DOMAIN disk
           THEN Leave(o, "loss")
           ELSE Step(o, [segs |-> Tail(obs[o].segs),
                         sent |-> obs[o].sent \o
                             SelectSeq(disk[at].recs, LAMBDA rec : Selected(o, rec))])
    /\ Unmoved

\* mutant: the checkpoint is the log's present end, not the range's.
EndRangeAtNext(o) ==
    /\ At(o, "reading")
    /\ obs[o].segs = <<>>
    /\ IF obs[o].follow
       THEN Step(o, [pc |-> "looking", cursor |-> log.next])
       ELSE Step(o, [pc |-> "leaving", cursor |-> log.next, outcome |-> "snapshot"])
    /\ Unmoved

\* The range is sent; so is a checkpoint with its end.
EndRange(o) ==
    /\ At(o, "reading")
    /\ obs[o].segs = <<>>
    /\ IF obs[o].follow
       THEN Step(o, [pc |-> "looking", cursor |-> obs[o].end])
       ELSE Step(o, [pc |-> "leaving", cursor |-> obs[o].end, outcome |-> "snapshot"])
    /\ Unmoved

\* mutant: the end of the log is looked at before its records.
LookFinalizedFirst(o) ==
    /\ At(o, "looking")
    /\ CASE log.finalized -> Step(o, [pc |-> "exited"])
         [] ~log.finalized /\ log.next > obs[o].cursor ->
              Step(o, [pc |-> "ranged", end |-> log.next])
         [] OTHER -> Step(o, [pc |-> "waiting", notified |-> FALSE])
    /\ Unmoved

\* The head of the follow loop: log.current and the decision it leads to.
Look(o) ==
    /\ At(o, "looking")
    /\ CASE obs[o].cursor < log.earliest -> Leave(o, "range")
         [] obs[o].cursor >= log.earliest /\ log.next > obs[o].cursor ->
              Step(o, [pc |-> "ranged", end |-> log.next])
         [] obs[o].cursor >= log.earliest /\ log.next <= obs[o].cursor /\ log.finalized ->
              Step(o, [pc |-> "exited"])
         [] OTHER -> Step(o, [pc |-> "waiting", notified |-> FALSE])
    /\ Unmoved

Wake(o) ==
    /\ At(o, "waiting")
    /\ obs[o].notified
    /\ Step(o, [pc |-> "looking", notified |-> FALSE])
    /\ Unmoved

\* record.done is closed: the process's terminal state is there to be sent.
SendEnd(o) ==
    /\ At(o, "exited")
    /\ Leave(o, "exited")
    /\ Unmoved

\* The client cancels, or a Send fails.
Cancel(o) ==
    /\ status = "open"
    /\ obs[o].pc \in Holding \ {"leaving"}
    /\ Leave(o, "canceled")
    /\ Unmoved

releaseObserver(o) ==
    LET t == trim([Here EXCEPT !.log.observers = IF @ > 0 THEN @ - 1 ELSE 0])
    IN  /\ At(o, "leaving")
        /\ Commit(IF t.log.segments # log.segments \/ t.log.earliest # log.earliest
                  THEN writeState(t) ELSE t)
        /\ Step(o, IdleObserver)
        /\ UNCHANGED <<status, crashes, faults, floor, lossKnown>>

-----------------------------------------------------------------------------
(***************************************************************************)
(* A crash leaves what reached the disk.  Sealed segments were synced; of  *)
(* the active one any prefix may survive.  The controller may also die in  *)
(* the middle of a call: while it creates a segment, writes a record, or   *)
(* removes segments before it has written state.json.                      *)
(***************************************************************************)
Unsynced(t) ==
    LET at == Newest(t.log).first
    IN  IF ~t.log.active THEN {t}
        ELSE {[t EXCEPT !.disk[at].recs = SubSeq(@, 1, k), !.disk[at].torn = torn] :
                k \in 0 .. Len(t.disk[at].recs), torn \in BOOLEAN}

DuringWrite(t) ==
    LET r == rotate(t)
    IN  IF ~r.log.active /\ ~NameTaken(r)
        THEN {r, AddFile(r, [EmptyFile EXCEPT !.header = FALSE])}
                \cup Unsynced(createSegment(r))
        ELSE {r}

DuringRemoval(t) ==
    {removeSegments(t, k) : k \in IF MayExpire THEN 0 .. Len(log.segments)
                                 ELSE IF MayTrimOldest THEN {1} ELSE {}}

Surviving == Unsynced(Here)
                \cup (IF MayWrite THEN DuringWrite(Here) ELSE {})
                \cup DuringRemoval(Here)

Crash ==
    /\ status = "open" /\ crashes < MaxCrashes
    /\ crashes' = crashes + 1
    /\ status' = "down"
    /\ \E t \in Surviving : disk' = t.disk /\ saved' = t.saved
    /\ log' = newProcessLog
    /\ obs' = [o \in Readers |-> IdleObserver]
    /\ floor' = log.earliest
    /\ UNCHANGED <<faults, lossKnown>>

(***************************************************************************)
(* openProcessLog: rebuild the log from its segment files.  The log of a   *)
(* process that did not survive the crash is finalized, the controller's   *)
(* own is opened to be written on.                                         *)
(***************************************************************************)
FinalizedOnOpen == owner = "process"

Names == SetToSortSeq(DOMAIN disk, <)

\* A header that cannot be read, or a gap between two segments.
Damaged ==
    \/ \E f \in DOMAIN disk : ~disk[f].header
    \/ \E i \in 1 .. Len(Names) - 1 : Names[i] + Len(disk[Names[i]].recs) # Names[i + 1]

RefuseToOpen ==
    /\ status \in {"down", "refused"}
    /\ Damaged
    /\ status' = "refused"
    /\ UNCHANGED <<log, disk, saved, obs, crashes, faults, floor, lossKnown>>

\* The line a stream was in when its last record was written.
ResumedLine(recs, s) ==
    LET mine == SelectSeq(recs, LAMBDA rec : rec.stream = s)
        last == mine[Len(mine)]
    IN  IF mine = <<>> \/ last.ends THEN NoLine
        ELSE [open |-> TRUE, start |-> last.line, last |-> last.offset]

\* mutant: the index is reset and not written again.
NoEndedLines(recs, s) == <<>>

\* The line index of a stream, as rebuilding a segment writes it.
EndedLines(recs, s) ==
    LET ends == SelectSeq(recs, LAMBDA rec : rec.stream = s /\ rec.ends)
    IN  [i \in DOMAIN ends |-> [start |-> ends[i].line, last |-> ends[i].offset]]

rebuiltFile(f) ==
    [f EXCEPT !.torn = FALSE, !.lines = [s \in Streams |-> EndedLines(f.recs, s)]]

rebuild ==
    LET segments == [i \in DOMAIN Names |->
            [first |-> Names[i], next |-> Names[i] + Len(disk[Names[i]].recs)]]
        recs     == FlattenSeq([i \in DOMAIN Names |-> disk[Names[i]].recs])
        resumed  == [s \in Streams |-> ResumedLine(recs, s)]
        kept     == [newProcessLog EXCEPT
                        !.segments  = segments,
                        !.complete  = saved.complete /\ \A f \in DOMAIN disk : ~disk[f].torn,
                        !.expired   = saved.expired,
                        !.lines     = resumed]
        store(l) == [log |-> l, disk |-> [f \in DOMAIN disk |-> rebuiltFile(disk[f])],
                     saved |-> saved]
    IN  IF Names = <<>>
        THEN store([kept EXCEPT !.earliest = saved.earliest, !.next = saved.next,
                                !.hollow = saved.earliest < saved.next])
        ELSE store([kept EXCEPT !.earliest = segments[1].first,
                                !.next = segments[Len(segments)].next])

\* A finalized log gets index entries for the lines that never ended.
indexResumed(t) ==
    IF t.log.segments = <<>> THEN t
    ELSE [IndexOpenLines([t EXCEPT !.log.active = TRUE]) EXCEPT !.log.active = FALSE]

OpenLog ==
    /\ status \in {"down", "refused"}
    /\ ~Damaged
    /\ LET t == [rebuild EXCEPT !.log.finalized = FinalizedOnOpen]
       IN  Commit(writeState(IF FinalizedOnOpen THEN ForgetLines(indexResumed(t)) ELSE t))
    /\ status' = "open"
    /\ UNCHANGED <<obs, crashes, faults, floor, lossKnown>>

-----------------------------------------------------------------------------
ReaderStep(o) ==
    \/ OpenRange(o) \/ ReadSegment(o) \/ EndRange(o)
    \/ Look(o) \/ Wake(o) \/ SendEnd(o) \/ releaseObserver(o)

\* A process writes any frames; a controller event is one line below the
\* frame limit (normalizeEvent, controllerlog/logger.go).
Frames == IF FinalizedOnOpen THEN BOOLEAN ELSE {TRUE}

WriterStep ==
    \/ \E s \in Streams, ends \in Frames : Write(s, ends)
    \/ \E s \in Streams : WriteBlocked(s) \/ SealFails(s) \/ CreateFails(s)
    \/ \E s \in Streams, torn \in BOOLEAN : AppendFails(s, torn)
    \/ \E sealFails \in BOOLEAN : Finalize(sealFails)

JanitorStep == Expire \/ TrimOldestSegment

Request(o) ==
    \/ \E streams \in (SUBSET Streams) \ {{}}, follow \in BOOLEAN :
          AcquireObserver(o, streams, follow)
    \/ \E offset \in Offsets : PrepareOffset(o, offset)
    \/ \E n \in TailSizes : PrepareTail(o, n)
    \/ Cancel(o)

Next ==
    /\ UNCHANGED owner
    /\ \/ WriterStep
       \/ JanitorStep
       \/ \E o \in Readers : Request(o) \/ ReaderStep(o)
       \/ Crash \/ OpenLog \/ RefuseToOpen

Spec == Init /\ [][Next]_vars

\* The goroutine of an accepted call keeps running; nobody has to write.
FairSpec == Spec /\ \A o \in Readers : WF_vars(ReaderStep(o) /\ UNCHANGED owner)

-----------------------------------------------------------------------------
(***************************************************************************)
(* Properties.                                                             *)
(***************************************************************************)
\* Every variable stays in its type; the observer count is the calls that hold.
TypeOK ==
    /\ owner \in Owners
    /\ log \in processLog
    /\ \A f \in DOMAIN disk : f \in Offsets /\ disk[f] \in File
    /\ saved \in processLogState
    /\ status \in {"open", "down", "refused"}
    /\ obs \in [Readers -> Observer]
    /\ log.observers = Cardinality({o \in Readers : obs[o].pc \in Holding})
    /\ log.observers <= MaxObservers
    /\ crashes \in 0 .. MaxCrashes /\ faults \in 0 .. MaxFaults
    /\ floor \in Offsets /\ lossKnown \in BOOLEAN

\* The segments in memory are exactly [earliest, next) without a gap, each
\* has its file, and the file holds its records in order (appendRecordLocked,
\* trimLocked, rebuildLocked keep the table and the disk in step).
RangeHeld ==
    LET content == Content(log, disk)
        seg(i)  == log.segments[i]
    IN  status = "open" /\ log.segments # <<>> =>
            /\ seg(1).first = log.earliest /\ Newest(log).next = log.next
            /\ \A i \in 1 .. Len(log.segments) - 1 : seg(i).next = seg(i + 1).first
            /\ \A i \in DOMAIN log.segments : seg(i).first \in DOMAIN disk
            /\ Len(content) = log.next - log.earliest
            /\ \A i \in DOMAIN content : content[i].offset = log.earliest + i - 1

\* Retention never overtakes a call that is being served: its cursor is never
\* below the earliest offset (acquireObserver "prevents retention from
\* deleting segments needed by the caller", runtime_log.go:192).
ReadersHoldSegments ==
    \A o \in Readers :
        obs[o].pc \in Serving /\ ~log.hollow => log.earliest <= obs[o].cursor

Due(o, rec) ==
    /\ obs[o].start <= rec.offset /\ rec.offset < obs[o].cursor
    /\ rec.stream \in obs[o].streams
    /\ rec.offset < obs[o].replayEnd => rec.line \in obs[o].wanted

\* Between two ranges a client has been sent exactly the records it asked for
\* from its start up to its checkpoint: none lost, doubled or out of order at
\* the replay/follow boundary or across a rotation, and none of them is gone.
SentIsDue(o) ==
    LET content == Content(log, disk)
    IN  obs[o].pc \in {"looking", "waiting", "exited"} =>
            /\ obs[o].sent = SelectSeq(content, LAMBDA rec : Due(o, rec))
            /\ obs[o].start .. obs[o].cursor - 1 \subseteq
                   {content[i].offset : i \in DOMAIN content}

\* Nothing is lost on the way to a reader nor removed before it, unless a crash
\* emptied the log before its state was saved.
GapFree == ReadersHoldSegments /\ (~log.hollow => \A o \in Readers : SentIsDue(o))

\* A follower that still waits has seen everything there is, and more may
\* come: nobody sleeps through a record or the end of the log.
NoLostWakeup ==
    \A o \in Readers :
        obs[o].pc = "waiting" /\ ~obs[o].notified =>
            obs[o].cursor = log.next /\ ~log.finalized

\* PROCESS_EXITED is only announced at the very end of a finalized log.
EndMeansAll ==
    \A o \in Readers :
        obs[o].outcome = "exited" => log.finalized /\ obs[o].cursor = log.next

\* Followers hear of every record and of the end, and of the end last.
FollowersInformed == NoLostWakeup /\ EndMeansAll

\* The last n lines of the retained records of some streams, by last record.
LastLines(streams, n) ==
    LET content == Content(log, disk)
        mine    == {content[i] : i \in {j \in DOMAIN content : content[j].stream \in streams}}
        last(l) == Max({rec.offset : rec \in {r \in mine : r.line = l}})
        lines   == {rec.line : rec \in mine}
    IN  {l \in lines : Cardinality({m \in lines : last(m) > last(l)}) < n}

Retained(lines) ==
    LET content == Content(log, disk)
    IN  {l \in lines : \E i \in DOMAIN content : content[i].line = l}

TailsAgree ==
    \A streams \in SUBSET Streams, n \in TailSizes \ {0} :
        Retained(SelectedLines(streams, n)) = LastLines(streams, n)

\* tail_lines selects what a scan of the retained records would: the line
\* indexes and the open lines, kept across rotation, finalization, trimming
\* and recovery, name the last lines.
TailIsExact == status = "open" /\ ~log.writeErr => TailsAgree

\* An offset once below the earliest stays refused after any restart.
TokensStayStale == status = "open" => log.earliest >= floor

\* What is in memory is what the files hold, whatever wrote or rebuilt it.
LogIsWhole == TypeOK /\ RangeHeld /\ TailIsExact /\ TokensStayStale

\* A call that has been served past a checkpoint sees every later record, or
\* leaves: the follow loop never stalls.
Delivered ==
    \A o \in Readers, k \in Offsets :
        obs[o].pc \in Serving /\ obs[o].follow /\ log.next > k
            ~> obs[o].pc \in {"leaving", "idle"} \/ obs[o].cursor > k

\* Once the log is finalized, every call comes to its end.
CallsEnd ==
    \A o \in Readers : obs[o].pc \in Serving /\ log.finalized ~> obs[o].pc = "idle"

\* Followers are served to the end.
FollowersServed == Delivered /\ CallsEnd

-----------------------------------------------------------------------------
(***************************************************************************)
(* What the comments and the design say and the code does not keep.        *)
(***************************************************************************)
\* runtime_log.go:79: "reopened as non-finalized so a new boot can append".
NewBootCanAppend == status = "open" /\ MayWrite => ~NameTaken(rotate(Here))

\* log_v2.go:991: the offsets are kept "so a stale resume token is still
\* rejected after restart": an accepted token never replays nothing.
StaleTokensRejected == \A o \in Readers : SentIsDue(o)

\* process-log-observation-design-v1.md:35: a write known to be incomplete is
\* reported, in this boot or a later one.
KnownLossReported == status = "open" /\ lossKnown => ~log.complete

\* process-log-observation-design-v1.md:113: only damage in the middle keeps
\* a log from loading; the end of the last segment is cut off.
TailDamageLoads ==
    status = "refused" =>
        \E f \in DOMAIN disk : ~disk[f].header /\ f # Max(DOMAIN disk)

\* process-log-observation-design-v1.md:12: the last N lines, after a failed
\* write too.
TailSurvivesFault == status = "open" => TailsAgree
=============================================================================
