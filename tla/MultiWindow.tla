------------------------------ MODULE MultiWindow ------------------------------
(***************************************************************************)
(* The multi-window terminal of the client                                 *)
(* (src/internal/cli/multi_window.go, its layout and input): one event     *)
(* loop that owns the panes, and the goroutines around it, which meet it   *)
(* only in two bounded queues.                                             *)
(*                                                                         *)
(* Concurrent: the event loop; the reader of the local terminal; one       *)
(* goroutine per attachment being opened and per attachment being          *)
(* detached; three per pane, for output, for replies of the emulator and   *)
(* for operations; the attachments themselves, whose remote side may       *)
(* answer, stop reading, break or exit.                                    *)
(*                                                                         *)
(* Abstractions.  A pane, its attachment and the request that opened it    *)
(* share a number, the order of the request.  Data, input and replies have *)
(* no content.  The terminal keeps its rows.  An attachment is over when   *)
(* Detach and Wait return (process_attach.go); ProcessInput has the rest.  *)
(* The emulator (x/vt) is external: it may reply at any time, and writing  *)
(* to it does not wait.                                                    *)
(***************************************************************************)
EXTENDS Integers, Sequences, FiniteSets, SequencesExt

CONSTANTS
    Process,
    Initial,            \* bound: the processes named on the command line, or the first of them
    Rows,               \* of the terminal
    Columns,            \* bound: widths it may have
    Grid(_, _, _),      \* columns of the grid with the best score (chooseProcessWindowGrid)
    MaximumPanes,       \* processWindowMaximumPanes
    EventBuffer,        \* processWindowEventBuffer
    OperationBuffer,    \* processWindowOperationBuffer
    MaxOpens,           \* bound: attachments ever opened
    MaxHappenings       \* bound: commands typed, resizes, attachments that end by themselves

Open == 1..MaxOpens
Widest == CHOOSE c \in Columns : \A d \in Columns : d <= c     \* bound: the width it starts with

(* What an instance has to assume. *)
WindowAssumption ==
    /\ Initial \in Seq(Process) /\ Len(Initial) <= MaxOpens
    /\ MaximumPanes > 0 /\ EventBuffer > 0 /\ OperationBuffer > 0
    /\ \A c \in Columns, n \in 1..MaximumPanes : Grid(c, Rows - 1, n) \in 1..n

VARIABLES
    loop,           \* run: the event loop and shutdown
    ctx,            \* manager.ctx is done
    width,          \* manager.columns, and what the terminal tells
    panes,          \* manager.panes: open requests in their order
    active,         \* manager.active, from 1, or 0
    opening,        \* manager.opening
    pane,           \* processWindowPane and its goroutines
    opener,         \* startOpen's goroutine
    call,           \* the attachment
    detacher,       \* detachAsync's goroutine
    events, inputEvents,
    reader,         \* startTerminalReader's goroutine
    happened,       \* how many of them did
    leave           \* the session was asked to end

session == <<width, panes, active, opening>>
counters == <<happened, leave>>
goroutines == <<opener, call, detacher, reader>>
vars == <<loop, ctx, session, pane, goroutines, events, inputEvents, counters>>

-----------------------------------------------------------------------------
(* Layout *)

Least(a, b) == IF a < b THEN a ELSE b
Greatest(a, b) == IF a < b THEN b ELSE a

(* Part i of a dimension: the first ones are one longer when it does not divide. *)
Span(total, parts, i) == total \div parts + (IF i <= total % parts THEN 1 ELSE 0)
Start(total, parts, i) == (i - 1) * (total \div parts) + Least(i - 1, total % parts)

Tile(columns, count, i) ==
    LET rows == Greatest(0, Rows - 1)
        gridColumns == Grid(columns, rows, count)
        gridRows == (count + gridColumns - 1) \div gridColumns
        column == ((i - 1) % gridColumns) + 1
        row == ((i - 1) \div gridColumns) + 1
    IN  [x |-> Start(columns, gridColumns, column), y |-> Start(rows, gridRows, row),
         width |-> Span(columns, gridColumns, column), height |-> Span(rows, gridRows, row)]

(* The size the emulator and the remote terminal get: <<rows, columns>>. *)
Content(tile) == <<Greatest(1, tile.height - 2), Greatest(1, tile.width - 2)>>
LastContent(count) == Content(Tile(width, count, count))

LayoutFits(columns, count) ==
    /\ columns >= 20 /\ Rows >= 6
    /\ \A i \in 1..count : Tile(columns, count, i).width >= 4 /\ Tile(columns, count, i).height >= 3

(* attachmentRedrawSizes: a neighbouring size and then the real one, so that *)
(* a program that is running draws anew.                                     *)
RedrawSizes(size) ==
    CASE size[1] > 1 -> << <<size[1] - 1, size[2]>>, size >>
      [] size[1] <= 1 /\ size[2] > 1 -> << <<size[1], size[2] - 1>>, size >>
      [] OTHER -> << size >>

-----------------------------------------------------------------------------
(* Queues *)

Data == <<0, 0>>        \* an operation that is not a resize
NoSize == <<>>
NoTile == [x |-> 0, y |-> 0, width |-> 0, height |-> 0]
NewPane(size) ==
    [state |-> "active", rectangle |-> NoTile, ops |-> <<>>, pending |-> NoSize,
     writer |-> "idle", busy |-> NoSize, output |-> "reading", remote |-> size,
     misled |-> FALSE]  \* its redraw was computed for another rectangle
(* Once its context is done, what is queued for it or on its way no longer *)
(* matters to anybody.                                                     *)
Cut(p) == [p EXCEPT !.ops = <<>>, !.pending = NoSize, !.remote = NoSize, !.misled = FALSE,
                    !.busy = IF @ = NoSize THEN NoSize ELSE Data]
(* Its emulator is closed too, and with it ends the goroutine that reads   *)
(* replies.                                                                *)
Shut(p, state) ==
    [Cut(p) EXCEPT !.state = state, !.rectangle = IF state = "closed" THEN NoTile ELSE @]
IsShut(p) == p.state \in {"done", "failed", "closed"}
NoPane == [Shut(NewPane(NoSize), "closed") EXCEPT !.state = "none", !.writer = "done", !.output = "done"]

Event(kind, k) == [kind |-> kind, of |-> k]

(* sendEvent waits for room, or gives up when the session is over. *)
SendEvent(event) ==
    \/ Len(events) < EventBuffer /\ events' = Append(events, event)
    \/ ctx /\ UNCHANGED events

(* enqueuePane for what the program itself makes: it never waits.  A reply *)
(* that finds the queue full is dropped, a resize replaces an older one    *)
(* that is still pending.                                                  *)
Offer(p, op) ==     \* mutant: the pending size stays when a newer one was queued
    IF IsShut(p) \/ ctx THEN p
    ELSE IF Len(p.ops) < OperationBuffer THEN [p EXCEPT !.ops = Append(@, op)]
    ELSE IF op = Data THEN p
    ELSE [p EXCEPT !.pending = op]
Enqueue(p, op) ==
    IF IsShut(p) \/ ctx THEN p
    ELSE IF Len(p.ops) < OperationBuffer
         THEN [p EXCEPT !.ops = Append(@, op), !.pending = IF op = Data THEN @ ELSE NoSize]
    ELSE IF op = Data THEN p
    ELSE [p EXCEPT !.pending = op]

(* applyLayout: every pane gets its rectangle, and one whose content has   *)
(* another size tells the emulator and, if active, its attachment.         *)
Place(p, tile) ==
    LET moved == [p EXCEPT !.rectangle = tile]
    IN  IF Content(p.rectangle) = Content(tile) THEN moved
        ELSE IF p.state # "active" THEN moved
        ELSE Enqueue([moved EXCEPT !.misled = FALSE], Content(tile))
Layout(all, order, columns) ==
    [k \in Open |->
        IF \E i \in 1..Len(order) : order[i] = k
        THEN Place(all[k], Tile(columns, Len(order), CHOOSE i \in 1..Len(order) : order[i] = k))
        ELSE all[k]]

-----------------------------------------------------------------------------
(* What the event loop does *)

LoopAt(at, after) == [at |-> at, after |-> after]
Requested == {k \in Open : opener[k].at # "none"}

(* startOpen: refused when too many are open or being opened, or when no   *)
(* usable rectangle is left.  The attachment starts with the size of the   *)
(* last rectangle there will be.                                           *)
Admits == Len(panes) + opening < MaximumPanes /\ LayoutFits(width, Len(panes) + opening + 1)
StartOpen(p) ==
    LET k == Cardinality(Requested) + 1
    IN  IF ~Admits THEN UNCHANGED <<opening, opener>>
        ELSE /\ opening' = opening + 1
             /\ opener' = [opener EXCEPT ![k] =
                    [at |-> "opening", process |-> p, failed |-> FALSE,
                     size |-> LastContent(Len(panes) + opening + 1)]]

(* detachAsync.  The opener of a real client returns a nil                 *)
(* *ProcessAttachment with its error; as a processWindowAttachment that is *)
(* not nil, so it is detached as well, which dereferences it.              *)
Detaching(k) == detacher' = [detacher EXCEPT ![k] = IF opener[k].failed THEN "panics" ELSE "detaching"]

PositionLast(k) == Len(panes) + 1   \* mutant: panes stand in the order of the answers
Position(k) == Cardinality({j \in 1..Len(panes) : panes[j] < k}) + 1

(* acceptOpenResult *)
Accept(k) ==
    LET duplicate == \E j \in 1..Len(panes) : opener[panes[j]].process = opener[k].process
        at == Position(k)
        order == InsertAt(panes, at, k)
        size == LastContent(Len(order))
        placed == Layout([pane EXCEPT ![k] = NewPane(opener[k].size)], order, width)
        redrawn == FoldSeq(LAMBDA s, p : Enqueue(p, s), placed[k], Reverse(RedrawSizes(size)))
    IN  /\ opening' = Greatest(0, opening - 1)
        /\ IF opener[k].failed \/ duplicate \/ Len(panes) >= MaximumPanes
           THEN Detaching(k) /\ UNCHANGED <<panes, active, pane>>
           ELSE /\ panes' = order
                /\ active' = IF at = Len(order) THEN at
                             ELSE IF active >= at THEN active + 1 ELSE active
                /\ pane' = [placed EXCEPT ![k] =
                       [redrawn EXCEPT !.misled = size # Content(placed[k].rectangle)]]
                /\ UNCHANGED detacher
        /\ opener' = [opener EXCEPT ![k].size = NoSize]

AfterStays == active            \* mutant: the selection stays where it was
After == Least(active, Len(panes) - 1)

(* closeActivePane *)
ClosePane ==
    IF active = 0 THEN UNCHANGED <<panes, active, pane, detacher>>
    ELSE LET k == panes[active]
             order == RemoveAt(panes, active)
         IN  /\ panes' = order
             /\ active' = After
             /\ pane' = Layout([pane EXCEPT ![k] = Shut(@, "closed")], order, width)
             /\ Detaching(k)

(* enqueueActive.  What is typed into a queue that is full waits for the   *)
(* grace period, and so does the loop.                                     *)
Forward(after) ==
    IF active = 0 \/ pane[panes[active]].state # "active"
    THEN loop' = LoopAt(after, "none") /\ UNCHANGED pane
    ELSE LET k == panes[active]
         IN  IF Len(pane[k].ops) < OperationBuffer
             THEN pane' = [pane EXCEPT ![k] = Enqueue(@, Data)] /\ loop' = LoopAt(after, "none")
             ELSE loop' = LoopAt("grace", after) /\ UNCHANGED pane

EndOfGrace ==
    /\ loop.at = "grace"
    /\ LET k == panes[active]
       IN  \/ Len(pane[k].ops) < OperationBuffer /\ pane' = [pane EXCEPT ![k] = Enqueue(@, Data)]
           \/ UNCHANGED pane         \* the timer, or the context of the pane
    /\ loop' = LoopAt(loop.after, "none")
    /\ UNCHANGED <<ctx, session, goroutines, events, inputEvents, counters>>

(* handleInput, one command at a time; the loop goes on at after. *)
HandleInput(after) ==
    LET key == Head(inputEvents)
        goesOn == loop' = LoopAt(after, "none")
    IN  /\ inputEvents # <<>>
        /\ inputEvents' = Tail(inputEvents)
        /\ \/ key = "data" /\ Forward(after) /\ UNCHANGED <<session, opener, detacher>>
           \/ /\ key = "open" /\ goesOn
              /\ \E p \in Process : StartOpen(p)
              /\ UNCHANGED <<width, panes, active, pane, detacher>>
           \/ key = "close" /\ goesOn /\ ClosePane /\ UNCHANGED <<width, opening, opener>>
           \/ /\ key = "select" /\ goesOn
              /\ IF panes = <<>> THEN UNCHANGED active ELSE active' \in 1..Len(panes)
              /\ UNCHANGED <<width, panes, opening, pane, opener, detacher>>
           \/ /\ key = "quit" /\ loop' = LoopAt("leaving", "none")
              /\ UNCHANGED <<session, pane, opener, detacher>>
        /\ UNCHANGED <<ctx, call, events, reader, counters>>

(* Both selects of the loop take what is typed; the first one comes before *)
(* all events, and when nothing was typed the second is reached at once.   *)
TakeInput ==
    /\ loop.at \in {"poll", "select"}
    /\ HandleInput(IF loop.at = "poll" THEN "select" ELSE "poll")
PolledWithoutLook == loop.at \in {"poll", "select"}    \* mutant: the first select is missing
Polled == loop.at = "select" \/ (loop.at = "poll" /\ inputEvents = <<>>)

(* handleEvent *)
HandleEvent ==
    /\ Polled /\ events # <<>>
    /\ events' = Tail(events)
    /\ LET event == Head(events)
           k == event.of
           known == \E i \in 1..Len(panes) : panes[i] = k
           becomes(p) == pane' = IF known THEN [pane EXCEPT ![k] = p] ELSE pane
       IN  \/ event.kind = "open" /\ Accept(k)
           \/ /\ event.kind = "end" /\ UNCHANGED <<panes, active, opening, detacher>>
              /\ \E s \in {"done", "failed"} : becomes(Shut(pane[k], s))
           \/ /\ event.kind = "reply" /\ UNCHANGED <<panes, active, opening, detacher>>
              /\ becomes(IF pane[k].state = "active" THEN Enqueue(pane[k], Data) ELSE pane[k])
           \/ /\ event.kind = "fault" /\ UNCHANGED <<panes, active, opening, detacher>>
              /\ becomes(IF pane[k].state = "active" THEN [pane[k] EXCEPT !.state = "error"] ELSE pane[k])
           \/ event.kind \in {"noise", "hangup"} /\ UNCHANGED <<panes, active, opening, pane, detacher>>
    /\ loop' = LoopAt(IF Head(events).kind = "hangup" THEN "leaving" ELSE "poll", "none")
    /\ (Head(events).kind # "open" => UNCHANGED opener)
    /\ UNCHANGED <<ctx, width, call, inputEvents, reader, counters>>

(* handleResize; the loop ends when the size cannot be read. *)
HandleResize ==
    /\ Polled /\ happened < MaxHappenings
    /\ happened' = happened + 1
    /\ \/ \E c \in Columns \ {width} :
            /\ width' = c
            /\ pane' = Layout(pane, panes, c)
            /\ loop' = LoopAt("poll", "none")
       \/ UNCHANGED <<width, pane>> /\ loop' = LoopAt("leaving", "none")
    /\ UNCHANGED <<ctx, panes, active, opening, goroutines, events, inputEvents, leave>>

(* A frame: pending sizes are offered again and the screen is drawn, which *)
(* may fail.                                                               *)
RetryResize(p) ==
    IF p.pending = NoSize \/ p.state # "active" \/ Len(p.ops) >= OperationBuffer THEN p
    ELSE [p EXCEPT !.ops = Append(@, p.pending), !.pending = NoSize]
Tick ==
    /\ Polled
    /\ pane' = [k \in Open |-> IF \E i \in 1..Len(panes) : panes[i] = k
                               THEN RetryResize(pane[k]) ELSE pane[k]]
    /\ \E at \in {"poll", "leaving"} : loop' = LoopAt(at, "none")
    /\ UNCHANGED <<ctx, session, goroutines, events, inputEvents, counters>>

TakeDone ==
    /\ Polled /\ ctx
    /\ loop' = LoopAt("leaving", "none")
    /\ UNCHANGED <<ctx, session, pane, goroutines, events, inputEvents, counters>>

-----------------------------------------------------------------------------
(* shutdown *)

(* Every pane is shut and detached at once. *)
BeginShutdown ==
    /\ loop.at = "leaving"
    /\ LET open == ToSet(panes)
       IN  /\ pane' = [k \in Open |-> IF k \in open THEN Shut(pane[k], "closed") ELSE pane[k]]
           /\ detacher' = [k \in Open |-> IF k \in open THEN "detaching" ELSE detacher[k]]
    /\ loop' = LoopAt("detaching", "none")
    /\ UNCHANGED <<ctx, session, opener, call, reader, events, inputEvents, counters>>

CancelEarly ==      \* mutant: the session's context ends before the detaches do
    /\ loop.at = "detaching"
    /\ ctx' = TRUE /\ loop' = LoopAt("joining", "none")
    /\ UNCHANGED <<session, pane, goroutines, events, inputEvents, counters>>
Cancel ==           \* after detachWorkers.Wait
    /\ loop.at = "detaching"
    /\ \A k \in Open : detacher[k] \notin {"detaching", "panics"}
    /\ ctx' = TRUE /\ loop' = LoopAt("joining", "none")
    /\ UNCHANGED <<session, pane, goroutines, events, inputEvents, counters>>

WorkersDone ==      \* workers.Wait
    /\ reader = "done"
    /\ \A k \in Open :
        /\ opener[k].at \in {"none", "done"} /\ detacher[k] \in {"none", "done"}
        /\ pane[k].writer = "done" /\ pane[k].output = "done"
Join ==
    /\ loop.at = "joining" /\ WorkersDone
    /\ loop' = LoopAt("discarding", "none")
    /\ UNCHANGED <<ctx, session, pane, goroutines, events, inputEvents, counters>>

DiscardNothing ==   \* mutant: what is still queued is forgotten
    /\ loop.at = "discarding" /\ loop' = LoopAt("returned", "none")
    /\ UNCHANGED <<ctx, session, pane, goroutines, events, inputEvents, counters>>

(* discardQueuedOpenResults: an attachment that nobody took is detached. *)
Discard ==
    /\ loop.at = "discarding"
    /\ IF events = <<>> THEN loop' = LoopAt("returned", "none") /\ UNCHANGED events
       ELSE LET event == Head(events)
            IN  IF event.kind = "open" /\ opener[event.of].failed
                THEN loop' = LoopAt("crashed", "none") /\ UNCHANGED events
                ELSE /\ event.kind = "open" => call[event.of] = "over"
                     /\ events' = Tail(events) /\ UNCHANGED loop
    /\ UNCHANGED <<ctx, session, pane, goroutines, inputEvents, counters>>

-----------------------------------------------------------------------------
(* Opening and detaching *)

Running == loop.at \notin {"returned", "crashed"}

(* The opener returns: with an attachment, unless another one writes to    *)
(* the process (OneWriter of ProcessInput), or with an error.              *)
OpenSucceeds(k) ==
    /\ Running /\ opener[k].at = "opening" /\ ~ctx
    /\ \A j \in Open : call[j] # "none" /\ opener[j].process = opener[k].process => call[j] = "over"
    /\ opener' = [opener EXCEPT ![k].at = "result"]
    /\ call' = [call EXCEPT ![k] = "live"]
    /\ UNCHANGED <<loop, ctx, session, pane, detacher, reader, events, inputEvents, counters>>
OpenFails(k) ==
    /\ Running /\ opener[k].at = "opening"
    /\ opener' = [opener EXCEPT ![k].at = "result", ![k].failed = TRUE]
    /\ UNCHANGED <<loop, ctx, session, pane, call, detacher, reader, events, inputEvents, counters>>

SendResult(k) ==
    /\ Running /\ opener[k].at = "result"
    /\ Len(events) < EventBuffer /\ events' = Append(events, Event("open", k))
    /\ opener' = [opener EXCEPT ![k].at = "done"]
    /\ UNCHANGED <<loop, ctx, session, pane, call, detacher, reader, inputEvents, counters>>
(* The session is over: the goroutine detaches what it opened itself. *)
UndoOpen(k) ==
    /\ Running /\ opener[k].at = "result" /\ ctx
    /\ IF opener[k].failed
       THEN loop' = LoopAt("crashed", "none") /\ UNCHANGED opener
       ELSE call[k] = "over" /\ opener' = [opener EXCEPT ![k].at = "done"] /\ UNCHANGED loop
    /\ UNCHANGED <<ctx, session, pane, call, detacher, reader, events, inputEvents, counters>>

(* The attachment ends: the remote side has answered the detach or ended   *)
(* by itself, or its context is done.                                      *)
Ending(k) == ctx \/ detacher[k] = "detaching"    \* answered, or cancelled after three seconds
CallEnds(k) ==
    /\ Running /\ call[k] = "live"
    /\ \/ Ending(k) /\ UNCHANGED happened
       \/ /\ ~Ending(k) /\ happened < MaxHappenings    \* an exit or a lost connection
          /\ happened' = happened + 1
    /\ call' = [call EXCEPT ![k] = "over"]
    /\ UNCHANGED <<loop, ctx, session, pane, opener, detacher, reader, events, inputEvents, leave>>

DetachReturns(k) ==     \* detachProcessWindowAttachment
    /\ Running /\ detacher[k] = "detaching" /\ call[k] = "over"
    /\ detacher' = [detacher EXCEPT ![k] = "telling"]
    /\ UNCHANGED <<loop, ctx, session, pane, opener, call, reader, events, inputEvents, counters>>
DetachTells(k) ==
    /\ Running /\ detacher[k] = "telling" /\ SendEvent(Event("noise", 0))
    /\ detacher' = [detacher EXCEPT ![k] = "done"]
    /\ UNCHANGED <<loop, ctx, session, pane, opener, call, reader, inputEvents, counters>>
Panics(k) ==
    /\ Running /\ detacher[k] = "panics"
    /\ loop' = LoopAt("crashed", "none")
    /\ UNCHANGED <<ctx, session, pane, goroutines, events, inputEvents, counters>>

-----------------------------------------------------------------------------
(* The goroutines of a pane *)

OthersOfPane == <<loop, ctx, session, goroutines, inputEvents, counters>>

OutputSends(k) ==
    /\ Running /\ pane[k].output = "reading" /\ SendEvent(Event("noise", 0))
    /\ UNCHANGED <<OthersOfPane, pane>>
OutputEnds(k) ==
    /\ Running /\ pane[k].output = "reading" /\ call[k] = "over" /\ SendEvent(Event("end", k))
    /\ pane' = [pane EXCEPT ![k].output = "done"]
    /\ UNCHANGED OthersOfPane

ReplySends(k) ==
    /\ Running /\ pane[k].state \in {"active", "error"} /\ SendEvent(Event("reply", k))
    /\ UNCHANGED <<OthersOfPane, pane>>

(* An operation is written at once, or waits in Write or Resize until the  *)
(* attachment ends, because the remote side no longer reads.               *)
WriterWrites(k) ==
    /\ Running /\ pane[k].writer = "idle" /\ pane[k].ops # <<>> /\ call[k] = "live"
    /\ LET op == Head(pane[k].ops)
       IN  pane' = [pane EXCEPT ![k].ops = Tail(@), ![k].remote = IF op = Data THEN @ ELSE op]
    /\ UNCHANGED <<OthersOfPane, events>>
WriterWaits(k) ==
    /\ Running /\ pane[k].writer = "idle" /\ pane[k].ops # <<>>
    /\ pane' = [pane EXCEPT ![k].ops = Tail(@), ![k].writer = "busy", ![k].busy = Head(pane[k].ops)]
    /\ UNCHANGED <<OthersOfPane, events>>
WriterFails(k) ==
    /\ Running /\ pane[k].writer = "busy" /\ call[k] = "over" /\ SendEvent(Event("fault", k))
    /\ pane' = [pane EXCEPT ![k].writer = "done", ![k].busy = NoSize]
    /\ UNCHANGED OthersOfPane
WriterEnds(k) ==
    /\ Running /\ pane[k].writer = "idle" /\ (ctx \/ IsShut(pane[k]))
    /\ pane' = [pane EXCEPT ![k].writer = "done"]
    /\ UNCHANGED <<OthersOfPane, events>>

-----------------------------------------------------------------------------
(* The local terminal *)

Types(key) ==
    /\ Running /\ reader = "reading" /\ happened < MaxHappenings
    /\ Len(inputEvents) < EventBuffer /\ inputEvents' = Append(inputEvents, key)
    /\ key = "open" => Cardinality(Requested) + Cardinality(ToSet(inputEvents)) < MaxOpens
    /\ happened' = happened + 1 /\ leave' = (leave \/ key = "quit")
    /\ UNCHANGED <<loop, ctx, session, pane, goroutines, events>>
HangsUp ==
    /\ Running /\ reader = "reading" /\ ~ctx
    /\ reader' = "failing"
    /\ leave' = TRUE
    /\ UNCHANGED <<loop, ctx, session, pane, opener, call, detacher, events, inputEvents, happened>>
ReaderEnds ==       \* its last event, or the context while it waits
    /\ Running
    /\ \/ reader = "failing" /\ SendEvent(Event("hangup", 0))
       \/ reader = "reading" /\ ctx /\ SendEvent(Event("hangup", 0))
    /\ reader' = "done"
    /\ UNCHANGED <<loop, ctx, session, pane, opener, call, detacher, inputEvents, counters>>
Interrupt ==        \* SIGINT cancels the parent of the session's context
    /\ Running /\ ~ctx
    /\ ctx' = TRUE /\ pane' = [k \in Open |-> Cut(pane[k])]
    /\ leave' = TRUE
    /\ UNCHANGED <<loop, session, goroutines, events, inputEvents, happened>>

-----------------------------------------------------------------------------
Init ==
    /\ loop = LoopAt("poll", "none") /\ ctx = FALSE
    /\ width = Widest
    /\ panes = <<>> /\ active = 0
    /\ opening \in 1..Len(Initial)     \* as many as the command line names and fit
    /\ LayoutFits(width, opening) /\ opening <= MaximumPanes
    /\ pane = [k \in Open |-> NoPane]
    /\ opener = [k \in Open |->
           IF k <= opening
           THEN [at |-> "opening", process |-> Initial[k], failed |-> FALSE, size |-> LastContent(k)]
           ELSE [at |-> "none", process |-> "none", failed |-> FALSE, size |-> NoSize]]
    /\ call = [k \in Open |-> "none"] /\ detacher = [k \in Open |-> "none"]
    /\ events = <<>> /\ inputEvents = <<>>
    /\ reader = "reading"
    /\ happened = 0 /\ leave = FALSE

EventLoop == TakeInput \/ EndOfGrace \/ HandleEvent \/ HandleResize \/ Tick \/ TakeDone
Shutdown == BeginShutdown \/ Cancel \/ Join \/ Discard
Goroutine(k) ==
    \/ OpenSucceeds(k) \/ OpenFails(k) \/ SendResult(k) \/ UndoOpen(k) \/ CallEnds(k)
    \/ DetachReturns(k) \/ DetachTells(k) \/ Panics(k)
    \/ OutputSends(k) \/ OutputEnds(k) \/ ReplySends(k)
    \/ WriterWrites(k) \/ WriterWaits(k) \/ WriterFails(k) \/ WriterEnds(k)
Terminal == HangsUp \/ ReaderEnds \/ Interrupt \/ \E key \in {"data", "open", "close", "select", "quit"} : Types(key)

Next == EventLoop \/ Shutdown \/ Terminal \/ \E k \in Open : Goroutine(k)

Spec == Init /\ [][Next]_vars

(* Steps that bring a goroutine closer to its end: each happens a bounded  *)
(* number of times, and none waits for the remote side.                    *)
WindsDown ==
    \/ ReaderEnds
    \/ \E k \in Open :
        \/ ctx /\ OpenFails(k)
        \/ Ending(k) /\ CallEnds(k)
        \/ UndoOpen(k)
        \/ DetachReturns(k) \/ DetachTells(k) \/ Panics(k)
        \/ OutputEnds(k) \/ WriterFails(k) \/ WriterEnds(k)

(* Goroutines that can run do; a select takes what stays ready; the sender *)
(* that waits longest is the next to find room.  Nothing is owed by the    *)
(* remote side or the user.                                                *)
Fairness ==
    /\ WF_vars(EventLoop) /\ WF_vars(Shutdown) /\ WF_vars(WindsDown)
    /\ WF_vars(TakeDone) /\ SF_vars(ReaderEnds)
FairSpec == Spec /\ Fairness

-----------------------------------------------------------------------------
(* Properties *)

(* Every variable keeps to its values; no queue exceeds its buffer.        *)
TypeOK ==
    /\ loop.at \in {"poll", "select", "grace", "leaving", "detaching", "joining",
                    "discarding", "returned", "crashed"}
    /\ ctx \in BOOLEAN /\ width \in Columns
    /\ Len(events) <= EventBuffer /\ Len(inputEvents) <= EventBuffer
    /\ reader \in {"reading", "failing", "done"}
    /\ \A k \in Open :
        /\ pane[k].state \in {"none", "active", "error", "done", "failed", "closed"}
        /\ Len(pane[k].ops) <= OperationBuffer
        /\ call[k] \in {"none", "live", "over"}
        /\ detacher[k] \in {"none", "detaching", "telling", "done", "panics"}

(* What the loop believes is so: it counts exactly the requests that have  *)
(* not been answered, panes stand in the order of their requests, one per  *)
(* process and never too many, one of them is selected if there is any,    *)
(* and their rectangles share the screen without overlap                   *)
(* (startOpen, acceptOpenResult, closeActivePane, applyLayout).            *)
Overlap(s, t) == /\ s.x < t.x + t.width /\ t.x < s.x + s.width
                 /\ s.y < t.y + t.height /\ t.y < s.y + s.height
Unanswered == {k \in Open : \/ opener[k].at \in {"opening", "result"}
                            \/ \E i \in 1..Len(events) : events[i] = Event("open", k)}
WindowsAgree ==
    loop.at \in {"poll", "select", "grace"} =>
    /\ ~ctx => opening = Cardinality(Unanswered)
    /\ Len(panes) + opening <= MaximumPanes
    /\ \A i, j \in 1..Len(panes) : i < j =>
        /\ panes[i] < panes[j]
        /\ opener[panes[i]].process # opener[panes[j]].process
        /\ ~Overlap(pane[panes[i]].rectangle, pane[panes[j]].rectangle)
    /\ \A i \in 1..Len(panes) :
        LET tile == pane[panes[i]].rectangle
        IN  tile.x + tile.width <= width /\ tile.y + tile.height <= Rows - 1
    /\ IF panes = <<>> THEN active = 0 ELSE active \in 1..Len(panes)

(* Whatever was dropped, delayed or overtaken: the last size a pane's      *)
(* attachment gets, or has been given, is the size of its content, except  *)
(* for one whose redraw was computed for another rectangle                 *)
(* (enqueuePane, retryPendingResizes).                                     *)
LastSize(p) ==
    LET queued == SelectSeq(<<p.busy>> \o p.ops, LAMBDA op : op \notin {Data, NoSize})
    IN  IF p.pending # NoSize THEN p.pending ELSE IF queued # <<>> THEN Last(queued) ELSE p.remote
SizesSettle(k) == LastSize(pane[k]) = Content(pane[k].rectangle)
NewestSizeWins ==
    \A i \in 1..Len(panes) :
        LET p == pane[panes[i]]
        IN  p.state = "active" /\ ~p.misled /\ call[panes[i]] = "live" /\ ~ctx /\ loop.at \in {"poll", "select", "grace"}
                => SizesSettle(panes[i])

(* Both together, with the types.                                          *)
WindowsConsistent == TypeOK /\ WindowsAgree /\ NewestSizeWins

(* The redraw sends the real size (docs/client-multi-window-design-v1.md). *)
RealSizeSent ==
    \A i \in 1..Len(panes) : pane[panes[i]].misled /\ pane[panes[i]].state = "active"
        => SizesSettle(panes[i])

(* A session ends in order: its context is not cancelled by itself while a *)
(* detach is under way, and when it returns every attachment ever opened   *)
(* has ended and every goroutine is gone (shutdown).                       *)
LeavesNothing ==
    /\ loop.at \in {"joining", "discarding", "returned"} =>
        \A k \in Open : detacher[k] \notin {"detaching", "panics"}
    /\ loop.at = "returned" =>
        WorkersDone /\ \A k \in Open : call[k] # "live"

(* One failed window does not end the session                              *)
(* (docs/client-multi-window-design-v1.md).                                *)
FailureContained == loop.at # "crashed"

(* A command that was typed is carried out, whatever the panes do, and a   *)
(* session asked to end does end: by a command, by SIGINT or by the loss   *)
(* of the terminal, with attachments that are wedged, opening or detaching *)
(* (eventLoop, shutdown).                                                  *)
SessionServes ==
    /\ inputEvents # <<>> /\ Running ~> (inputEvents = <<>> \/ loop.at \notin {"poll", "select", "grace"})
    /\ leave ~> ~Running
=============================================================================
