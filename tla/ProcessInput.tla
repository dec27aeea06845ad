------------------------------ MODULE ProcessInput ------------------------------
(***************************************************************************)
(* The managed input of one process: the pump that serializes writes       *)
(* (src/internal/process/input.go), StreamProcessInput, of which one at a  *)
(* time may write (input_service.go), what reap does to it (service.go),   *)
(* and the two clients: ProcessInputSession, one call at a time, and       *)
(* ProcessAttachment, which pipelines (src/pkg/client).                    *)
(*                                                                         *)
(* Concurrent: a handler and a client per attachment, the pump, the child  *)
(* that reads its input or does not, and the reaper.                       *)
(*                                                                         *)
(* Abstractions.  A chunk is Parts pieces, which the kernel takes one by   *)
(* one while its buffer has room; the child's death is what makes          *)
(* cmd.Wait return.  An attachment opens once.  A context that is          *)
(* cancelled and a connection that is lost are both a cut stream.  The     *)
(* log stream of a ProcessAttachment only ends: ProcessLog has the rest.   *)
(***************************************************************************)
EXTENDS Integers, FiniteSets, Sequences, Functions

CONSTANTS
    Attachment,     \* bound: streams ever opened
    Pipelined,      \* bound: those that are a ProcessAttachment if there is a terminal
    MaxOps,         \* bound: writes and resizes of all attachments together
    MaxCuts,        \* bound: streams cut when another one may still be lost
    Window,         \* processAttachPendingOperations
    Parts,          \* bound: pieces of a chunk
    PipeSize        \* pieces the kernel holds for the child

ASSUME InputAssumption ==
    /\ Pipelined \subseteq Attachment
    /\ {MaxOps, Window, Parts, PipeSize} \subseteq Nat \ {0}

VARIABLES
    mode,       \* PIPE or PTY
    child,      \* what the child does: alive, what is unread, all it was given
    reaper,     \* how far reap is: "wait", "closing", "exited" (record.done)
    closed,     \* processInput.closed
    pump,       \* processInput.run
    input,      \* record.inputAttached and info.InputState
    handler,    \* StreamProcessInput of each attachment
    up, down,   \* its frames in flight
    cut,        \* its stream's context is done
    client      \* ProcessInputSession or ProcessAttachment

server == <<reaper, closed, pump, input, handler>>
vars == <<mode, child, server, up, down, cut, client>>

Frame(kind, n) == [kind |-> kind, n |-> n]
End == {"DETACHED", "INPUT_CLOSED", "PROCESS_EXITED"}
NoOp == [by |-> "none", kind |-> "none", n |-> 0]
NewHandler == [pc |-> "none", expected |-> 1, op |-> NoOp, result |-> "none",
               deaf |-> FALSE]      \* receiveProcessInput left without a word
Exited == reaper = "exited"

-----------------------------------------------------------------------------
(* The record: who may write *)

Holders == {a \in Attachment : handler[a].pc \in {"loop", "offer", "await", "stuck"}}

Acquirable == ~Exited /\ input.state # "CLOSED" /\ ~closed /\ ~input.attached
Released == [attached |-> FALSE,
             state |-> IF input.state # "ATTACHED" THEN input.state
                       ELSE IF ~Exited /\ ~closed THEN "OPEN" ELSE "CLOSED"]
ClosedInput == [attached |-> FALSE, state |-> "CLOSED"]

Waits(a) == handler' = [handler EXCEPT ![a].pc = "stuck", ![a].result = "none", ![a].op = NoOp]
(* The handler returns: what is left of its frames is not read, its last   *)
(* one is sent if anyone still listens.                                    *)
Returns(a, last, then) ==
    /\ handler' = [handler EXCEPT ![a] = [NewHandler EXCEPT !.pc = "over"]]
    /\ input' = then
    /\ up' = [up EXCEPT ![a] = <<>>]
    /\ down' = IF cut[a] \/ client[a].pc = "over" THEN down ELSE [down EXCEPT ![a] = Append(@, last)]
Fails(a) == Returns(a, Frame("error", 0), Released)
(* It goes on, with the frames that are left. *)
GoesOn(a, rest) == up' = [up EXCEPT ![a] = rest] /\ UNCHANGED input
(* The operation is acknowledged, unless nobody can be told. *)
Acks(a, kind, rest) ==
    IF cut[a] THEN Fails(a) ELSE
    /\ handler' = [handler EXCEPT ![a] =
           [NewHandler EXCEPT !.pc = "loop", !.expected = handler[a].expected + 1]]
    /\ down' = [down EXCEPT ![a] = Append(@, Frame(kind, handler[a].expected))]
    /\ GoesOn(a, rest)

-----------------------------------------------------------------------------
(* StreamProcessInput *)

Elsewhere == <<mode, child, reaper, closed, pump, cut, client>>

Open(a) ==      \* acquireProcessInput, or why not
    /\ handler[a].pc = "none" /\ up[a] # <<>>
    /\ IF ~Acquirable THEN Returns(a, Frame("error", 0), input)
       ELSE IF cut[a] THEN Fails(a)
       ELSE /\ handler' = [handler EXCEPT ![a].pc = "loop"]
            /\ input' = [attached |-> TRUE, state |-> "ATTACHED"]
            /\ down' = [down EXCEPT ![a] = Append(@, Frame("opened", 0))]
            /\ up' = [up EXCEPT ![a] = Tail(@)]
    /\ UNCHANGED Elsewhere

Receive(a) ==   \* a frame receiveProcessInput handed over
    /\ handler[a].pc = "loop" /\ ~handler[a].deaf /\ up[a] # <<>>
    /\ LET frame == Head(up[a])
           rest == Tail(up[a])
           submit == /\ handler' = [handler EXCEPT ![a].pc = "offer",
                                        ![a].op = [by |-> a, kind |-> frame.kind, n |-> frame.n]]
                     /\ GoesOn(a, rest) /\ UNCHANGED down
       IN  IF frame.kind \in {"data", "resize"} /\ frame.n # handler[a].expected THEN Fails(a)
           ELSE CASE frame.kind = "data" -> submit
                  [] frame.kind = "resize" ->
                        IF mode = "PIPE" THEN Fails(a)
                        ELSE IF closed THEN Waits(a) /\ GoesOn(a, rest) /\ UNCHANGED down
                        ELSE Acks(a, "resized", rest)
                  [] frame.kind = "close" -> IF mode = "PTY" THEN Fails(a) ELSE submit
                  [] OTHER -> Returns(a, Frame("DETACHED", 0), Released)
    /\ UNCHANGED Elsewhere

(* The stream is cut.  The error reaches the loop, or receiveProcessInput  *)
(* finds its own context done first and leaves without a word: its select  *)
(* takes either.                                                           *)
Notice(a) ==
    /\ cut[a] /\ ~handler[a].deaf
    /\ \/ handler[a].pc = "none" /\ client[a].pc # "new" /\ Returns(a, Frame("error", 0), input)
       \/ handler[a].pc = "loop" /\ Fails(a)
    /\ UNCHANGED Elsewhere
GoDeaf(a) ==
    /\ cut[a] /\ handler[a].pc = "loop" /\ ~handler[a].deaf
    /\ handler' = [handler EXCEPT ![a].deaf = TRUE]
    /\ UNCHANGED <<Elsewhere, input, up, down>>

(* processInput.submit: the input is closed, and who would write waits for *)
(* the exit; or the caller's context is done.                              *)
SubmitWaits(a) ==        \* mutant: what the pump accepted is waited for
    /\ handler[a].pc = "offer" /\ cut[a] /\ Fails(a)
    /\ UNCHANGED Elsewhere
SubmitFails(a) ==
    /\ \/ /\ handler[a].pc = "offer" /\ closed /\ handler[a].op.kind = "data"
          /\ Waits(a) /\ UNCHANGED <<input, up, down>>
       \/ handler[a].pc = "offer" /\ closed /\ handler[a].op.kind = "close" /\ Fails(a)
       \/ handler[a].pc \in {"offer", "await"} /\ cut[a] /\ Fails(a)
    /\ UNCHANGED Elsewhere

Answered(a) ==
    /\ handler[a].pc = "await" /\ handler[a].result # "none"
    /\ CASE handler[a].result = "closed" -> Returns(a, Frame("INPUT_CLOSED", 0), ClosedInput)
         [] handler[a].result = "written" -> Acks(a, "ack", up[a])
         [] OTHER -> IF closed THEN Waits(a) /\ UNCHANGED <<input, up, down>> ELSE Fails(a)
    /\ UNCHANGED Elsewhere

HearExit(a) ==
    /\ handler[a].pc \in {"loop", "stuck"} /\ Exited
    /\ Returns(a, Frame("PROCESS_EXITED", 0), Released)
    /\ UNCHANGED Elsewhere
GiveUp(a) ==
    /\ handler[a].pc = "stuck" /\ cut[a] /\ Fails(a)
    /\ UNCHANGED Elsewhere

-----------------------------------------------------------------------------
(* The pump *)

(* Its result channel has room for one: a caller that left is not missed. *)
Tells(result) ==
    handler' = [a \in Attachment |-> IF a = pump.op.by /\ handler[a].pc = "await"
                                     THEN [handler[a] EXCEPT !.result = result] ELSE handler[a]]
Rests == pump' = [pc |-> "select", op |-> NoOp, at |-> 0]
Stops == pump' = [pc |-> "done", op |-> NoOp, at |-> 0]

Accept(a) ==
    /\ pump.pc = "select" /\ handler[a].pc = "offer"
    /\ pump' = [pc |-> "working", op |-> handler[a].op, at |-> 0]
    /\ handler' = [handler EXCEPT ![a].pc = "await", ![a].op = NoOp]
    /\ UNCHANGED <<mode, child, reaper, closed, input, up, down, cut, client>>

(* One piece goes to the child.  Without one, a terminal may still take    *)
(* the chunk.                                                              *)
WritesPiece ==
    /\ ~closed
    /\ IF child.alive
       THEN /\ child.unread < PipeSize
            /\ child' = [child EXCEPT !.unread = @ + 1,
                             !.given = Append(@, [by |-> pump.op.by, n |-> pump.op.n, at |-> pump.at + 1])]
       ELSE mode = "PTY" /\ UNCHANGED child
    /\ IF ~child.alive \/ pump.at + 1 = Parts THEN Rests /\ Tells("written")
       ELSE pump' = [pump EXCEPT !.at = @ + 1] /\ UNCHANGED handler
WriteCancellable ==      \* mutant: a caller that left takes its write with it
    /\ pump.pc = "working" /\ pump.op.kind = "data"
    /\ \/ WritesPiece
       \/ cut[pump.op.by] /\ Rests /\ UNCHANGED <<child, handler>>
    /\ UNCHANGED <<mode, reaper, closed, input, up, down, cut, client>>
Write ==
    /\ pump.pc = "working" /\ pump.op.kind = "data"
    /\ WritesPiece
    /\ UNCHANGED <<mode, reaper, closed, input, up, down, cut, client>>
WriteFails ==   \* the endpoint is closed, or there is no reader
    /\ pump.pc = "working" /\ pump.op.kind = "data"
    /\ closed \/ ~child.alive
    /\ IF closed THEN Stops ELSE Rests
    /\ Tells("failed")
    /\ UNCHANGED <<mode, child, reaper, closed, input, up, down, cut, client>>
CloseEndpoint ==
    /\ pump.pc = "working" /\ pump.op.kind = "close"
    /\ closed' = TRUE /\ Stops /\ Tells("closed")
    /\ UNCHANGED <<mode, child, reaper, input, up, down, cut, client>>
Stop ==
    /\ pump.pc = "select" /\ closed /\ Stops
    /\ UNCHANGED <<mode, child, reaper, closed, input, handler, up, down, cut, client>>

-----------------------------------------------------------------------------
(* The child and its reaper *)

Read ==
    /\ child.alive /\ child.unread > 0
    /\ child' = [child EXCEPT !.unread = @ - 1]
    /\ UNCHANGED <<mode, server, up, down, cut, client>>
Exit ==
    /\ child.alive
    /\ child' = [child EXCEPT !.alive = FALSE, !.unread = 0]
    /\ UNCHANGED <<mode, server, up, down, cut, client>>
Abort ==        \* command.close, or the drain of a terminal that takes too long
    /\ reaper = "wait" /\ ~child.alive
    /\ reaper' = "closing" /\ closed' = TRUE
    /\ UNCHANGED <<mode, child, pump, input, handler, up, down, cut, client>>
PublishState ==         \* mutant: only the state is recorded
    /\ reaper = "closing" /\ pump.pc = "done"
    /\ reaper' = "exited" /\ input' = [input EXCEPT !.state = "CLOSED"]
    /\ UNCHANGED <<mode, child, closed, pump, handler, up, down, cut, client>>
PublishExit ==
    /\ reaper = "closing" /\ pump.pc = "done"
    /\ reaper' = "exited" /\ input' = ClosedInput
    /\ UNCHANGED <<mode, child, closed, pump, handler, up, down, cut, client>>

-----------------------------------------------------------------------------
(* The clients.  A session makes one call at a time; an attachment has a   *)
(* lock for sending, two receivers, and what is reported first ends it.    *)

Session(a) == mode = "PIPE" \/ a \notin Pipelined
Pending(a) == Len(client[a].ops) - client[a].acked
Operations == FoldFunction(+, 0, [a \in Attachment |->
    Len(client[a].ops) + IF client[a].full THEN 1 ELSE 0])
RoomEndless(a) == TRUE   \* mutant: nothing bounds what is unacknowledged
Room(a) == Pending(a) < IF Session(a) THEN 1 ELSE Window
Sends(a, frames) ==
    up' = IF handler[a].pc = "over" \/ cut[a] THEN up ELSE [up EXCEPT ![a] = @ \o frames]
Over(c) == [c EXCEPT !.pc = "over", !.full = FALSE, !.reported = FALSE]
Breaks(a, c) ==         \* the stream has ended for this client
    IF Session(a) THEN Over(c) ELSE [c EXCEPT !.reported = TRUE]
Becomes(a, c) == client' = [client EXCEPT ![a] = c]
(* bound: of the sessions at a terminal, none resizes it *)
Kinds(a) == IF mode = "PTY" /\ Session(a) THEN {"data"} ELSE {"data", "resize"}
(* What was on its way to the client is not read any more. *)
Cuts(a) == cut' = [cut EXCEPT ![a] = TRUE] /\ down' = [down EXCEPT ![a] = <<>>]
Mine == <<mode, child, server>>

OpenStream(a) ==
    /\ client[a].pc = "new"
    /\ Becomes(a, [client[a] EXCEPT !.pc = "opening"])
    /\ Sends(a, <<Frame("open", 0)>>)
    /\ UNCHANGED <<Mine, down, cut>>
(* Whatever an attachment fails at while it opens cuts the stream. *)
Opened(a) ==
    /\ client[a].pc = "opening"
    /\ \/ /\ down[a] # <<>> /\ Head(down[a]).kind = "opened" /\ ~cut[a]
          /\ down' = [down EXCEPT ![a] = Tail(@)]
          /\ Becomes(a, [client[a] EXCEPT !.pc = "ready"])
          /\ UNCHANGED <<up, cut>>
       \/ /\ \/ cut[a]
             \/ down[a] # <<>> /\ Head(down[a]).kind = "error"
             \/ down[a] # <<>> /\ ~Session(a)     \* no log stream
          /\ Becomes(a, Over(client[a]))
          /\ IF Session(a) THEN UNCHANGED <<up, cut>>
             ELSE cut' = [cut EXCEPT ![a] = TRUE] /\ Sends(a, <<Frame("detach", 0)>>)
          /\ down' = [down EXCEPT ![a] = <<>>]
    /\ UNCHANGED Mine

(* Write or Resize.  An attachment whose window is full waits for room     *)
(* with the lock in its hands.                                             *)
Operates(a, kind) ==
    /\ Room(a)
    /\ \/ /\ Sends(a, <<Frame(kind, Len(client[a].ops) + 1)>>)
          /\ Becomes(a, [client[a] EXCEPT !.ops = Append(@, kind), !.full = FALSE])
       \/ /\ cut[a] \/ handler[a].pc = "over"
          /\ Becomes(a, Breaks(a, [client[a] EXCEPT !.full = FALSE]))
          /\ UNCHANGED up
Operate(a, kind) ==
    /\ client[a].pc = "ready" /\ ~client[a].full /\ Operations < MaxOps
    /\ \/ Operates(a, kind)
       \/ /\ ~Room(a) /\ ~Session(a) /\ ~cut[a]
          /\ Becomes(a, [client[a] EXCEPT !.full = TRUE])
          /\ UNCHANGED up
    /\ UNCHANGED <<Mine, down, cut>>
Resume(a, kind) ==
    /\ client[a].full /\ Operates(a, kind)
    /\ UNCHANGED <<Mine, down, cut>>
LoseHope(a) ==          \* reserveAck: the context is done
    /\ client[a].full /\ cut[a]
    /\ Becomes(a, [client[a] EXCEPT !.full = FALSE])
    /\ UNCHANGED <<Mine, up, down, cut>>

(* Detach, Close and CloseInput *)
Finish(a, kind) ==
    /\ client[a].pc = "ready" /\ ~client[a].full
    /\ kind = "close" => Session(a)
    /\ Session(a) => Pending(a) = 0
    /\ \/ /\ Sends(a, <<Frame(kind, 0)>>)
          /\ Becomes(a, [client[a] EXCEPT !.pc = "finishing"])
       \/ /\ cut[a] \/ handler[a].pc = "over"
          /\ Becomes(a, Breaks(a, [client[a] EXCEPT !.pc = "finishing"]))
          /\ UNCHANGED up
    /\ UNCHANGED <<Mine, down, cut>>

Listens(a) ==
    /\ client[a].pc \in {"ready", "finishing"}
    /\ Session(a) /\ client[a].pc = "ready" => Pending(a) = 1
Expected(a) == IF client[a].ops[client[a].acked + 1] = "data" THEN "ack" ELSE "resized"
ReceiveAnswer(a) ==
    /\ Listens(a) /\ ~cut[a] /\ down[a] # <<>>
    /\ down' = [down EXCEPT ![a] = Tail(@)]
    /\ LET frame == Head(down[a])
       IN  Becomes(a,
             CASE frame.kind \in End \cup {"error"} ->
                      IF frame.kind = "PROCESS_EXITED" /\ ~Session(a)
                      THEN client[a]        \* the logs will tell
                      ELSE Breaks(a, client[a])
               [] Pending(a) > 0 /\ frame = Frame(Expected(a), client[a].acked + 1) ->
                      [client[a] EXCEPT !.acked = @ + 1]
               [] OTHER -> [Breaks(a, client[a]) EXCEPT !.garbled = TRUE])
    /\ UNCHANGED <<Mine, up, cut>>
ReceiveFails(a) ==      \* either receiver, for an attachment
    /\ Listens(a) /\ cut[a]
    /\ Becomes(a, Breaks(a, client[a]))
    /\ UNCHANGED <<Mine, up, down, cut>>
ReceiveLogs(a) ==       \* receiveLogs, to its end
    /\ client[a].pc \in {"ready", "finishing"} /\ ~Session(a) /\ Exited
    /\ Becomes(a, Breaks(a, client[a]))
    /\ UNCHANGED <<Mine, up, down, cut>>
(* ProcessAttachment.finish cancels, and both receivers stop. *)
Conclude(a) ==
    /\ client[a].reported
    /\ Becomes(a, Over(client[a])) /\ Cuts(a)
    /\ UNCHANGED <<Mine, up>>

Lose(a) ==      \* the connection is lost, or the caller's context is cancelled
    /\ client[a].pc # "new" /\ handler[a].pc # "over"
    /\ Cardinality({b \in Attachment : cut[b]}) < MaxCuts
    /\ Cuts(a)
    /\ UNCHANGED <<Mine, up, client>>

-----------------------------------------------------------------------------
NewClient == [pc |-> "new", ops |-> <<>>, acked |-> 0, full |-> FALSE, reported |-> FALSE,
              garbled |-> FALSE]    \* ghost: an answer did not fit

Init ==
    /\ mode \in {"PIPE", "PTY"}
    /\ child = [alive |-> TRUE, unread |-> 0, given |-> <<>>]
    /\ reaper = "wait" /\ closed = FALSE
    /\ pump = [pc |-> "select", op |-> NoOp, at |-> 0]
    /\ input = [attached |-> FALSE, state |-> "OPEN"]
    /\ handler = [a \in Attachment |-> NewHandler]
    /\ up = [a \in Attachment |-> <<>>] /\ down = up
    /\ cut = [a \in Attachment |-> FALSE]
    /\ client = [a \in Attachment |-> NewClient]

Handle(a) == \/ Open(a) \/ Receive(a) \/ SubmitFails(a) \/ Answered(a) \/ HearExit(a) \/ GiveUp(a)
Leave(a) == Notice(a) \/ GoDeaf(a)
Run == Write \/ WriteFails \/ CloseEndpoint \/ Stop \/ \E a \in Attachment : Accept(a)
Reap == Abort \/ PublishExit
Hear(a) == \/ Opened(a) \/ LoseHope(a)
           \/ \E kind \in Kinds(a) : Resume(a, kind)
           \/ ReceiveAnswer(a) \/ ReceiveFails(a)
           \/ ReceiveLogs(a) \/ Conclude(a)
Call(a) == \/ OpenStream(a)
           \/ \E kind \in Kinds(a) : Operate(a, kind)
           \/ \E kind \in {"detach", "close"} : Finish(a, kind)

Next ==
    \/ Run \/ Reap \/ Read \/ Exit
    \/ \E a \in Attachment : Handle(a) \/ Leave(a) \/ Hear(a) \/ Call(a) \/ Lose(a)

(* Every goroutine runs.  Nothing makes the child read or exit, a user     *)
(* call, or a connection fail.                                             *)
FairSpec ==
    /\ Init /\ [][Next]_vars
    /\ WF_vars(Run) /\ WF_vars(Reap)
    /\ \A a \in Attachment : WF_vars(Handle(a) \/ Leave(a)) /\ WF_vars(Hear(a))

-----------------------------------------------------------------------------
(* Properties *)

(* Every variable keeps to its values; the window of unacknowledged        *)
(* operations is never exceeded, nor the buffer of the kernel.             *)
TypeOK ==
    /\ mode \in {"PIPE", "PTY"} /\ closed \in BOOLEAN
    /\ child.alive \in BOOLEAN /\ child.unread \in 0..PipeSize
    /\ reaper \in {"wait", "closing", "exited"}
    /\ pump.pc \in {"select", "working", "done"} /\ pump.at \in 0..(Parts - 1)
    /\ input \in [attached : BOOLEAN, state : {"OPEN", "ATTACHED", "CLOSED"}]
    /\ \A a \in Attachment :
        /\ handler[a].pc \in {"none", "loop", "offer", "await", "stuck", "over"}
        /\ handler[a].expected \in Nat \ {0}
        /\ client[a].pc \in {"new", "opening", "ready", "finishing", "over"}
        /\ Pending(a) \in 0..Window

(* One writer: at most one attachment holds the input, the record says     *)
(* attached exactly while one does and the process has not exited, and     *)
(* then the state a client is shown says so too (acquireProcessInput,      *)
(* releaseProcessInput, reap).                                             *)
OneWriter ==
    /\ TypeOK
    /\ Cardinality(Holders) <= 1
    /\ ~Exited => (input.attached <=> Holders # {})
    /\ input.attached <=> input.state = "ATTACHED"
    /\ Exited => input = ClosedInput

(* What the child is given: whole chunks, of one writer after the other,   *)
(* each in order; only the last may be cut short.  So a write whose caller *)
(* left is finished before the first byte of the next attachment (submit). *)
ChunksInOrder ==
    LET given == child.given
        all == 1..Len(given)
    IN  /\ \A i \in all :
            /\ given[i].at > 1 => i > 1 /\ given[i - 1] = [given[i] EXCEPT !.at = @ - 1]
            /\ given[i].at < Parts /\ i < Len(given) => given[i + 1] = [given[i] EXCEPT !.at = @ + 1]
        /\ \A i, j, k \in all : i < j /\ j < k /\ given[i].by = given[k].by =>
               given[j].by = given[i].by /\ given[i].n <= given[j].n

(* What a client saw acknowledged was written, unless the child is dead,   *)
(* and it never meets an answer that does not fit what it waits for, which *)
(* it has to call data loss (the receivers of both clients).               *)
AcksTell ==
    \A a \in Attachment :
        /\ ~client[a].garbled
        /\ child.alive => \A n \in 1..client[a].acked :
               client[a].ops[n] = "data" =>
                   \E i \in 1..Len(child.given) :
                       child.given[i] = [by |-> a, n |-> n, at |-> Parts]

(* The bytes a client is told of are the bytes the child gets, in order. *)
InputInOrder == ChunksInOrder /\ AcksTell

(* Attachments end.  When the child dies the reaper, every handler and     *)
(* every attachment come to an end, a pump that is blocked in a write      *)
(* included; a cut stream gives the input back, unless receiveProcessInput *)
(* left without a word; a client that detaches, closes or waits for room   *)
(* is done, unless the child leaves a write blocked.                       *)
Torn(a) == cut[a] /\ a \in Holders /\ ~handler[a].deaf
Waiting(a) == client[a].pc = "finishing" \/ client[a].full
Blocked == pump.pc = "working" /\ child.unread = PipeSize
Quiet == /\ Exited /\ Holders = {}
         /\ \A a \in Attachment : Session(a) \/ client[a].pc \in {"new", "over"}
AttachmentsEnd ==
    /\ ~child.alive ~> Quiet
    /\ (\E a \in Attachment : Torn(a)) ~> \A a \in Attachment : ~Torn(a)
    /\ (\E a \in Attachment : Waiting(a)) ~> (Blocked \/ \A a \in Attachment : ~Waiting(a))
=============================================================================
