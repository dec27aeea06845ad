--------------------------- MODULE ProcessInputProofs ---------------------------
(***************************************************************************)
(* Proofs about ProcessInput, for any number of attachments and operations,*)
(* any window and any size of chunk and pipe: one writer at a time; what   *)
(* the child is given is whole chunks in order; and what a client sees     *)
(* acknowledged was written.                                               *)
(*                                                                         *)
(* The argument follows an operation on its way: the frames to the handler *)
(* carry the numbers it expects next (Asks), the pump works for the        *)
(* handler that waits for it or for one that left (Serves), the pieces of  *)
(* its chunk are the last ones given (Pieces), no writer comes back        *)
(* (Order), and the answers on their way to a client that still listens    *)
(* are those it waits for (Told).                                          *)
(***************************************************************************)
EXTENDS ProcessInput, FiniteSetTheorems, TLAPS

Kind == {"none", "open", "opened", "data", "resize", "close", "detach", "ack", "resized", "error",
         "DETACHED", "INPUT_CLOSED", "PROCESS_EXITED"}
AnyFrame == [kind : Kind, n : Nat]
Operation == [by : Attachment \cup {"none"}, kind : Kind, n : Nat]
HandlerRecord ==
    [pc : {"none", "loop", "offer", "await", "stuck", "over"}, expected : Nat \ {0},
     op : Operation, result : {"none", "written", "closed", "failed"}, deaf : BOOLEAN]
ClientRecord ==
    [pc : {"new", "opening", "ready", "finishing", "over"}, ops : Seq({"data", "resize"}),
     acked : Nat, full : BOOLEAN, reported : BOOLEAN, garbled : BOOLEAN]
Piece == [by : Attachment, n : Nat, at : 1..Parts]

ClientTypes ==
    /\ client \in [Attachment -> ClientRecord]
    /\ \A a \in Attachment : Pending(a) \in 0..Window
Types ==
    /\ mode \in {"PIPE", "PTY"} /\ closed \in BOOLEAN
    /\ child \in [alive : BOOLEAN, unread : 0..PipeSize, given : Seq(Piece)]
    /\ reaper \in {"wait", "closing", "exited"}
    /\ pump \in [pc : {"select", "working", "done"}, op : Operation, at : 0..(Parts - 1)]
    /\ input \in [attached : BOOLEAN, state : {"OPEN", "ATTACHED", "CLOSED"}]
    /\ handler \in [Attachment -> HandlerRecord]
    /\ up \in [Attachment -> Seq(AnyFrame)]
    /\ down \in [Attachment -> Seq(AnyFrame)]
    /\ cut \in [Attachment -> BOOLEAN]
    /\ ClientTypes

(* The record and the handlers agree on who may write. *)
Held ==
    /\ \A a, b \in Holders : a = b
    /\ ~Exited => (input.attached <=> Holders # {})
    /\ input.attached <=> input.state = "ATTACHED"
    /\ Exited => input = ClosedInput

(* The pump works for a handler that waits for it, or for one that left;   *)
(* what a handler offers and waits for is what it expects.                 *)
Written(a, n) ==
    \E i \in 1..Len(child.given) : child.given[i] = [by |-> a, n |-> n, at |-> Parts]
Served(a) ==
    /\ handler[a].pc = "offer" =>
          /\ handler[a].op.by = a /\ handler[a].op.kind \in {"data", "close"}
          /\ handler[a].op.kind = "data" => handler[a].op.n = handler[a].expected
    /\ handler[a].pc = "await" /\ handler[a].result = "none" =>
          pump.pc = "working" /\ pump.op.by = a
    /\ handler[a].pc = "await" /\ handler[a].result = "written" /\ child.alive =>
          Written(a, handler[a].expected)
    /\ handler[a].pc # "await" => handler[a].result = "none"
Serves ==
    /\ pump.pc = "working" =>
          /\ pump.op.by \in Attachment /\ pump.op.kind \in {"data", "close"}
          /\ handler[pump.op.by].pc \in {"await", "over"}
          /\ handler[pump.op.by].pc = "await" =>
                /\ handler[pump.op.by].result = "none"
                /\ pump.op.kind = "data" => pump.op.n = handler[pump.op.by].expected
    /\ pump.pc # "working" => pump.at = 0
    /\ \A a \in Attachment : Served(a)

(* The last piece given is the one the pump wrote last; a chunk that it    *)
(* does not write is complete, while any more can be written.              *)
Pieces ==
    /\ \A i \in 1..Len(child.given) :
          /\ child.given[i].at > 1 =>
                i > 1 /\ child.given[i - 1] = [child.given[i] EXCEPT !.at = @ - 1]
          /\ child.given[i].at < Parts /\ i < Len(child.given) =>
                child.given[i + 1] = [child.given[i] EXCEPT !.at = @ + 1]
    /\ child.alive /\ pump.at > 0 =>
          /\ Len(child.given) > 0
          /\ child.given[Len(child.given)] = [by |-> pump.op.by, n |-> pump.op.n, at |-> pump.at]
    /\ child.alive /\ ~closed /\ pump.at = 0 /\ Len(child.given) > 0 =>
          child.given[Len(child.given)].at = Parts

(* A writer that another one followed has left, and the pump too has       *)
(* finished with it; numbers only grow.                                    *)
Order ==
    /\ \A i \in 1..Len(child.given) :
          LET a == child.given[i].by
          IN  /\ handler[a].pc # "none"
              /\ handler[a].pc # "over" => child.given[i].n <= handler[a].expected
              /\ pump.pc = "working" /\ pump.op.by # a => handler[a].pc = "over"
              /\ pump.pc = "working" /\ pump.op.by = a /\ pump.op.kind = "data" =>
                    child.given[i].n <= pump.op.n
    /\ \A i, j \in 1..Len(child.given) : i < j =>
          LET a == child.given[i].by
          IN  IF child.given[j].by = a THEN child.given[i].n <= child.given[j].n
              ELSE handler[a].pc = "over" /\ ~(pump.pc = "working" /\ pump.op.by = a)
    /\ \A i, j, k \in 1..Len(child.given) : i < j /\ j < k /\ child.given[i].by = child.given[k].by =>
          child.given[j].by = child.given[i].by

(* An attachment that still listens. *)
Live(a) == ~cut[a] /\ client[a].pc # "over"

(* Before it is opened nothing was sent but the request to open it. *)
Opens(a) ==
    /\ client[a].pc = "new" => up[a] = <<>> /\ handler[a].pc = "none"
    /\ client[a].pc \in {"new", "opening"} => client[a].ops = <<>> /\ client[a].acked = 0
    /\ client[a].full => client[a].pc = "ready"
    /\ handler[a].pc = "none" => handler[a].expected = 1
    /\ Live(a) /\ handler[a].pc = "none" =>
          client[a].pc \in {"new", "opening"} /\ Len(up[a]) <= 1 /\ down[a] = <<>>
    /\ Live(a) /\ client[a].pc = "opening" /\ a \in Holders =>
          handler[a].expected = 1 /\ Len(down[a]) = 1

(* The operations on their way to a handler are numbered from the next one *)
(* it expects to the last one that was sent.                               *)
Busy(a) == IF handler[a].pc \in {"offer", "await"} THEN 1 ELSE 0
IsOp(a, n, kind) == n \in 1..Len(client[a].ops) /\ client[a].ops[n] = kind
Asks(a) ==
    Live(a) /\ handler[a].pc \in {"loop", "offer", "await"} =>
        /\ \A i \in 1..Len(up[a]) : up[a][i].kind \in {"data", "resize"} =>
              up[a][i].n = handler[a].expected + Busy(a) + i - 1 /\ IsOp(a, up[a][i].n, up[a][i].kind)
        /\ client[a].pc \in {"opening", "ready"} =>
              Len(client[a].ops) = handler[a].expected - 1 + Busy(a) + Len(up[a])
        /\ \/ handler[a].pc = "offer" /\ handler[a].op.kind = "data"
           \/ handler[a].pc = "await" /\ handler[a].result = "none" /\ pump.op.kind = "data"
           \/ handler[a].pc = "await" /\ handler[a].result = "written"
           => IsOp(a, handler[a].expected, "data")

(* The answers on their way to a client are those it waits for; the one    *)
(* that ends the stream is the last.                                       *)
Answer(a, n) == Frame(IF client[a].ops[n] = "data" THEN "ack" ELSE "resized", n)
Ends(a, i) == down[a][i].kind \in End \cup {"error"} /\ i = Len(down[a]) /\ handler[a].pc = "over"
Fits(a, i) ==
    /\ client[a].acked + i <= Len(client[a].ops)
    /\ down[a][i] = Answer(a, client[a].acked + i)
    /\ child.alive /\ client[a].ops[client[a].acked + i] = "data" => Written(a, client[a].acked + i)
Told(a) ==
    Live(a) =>
        /\ \A i \in 1..Len(down[a]) :
              \/ down[a][i].kind = "opened" /\ i = 1 /\ client[a].pc = "opening"
              \/ Ends(a, i)
              \/ client[a].pc # "opening" /\ Fits(a, i)
        /\ a \in Holders /\ client[a].pc # "opening" =>
              handler[a].expected = client[a].acked + Len(down[a]) + 1

(* What a client saw acknowledged was written, as AcksTell has it. *)
Saw(a) ==
    /\ ~client[a].garbled
    /\ child.alive => \A n \in 1..client[a].acked : client[a].ops[n] = "data" => Written(a, n)

Talk(a) == Opens(a) /\ Asks(a) /\ Told(a) /\ Saw(a)
Talks == \A a \in Attachment : Talk(a)

IInv == Types /\ Held /\ Serves /\ Pieces /\ Order /\ Talks

-----------------------------------------------------------------------------
(* Types. *)

LEMMA TypesInit == Init => Types
PROOF
<1> SUFFICES ASSUME Init PROVE Types
  OBVIOUS
<1>1. 0 \in 0..PipeSize /\ 0 \in 0..(Parts - 1) /\ 0 \in 0..Window
  BY InputAssumption
<1>2. NoOp \in Operation
  BY DEF NoOp, Operation, Kind
<1>3. handler \in [Attachment -> HandlerRecord]
  BY <1>2 DEF Init, NewHandler, HandlerRecord
<1>4. client \in [Attachment -> ClientRecord] /\ \A a \in Attachment : client[a].ops = <<>> /\ client[a].acked = 0
  BY DEF Init, NewClient, ClientRecord
<1>5. \A a \in Attachment : Pending(a) \in 0..Window
  BY <1>1, <1>4 DEF Pending
<1>6. /\ up \in [Attachment -> Seq(AnyFrame)] /\ down \in [Attachment -> Seq(AnyFrame)]
      /\ cut \in [Attachment -> BOOLEAN]
  BY DEF Init
<1>7. child \in [alive : BOOLEAN, unread : 0..PipeSize, given : Seq(Piece)]
  BY <1>1 DEF Init
<1>8. pump \in [pc : {"select", "working", "done"}, op : Operation, at : 0..(Parts - 1)]
  BY <1>1, <1>2 DEF Init
<1>9. /\ mode \in {"PIPE", "PTY"} /\ closed \in BOOLEAN
      /\ reaper \in {"wait", "closing", "exited"}
      /\ input \in [attached : BOOLEAN, state : {"OPEN", "ATTACHED", "CLOSED"}]
  BY DEF Init
<1> QED BY <1>3, <1>4, <1>5, <1>6, <1>7, <1>8, <1>9 DEF Types, ClientTypes

(* What a variable of the state is made of. *)
LEMMA Fields ==
    ASSUME Types, NEW a \in Attachment
    PROVE  /\ handler[a] \in HandlerRecord /\ handler[a].expected \in Nat \ {0}
           /\ DOMAIN handler[a] = {"pc", "expected", "op", "result", "deaf"}
           /\ client[a] \in ClientRecord /\ client[a].acked \in Nat
           /\ client[a].ops \in Seq({"data", "resize"})
           /\ DOMAIN client[a] = {"pc", "ops", "acked", "full", "reported", "garbled"}
           /\ up[a] \in Seq(AnyFrame) /\ down[a] \in Seq(AnyFrame) /\ cut[a] \in BOOLEAN
           /\ input.state \in {"OPEN", "ATTACHED", "CLOSED"} /\ input.attached \in BOOLEAN
           /\ closed \in BOOLEAN /\ child.alive \in BOOLEAN
BY DEF Types, ClientTypes, HandlerRecord, ClientRecord

LEMMA FrameType ==
    ASSUME NEW kind \in Kind, NEW n \in Nat
    PROVE  Frame(kind, n) \in AnyFrame
BY DEF Frame, AnyFrame

LEMMA InputTypes ==
    ASSUME Types
    PROVE  /\ Released \in [attached : BOOLEAN, state : {"OPEN", "ATTACHED", "CLOSED"}]
           /\ ClosedInput \in [attached : BOOLEAN, state : {"OPEN", "ATTACHED", "CLOSED"}]
BY DEF Types, Released, ClosedInput

NewTypes ==
    /\ handler' \in [Attachment -> HandlerRecord]
    /\ up' \in [Attachment -> Seq(AnyFrame)]
    /\ down' \in [Attachment -> Seq(AnyFrame)]
    /\ input' \in [attached : BOOLEAN, state : {"OPEN", "ATTACHED", "CLOSED"}]

LEMMA ReturnsTypes ==
    ASSUME Types, NEW a \in Attachment, NEW last \in AnyFrame,
           NEW then \in [attached : BOOLEAN, state : {"OPEN", "ATTACHED", "CLOSED"}],
           Returns(a, last, then)
    PROVE  NewTypes
PROOF
<1>1. [NewHandler EXCEPT !.pc = "over"] \in HandlerRecord
  <2>1. NewHandler = [pc |-> "none", expected |-> 1, op |-> NoOp, result |-> "none", deaf |-> FALSE]
    BY DEF NewHandler
  <2>2. NoOp \in Operation /\ 1 \in Nat \ {0}
    BY DEF NoOp, Operation, Kind
  <2> QED BY <2>1, <2>2 DEF HandlerRecord
<1>2. Append(down[a], last) \in Seq(AnyFrame) /\ <<>> \in Seq(AnyFrame)
  BY Fields
<1>3. handler' \in [Attachment -> HandlerRecord]
  BY <1>1 DEF Types, Returns
<1>4. up' \in [Attachment -> Seq(AnyFrame)]
  BY <1>2 DEF Types, Returns
<1>5. down' \in [Attachment -> Seq(AnyFrame)]
  BY <1>2 DEF Types, Returns
<1>6. input' = then
  BY DEF Returns
<1> QED BY <1>3, <1>4, <1>5, <1>6 DEF NewTypes

LEMMA FailsTypes ==
    ASSUME Types, NEW a \in Attachment, Fails(a)
    PROVE  NewTypes
PROOF
<1>1. Frame("error", 0) \in AnyFrame
  BY FrameType DEF Kind
<1> QED BY <1>1, InputTypes, ReturnsTypes DEF Fails

LEMMA AcksTypes ==
    ASSUME Types, NEW a \in Attachment, NEW rest \in Seq(AnyFrame),
           NEW kind \in {"ack", "resized"}, Acks(a, kind, rest)
    PROVE  NewTypes
PROOF
<1>1. CASE cut[a]
  BY <1>1, FailsTypes DEF Acks
<1>2. CASE ~cut[a]
  <2>1. /\ handler' = [handler EXCEPT ![a] =
                 [NewHandler EXCEPT !.pc = "loop", !.expected = handler[a].expected + 1]]
        /\ down' = [down EXCEPT ![a] = Append(@, Frame(kind, handler[a].expected))]
        /\ up' = [up EXCEPT ![a] = rest] /\ input' = input
    BY <1>2 DEF Acks, GoesOn
  <2>2. [NewHandler EXCEPT !.pc = "loop", !.expected = handler[a].expected + 1] \in HandlerRecord
    <3>1. handler[a].expected + 1 \in Nat \ {0}
      BY Fields
    <3> QED BY <3>1 DEF NewHandler, HandlerRecord, NoOp, Operation, Kind
  <2>3. Append(down[a], Frame(kind, handler[a].expected)) \in Seq(AnyFrame)
    <3>1. Frame(kind, handler[a].expected) \in AnyFrame
      BY FrameType, Fields DEF Kind
    <3> QED BY <3>1, Fields
  <2>4. handler' \in [Attachment -> HandlerRecord]
    BY <2>1, <2>2 DEF Types
  <2>5. down' \in [Attachment -> Seq(AnyFrame)]
    BY <2>1, <2>3 DEF Types
  <2>6. up' \in [Attachment -> Seq(AnyFrame)] /\ input' = input
    BY <2>1 DEF Types
  <2> QED BY <2>4, <2>5, <2>6 DEF NewTypes, Types
<1> QED BY <1>1, <1>2

LEMMA WaitsTypes ==
    ASSUME Types, NEW a \in Attachment, Waits(a)
    PROVE  handler' \in [Attachment -> HandlerRecord]
PROOF
<1>1. [handler[a] EXCEPT !.pc = "stuck", !.result = "none", !.op = NoOp] \in HandlerRecord
  <2>1. NoOp \in Operation /\ handler[a] \in HandlerRecord
    BY Fields DEF NoOp, Operation, Kind
  <2> QED BY <2>1 DEF HandlerRecord
<1>2. handler' = [handler EXCEPT ![a] = [handler[a] EXCEPT !.pc = "stuck", !.result = "none", !.op = NoOp]]
  BY DEF Waits, Types
<1> QED BY <1>1, <1>2 DEF Types

(* The handler of one attachment takes a step. *)
LEMMA HandlerTypes ==
    ASSUME Types, NEW a \in Attachment, Handle(a) \/ Leave(a)
    PROVE  Types'
PROOF
<1>1. UNCHANGED <<mode, child, reaper, closed, pump, cut, client>>
  BY DEF Handle, Leave, Open, Receive, SubmitFails, Answered, HearExit, GiveUp, Notice, GoDeaf, Elsewhere
<1>2. ASSUME NewTypes PROVE Types'
  BY <1>1, <1>2 DEF Types, ClientTypes, NewTypes, Pending
<1>3. /\ Frame("error", 0) \in AnyFrame /\ Frame("opened", 0) \in AnyFrame
      /\ Frame("DETACHED", 0) \in AnyFrame /\ Frame("INPUT_CLOSED", 0) \in AnyFrame
      /\ Frame("PROCESS_EXITED", 0) \in AnyFrame
  BY FrameType DEF Kind
<1>4. /\ input \in [attached : BOOLEAN, state : {"OPEN", "ATTACHED", "CLOSED"}]
      /\ up \in [Attachment -> Seq(AnyFrame)] /\ down \in [Attachment -> Seq(AnyFrame)]
      /\ handler \in [Attachment -> HandlerRecord]
  BY DEF Types
<1>5. CASE Open(a)
  <2>1. CASE Fails(a)
    BY <1>2, <2>1, FailsTypes
  <2>2. CASE Returns(a, Frame("error", 0), input)
    BY <1>2, <1>3, <1>4, <2>2, ReturnsTypes
  <2>3. CASE /\ up[a] # <<>>
             /\ handler' = [handler EXCEPT ![a].pc = "loop"]
             /\ input' = [attached |-> TRUE, state |-> "ATTACHED"]
             /\ down' = [down EXCEPT ![a] = Append(@, Frame("opened", 0))]
             /\ up' = [up EXCEPT ![a] = Tail(@)]
    <3>1. [handler[a] EXCEPT !.pc = "loop"] \in HandlerRecord
      BY Fields DEF HandlerRecord
    <3>2. handler' \in [Attachment -> HandlerRecord]
      BY <1>4, <2>3, <3>1
    <3>3. Append(down[a], Frame("opened", 0)) \in Seq(AnyFrame) /\ Tail(up[a]) \in Seq(AnyFrame)
      BY <1>3, <2>3, Fields
    <3>4. down' \in [Attachment -> Seq(AnyFrame)]
      BY <1>4, <2>3, <3>3
    <3>5. up' \in [Attachment -> Seq(AnyFrame)]
      BY <1>4, <2>3, <3>3
    <3> QED BY <1>2, <2>3, <3>2, <3>4, <3>5 DEF NewTypes
  <2> QED BY <1>5, <2>1, <2>2, <2>3 DEF Open
<1>6. CASE Receive(a)
  <2> DEFINE frame == Head(up[a])
             rest == Tail(up[a])
  <2>1. frame \in AnyFrame /\ rest \in Seq(AnyFrame) /\ frame.kind \in Kind /\ frame.n \in Nat
    <3>1. up[a] \in Seq(AnyFrame) /\ up[a] # <<>>
      BY <1>6, Fields DEF Receive
    <3>2. frame \in AnyFrame /\ rest \in Seq(AnyFrame)
      BY <3>1
    <3> QED BY <3>2 DEF AnyFrame
  <2>2. up' = [up EXCEPT ![a] = rest] => up' \in [Attachment -> Seq(AnyFrame)]
    BY <1>4, <2>1
  <2> HIDE DEF frame, rest
  <2>3. CASE Fails(a)
    BY <1>2, <2>3, FailsTypes
  <2>4. CASE /\ handler' = [handler EXCEPT ![a].pc = "offer",
                                ![a].op = [by |-> a, kind |-> frame.kind, n |-> frame.n]]
             /\ GoesOn(a, rest) /\ UNCHANGED down
    <3>1. [handler[a] EXCEPT !.pc = "offer", !.op = [by |-> a, kind |-> frame.kind, n |-> frame.n]] \in HandlerRecord
      <4>1. [by |-> a, kind |-> frame.kind, n |-> frame.n] \in Operation /\ handler[a] \in HandlerRecord
        BY <2>1, Fields DEF Operation
      <4> QED BY <4>1 DEF HandlerRecord
    <3>2. handler' = [handler EXCEPT ![a] =
              [handler[a] EXCEPT !.pc = "offer", !.op = [by |-> a, kind |-> frame.kind, n |-> frame.n]]]
      BY <1>4, <2>4
    <3>3. handler' \in [Attachment -> HandlerRecord]
      BY <1>4, <3>1, <3>2
    <3> QED BY <1>2, <1>4, <2>2, <2>4, <3>3 DEF GoesOn, NewTypes
  <2>5. CASE Waits(a) /\ GoesOn(a, rest) /\ UNCHANGED down
    BY <1>2, <1>4, <2>2, <2>5, WaitsTypes DEF GoesOn, NewTypes
  <2>6. CASE Acks(a, "resized", rest)
    BY <1>2, <2>1, <2>6, AcksTypes
  <2>7. CASE Returns(a, Frame("DETACHED", 0), Released)
    BY <1>2, <1>3, <2>7, ReturnsTypes, InputTypes
  <2> QED BY <1>6, <2>3, <2>4, <2>5, <2>6, <2>7 DEF Receive, frame, rest
<1>7. CASE SubmitFails(a)
  <2>1. CASE Fails(a)
    BY <1>2, <2>1, FailsTypes
  <2>2. CASE Waits(a) /\ UNCHANGED <<input, up, down>>
    BY <1>2, <1>4, <2>2, WaitsTypes DEF NewTypes
  <2> QED BY <1>7, <2>1, <2>2 DEF SubmitFails
<1>8. CASE Answered(a)
  <2>1. CASE Fails(a)
    BY <1>2, <2>1, FailsTypes
  <2>2. CASE Waits(a) /\ UNCHANGED <<input, up, down>>
    BY <1>2, <1>4, <2>2, WaitsTypes DEF NewTypes
  <2>3. CASE Returns(a, Frame("INPUT_CLOSED", 0), ClosedInput)
    BY <1>2, <1>3, <2>3, ReturnsTypes, InputTypes
  <2>4. CASE Acks(a, "ack", up[a])
    BY <1>2, <2>4, AcksTypes, Fields
  <2> QED BY <1>8, <2>1, <2>2, <2>3, <2>4 DEF Answered
<1>9. CASE HearExit(a)
  BY <1>2, <1>3, <1>9, ReturnsTypes, InputTypes DEF HearExit
<1>10. CASE GiveUp(a)
  BY <1>2, <1>10, FailsTypes DEF GiveUp
<1>11. CASE Notice(a)
  <2>1. CASE Fails(a)
    BY <1>2, <2>1, FailsTypes
  <2>2. CASE Returns(a, Frame("error", 0), input)
    BY <1>2, <1>3, <1>4, <2>2, ReturnsTypes
  <2> QED BY <1>11, <2>1, <2>2 DEF Notice
<1>12. CASE GoDeaf(a)
  <2>1. [handler[a] EXCEPT !.deaf = TRUE] \in HandlerRecord
    BY Fields DEF HandlerRecord
  <2>2. handler' \in [Attachment -> HandlerRecord] /\ UNCHANGED <<input, up, down>>
    BY <1>4, <1>12, <2>1 DEF GoDeaf
  <2> QED BY <1>2, <1>4, <2>2 DEF NewTypes
<1> QED BY <1>5, <1>6, <1>7, <1>8, <1>9, <1>10, <1>11, <1>12 DEF Handle, Leave

(* The pump, the child and the reaper take a step. *)
LEMMA PumpTypes ==
    ASSUME Types, Serves, Run \/ Reap \/ Read \/ Exit
    PROVE  Types'
PROOF
<1> USE DEF Types, ClientTypes, Pending
<1>1. \A result \in {"written", "closed", "failed"} :
          Tells(result) => handler' \in [Attachment -> HandlerRecord]
  <2> SUFFICES ASSUME NEW result \in {"written", "closed", "failed"}, Tells(result)
               PROVE  handler' \in [Attachment -> HandlerRecord]
    OBVIOUS
  <2>1. ASSUME NEW a \in Attachment PROVE [handler[a] EXCEPT !.result = result] \in HandlerRecord
    <3>1. PICK old, new : old = handler[a] /\ new = [old EXCEPT !.result = result]
      OBVIOUS
    <3>2. old \in HandlerRecord
      BY <3>1
    <3>3. new \in HandlerRecord
      BY <3>1, <3>2 DEF HandlerRecord
    <3> QED BY <3>1, <3>3
  <2> HIDE DEF HandlerRecord
  <2> QED BY <2>1 DEF Tells
<1>2. NoOp \in Operation /\ 0 \in 0..(Parts - 1) /\ Parts \in Nat /\ PipeSize \in Nat
  BY InputAssumption DEF NoOp, Operation, Kind
<1>3. Rests \/ Stops => pump' \in [pc : {"select", "working", "done"}, op : Operation, at : 0..(Parts - 1)]
  BY <1>2 DEF Rests, Stops
<1>4. CASE Write
  <2>1. UNCHANGED <<mode, reaper, closed, input, up, down, cut, client>>
    BY <1>4 DEF Write
  <2>2. child' \in [alive : BOOLEAN, unread : 0..PipeSize, given : Seq(Piece)]
    <3>1. CASE UNCHANGED child
      BY <3>1
    <3>2. CASE /\ child.unread < PipeSize
               /\ child' = [child EXCEPT !.unread = @ + 1,
                    !.given = Append(@, [by |-> pump.op.by, n |-> pump.op.n, at |-> pump.at + 1])]
      <4>1. [by |-> pump.op.by, n |-> pump.op.n, at |-> pump.at + 1] \in Piece
        BY <1>2, <1>4 DEF Write, Serves, Piece, Operation
      <4>2. Append(child.given, [by |-> pump.op.by, n |-> pump.op.n, at |-> pump.at + 1]) \in Seq(Piece)
        BY <4>1
      <4>3. child.unread + 1 \in 0..PipeSize
        BY <1>2, <3>2
      <4> HIDE DEF Piece
      <4> QED BY <3>2, <4>2, <4>3
    <3> QED BY <1>4, <3>1, <3>2 DEF Write, WritesPiece
  <2>3. /\ handler' \in [Attachment -> HandlerRecord]
        /\ pump' \in [pc : {"select", "working", "done"}, op : Operation, at : 0..(Parts - 1)]
    <3>1. CASE Rests /\ Tells("written")
      BY <1>1, <1>3, <3>1
    <3>2. CASE pump' = [pump EXCEPT !.at = @ + 1] /\ UNCHANGED handler /\ pump.at + 1 # Parts
      <4>1. pump.at + 1 \in 0..(Parts - 1)
        BY <1>2, <3>2
      <4> QED BY <3>2, <4>1
    <3> QED BY <1>4, <3>1, <3>2 DEF Write, WritesPiece
  <2> QED BY <2>1, <2>2, <2>3
<1>5. CASE WriteFails \/ CloseEndpoint
  <2>1. /\ handler' \in [Attachment -> HandlerRecord]
        /\ pump' \in [pc : {"select", "working", "done"}, op : Operation, at : 0..(Parts - 1)]
    BY <1>1, <1>3, <1>5 DEF WriteFails, CloseEndpoint
  <2> QED BY <1>5, <2>1 DEF WriteFails, CloseEndpoint
<1>6. CASE Stop
  BY <1>3, <1>6 DEF Stop
<1>7. ASSUME NEW a \in Attachment, Accept(a) PROVE Types'
  <2>1. [handler[a] EXCEPT !.pc = "await", !.op = NoOp] \in HandlerRecord
    <3>1. handler[a] \in HandlerRecord /\ NoOp \in Operation
      BY <1>2
    <3> HIDE DEF NoOp, Types, Operation
    <3> QED BY <3>1 DEF HandlerRecord
  <2>2. handler' = [handler EXCEPT ![a] = [handler[a] EXCEPT !.pc = "await", !.op = NoOp]]
    BY <1>7 DEF Accept
  <2>3. handler' \in [Attachment -> HandlerRecord]
    BY <2>1, <2>2
  <2>4. pump' \in [pc : {"select", "working", "done"}, op : Operation, at : 0..(Parts - 1)]
    BY <1>2, <1>7, Fields DEF Accept, HandlerRecord
  <2> QED BY <1>7, <2>3, <2>4 DEF Accept
<1>8. CASE Read \/ Exit
  <2>1. child' \in [alive : BOOLEAN, unread : 0..PipeSize, given : Seq(Piece)]
    <3>1. 0 \in 0..PipeSize /\ (child.unread > 0 => child.unread - 1 \in 0..PipeSize)
      BY <1>2
    <3> HIDE DEF Piece
    <3>2. CASE Read
      BY <3>1, <3>2 DEF Read
    <3>3. CASE Exit
      BY <3>1, <3>3 DEF Exit
    <3> QED BY <1>8, <3>2, <3>3
  <2> QED BY <1>8, <2>1 DEF Read, Exit, server
<1>9. CASE Reap
  BY <1>9, InputTypes DEF Reap, Abort, PublishExit
<1> QED BY <1>4, <1>5, <1>6, <1>7, <1>8, <1>9 DEF Run

(* A client that is over, or breaks, has the same operations. *)
LEMMA BreakTypes ==
    ASSUME Types, NEW a \in Attachment, NEW c \in ClientRecord
    PROVE  /\ Over(c) \in ClientRecord /\ Over(c).ops = c.ops /\ Over(c).acked = c.acked
           /\ Breaks(a, c) \in ClientRecord /\ Breaks(a, c).ops = c.ops /\ Breaks(a, c).acked = c.acked
BY DEF Over, Breaks, ClientRecord

(* A client takes a step: it becomes another one, whose window is kept.    *)
LEMMA ClientTypesStep ==
    ASSUME Types, NEW a \in Attachment, NEW c \in ClientRecord, Becomes(a, c),
           Len(c.ops) - c.acked \in 0..Window
    PROVE  ClientTypes'
PROOF
<1>1. client' = [client EXCEPT ![a] = c]
  BY DEF Becomes
<1>2. client' \in [Attachment -> ClientRecord]
  BY <1>1 DEF Types, ClientTypes
<1>3. client'[a] = c /\ \A b \in Attachment : b # a => client'[b] = client[b]
  BY <1>1 DEF Types, ClientTypes
<1>4. \A b \in Attachment : Pending(b)' \in 0..Window
  BY <1>3 DEF Types, ClientTypes, Pending
<1> QED BY <1>2, <1>4 DEF ClientTypes

LEMMA CutTypes ==
    ASSUME Types, NEW a \in Attachment
    PROVE  /\ Cuts(a) => cut' \in [Attachment -> BOOLEAN] /\ down' \in [Attachment -> Seq(AnyFrame)]
           /\ down' = [down EXCEPT ![a] = Tail(@)] /\ down[a] # <<>> => down' \in [Attachment -> Seq(AnyFrame)]
           /\ down' = [down EXCEPT ![a] = <<>>] => down' \in [Attachment -> Seq(AnyFrame)]
           /\ \A kind \in Kind, n \in Nat : Sends(a, <<Frame(kind, n)>>) => up' \in [Attachment -> Seq(AnyFrame)]
PROOF
<1>1. <<>> \in Seq(AnyFrame) /\ (down[a] # <<>> => Tail(down[a]) \in Seq(AnyFrame))
  BY Fields
<1>2. Cuts(a) => cut' \in [Attachment -> BOOLEAN] /\ down' \in [Attachment -> Seq(AnyFrame)]
  BY <1>1 DEF Cuts, Types
<1>3. down' = [down EXCEPT ![a] = Tail(@)] /\ down[a] # <<>> => down' \in [Attachment -> Seq(AnyFrame)]
  BY <1>1 DEF Types
<1>4. down' = [down EXCEPT ![a] = <<>>] => down' \in [Attachment -> Seq(AnyFrame)]
  BY <1>1 DEF Types
<1>5. ASSUME NEW kind \in Kind, NEW n \in Nat, Sends(a, <<Frame(kind, n)>>)
      PROVE  up' \in [Attachment -> Seq(AnyFrame)]
  <2>1. up[a] \o <<Frame(kind, n)>> \in Seq(AnyFrame)
    BY FrameType, Fields
  <2> QED BY <1>5, <2>1 DEF Sends, Types
<1> QED BY <1>2, <1>3, <1>4, <1>5

(* A client takes a step: its own record, its frames, its stream.          *)
LEMMA ClientStepTypes ==
    ASSUME Types, NEW a \in Attachment, Hear(a) \/ Call(a) \/ Lose(a)
    PROVE  Types'
PROOF
<1>1. UNCHANGED <<mode, child, reaper, closed, pump, input, handler>>
  BY DEF Hear, Call, Opened, LoseHope, Resume, ReceiveAnswer, ReceiveFails, ReceiveLogs, Conclude,
     OpenStream, Operate, Finish, Lose, Mine, server
<1>2. ASSUME ClientTypes', up' \in [Attachment -> Seq(AnyFrame)], down' \in [Attachment -> Seq(AnyFrame)],
             cut' \in [Attachment -> BOOLEAN]
      PROVE  Types'
  BY <1>1, <1>2 DEF Types
<1>3. /\ up \in [Attachment -> Seq(AnyFrame)] /\ down \in [Attachment -> Seq(AnyFrame)]
      /\ cut \in [Attachment -> BOOLEAN] /\ ClientTypes
  BY DEF Types
<1>4. /\ client[a] \in ClientRecord /\ Len(client[a].ops) - client[a].acked \in 0..Window
      /\ Len(client[a].ops) \in Nat /\ client[a].acked \in Nat /\ Window \in Nat /\ 1 <= Window
  BY Fields, InputAssumption DEF Types, ClientTypes, Pending
<1> DEFINE c == client[a]
<1>5. /\ [c EXCEPT !.pc = "opening"] \in ClientRecord
      /\ [c EXCEPT !.pc = "ready"] \in ClientRecord
      /\ [c EXCEPT !.pc = "finishing"] \in ClientRecord
      /\ [c EXCEPT !.full = FALSE] \in ClientRecord
      /\ [c EXCEPT !.full = TRUE] \in ClientRecord
      /\ \A d \in {[c EXCEPT !.pc = "opening"], [c EXCEPT !.pc = "ready"], [c EXCEPT !.pc = "finishing"],
                   [c EXCEPT !.full = FALSE], [c EXCEPT !.full = TRUE]} :
             d.ops = c.ops /\ d.acked = c.acked
  BY <1>4 DEF ClientRecord

<1>6. ASSUME NEW d \in ClientRecord, d.ops = c.ops, d.acked = c.acked,
             \/ Becomes(a, d)
             \/ Becomes(a, Over(d))
             \/ Becomes(a, Breaks(a, d))
      PROVE  ClientTypes'
  BY <1>4, <1>6, BreakTypes, ClientTypesStep
<1>7. ASSUME NEW kind \in {"data", "resize"}, Operates(a, kind)
      PROVE  ClientTypes' /\ (up' = up \/ up' \in [Attachment -> Seq(AnyFrame)])
  <2>1. CASE /\ Sends(a, <<Frame(kind, Len(c.ops) + 1)>>)
             /\ Becomes(a, [c EXCEPT !.ops = Append(@, kind), !.full = FALSE])
    <3>1. Append(c.ops, kind) \in Seq({"data", "resize"}) /\ Len(Append(c.ops, kind)) = Len(c.ops) + 1
      BY Fields
    <3>2. [c EXCEPT !.ops = Append(c.ops, kind), !.full = FALSE] \in ClientRecord
      BY <1>4, <3>1 DEF ClientRecord
    <3>3. Len(c.ops) - c.acked < Window
      BY <1>4, <1>7, InputAssumption DEF Operates, Room, Pending
    <3>4. Len(Append(c.ops, kind)) - c.acked \in 0..Window
      BY <1>4, <3>1, <3>3
    <3>5. ClientTypes'
      <4> DEFINE d == [c EXCEPT !.ops = Append(c.ops, kind), !.full = FALSE]
      <4>1. d.ops = Append(c.ops, kind) /\ d.acked = c.acked /\ Becomes(a, d)
        BY <1>4, <2>1 DEF ClientRecord
      <4>2. d \in ClientRecord
        BY <3>2
      <4> HIDE DEF d
      <4>3. Len(d.ops) - d.acked \in 0..Window
        BY <3>4, <4>1
      <4> QED BY <4>1, <4>2, <4>3, ClientTypesStep
    <3>6. up' \in [Attachment -> Seq(AnyFrame)]
      <4>1. kind \in Kind /\ Len(c.ops) + 1 \in Nat
        BY <1>4 DEF Kind
      <4> HIDE DEF c
      <4> QED BY <2>1, <4>1, CutTypes
    <3> QED BY <3>5, <3>6
  <2>2. CASE Becomes(a, Breaks(a, [c EXCEPT !.full = FALSE])) /\ UNCHANGED up
    BY <1>5, <1>6, <2>2
  <2> QED BY <1>7, <2>1, <2>2 DEF Operates
<1>8. Kinds(a) \subseteq {"data", "resize"}
  BY DEF Kinds
<1>9. CASE Call(a)
  <2>1. CASE OpenStream(a)
    <3>1. ClientTypes'
      BY <1>5, <1>6, <2>1 DEF OpenStream
    <3>2. up' \in [Attachment -> Seq(AnyFrame)]
      BY <2>1, CutTypes DEF OpenStream, Kind
    <3> QED BY <1>2, <1>3, <2>1, <3>1, <3>2 DEF OpenStream
  <2>2. ASSUME NEW kind \in {"data", "resize"}, Operate(a, kind) PROVE Types'
    <3>1. CASE Operates(a, kind)
      BY <1>2, <1>3, <1>7, <2>2, <3>1 DEF Operate
    <3>2. CASE Becomes(a, [c EXCEPT !.full = TRUE]) /\ UNCHANGED up
      BY <1>2, <1>3, <1>5, <1>6, <2>2, <3>2 DEF Operate
    <3> QED BY <2>2, <3>1, <3>2 DEF Operate
  <2>3. ASSUME NEW kind \in {"detach", "close"}, Finish(a, kind) PROVE Types'
    <3>1. ClientTypes'
      BY <1>5, <1>6, <2>3 DEF Finish
    <3>2. up' \in [Attachment -> Seq(AnyFrame)]
      <4>1. Sends(a, <<Frame(kind, 0)>>) => up' \in [Attachment -> Seq(AnyFrame)]
        BY CutTypes DEF Kind
      <4> QED BY <1>3, <2>3, <4>1 DEF Finish
    <3> QED BY <1>2, <1>3, <2>3, <3>1, <3>2 DEF Finish
  <2> QED BY <1>8, <1>9, <2>1, <2>2, <2>3 DEF Call
<1>10. CASE Opened(a)
  <2>1. ClientTypes'
    BY <1>4, <1>5, <1>6, <1>10 DEF Opened
  <2>2. down' \in [Attachment -> Seq(AnyFrame)]
    BY <1>10, CutTypes DEF Opened
  <2>3. cut' \in [Attachment -> BOOLEAN]
    BY <1>3, <1>10 DEF Opened
  <2>4. up' \in [Attachment -> Seq(AnyFrame)]
    <3>1. Sends(a, <<Frame("detach", 0)>>) => up' \in [Attachment -> Seq(AnyFrame)]
      BY CutTypes DEF Kind
    <3> QED BY <1>3, <1>10, <3>1 DEF Opened
  <2> QED BY <1>2, <2>1, <2>2, <2>3, <2>4
<1>11. CASE LoseHope(a)
  BY <1>2, <1>3, <1>5, <1>6, <1>11 DEF LoseHope
<1>12. ASSUME NEW kind \in Kinds(a), Resume(a, kind) PROVE Types'
  BY <1>2, <1>3, <1>7, <1>8, <1>12 DEF Resume
<1>13. CASE ReceiveAnswer(a)
  <2>1. down' \in [Attachment -> Seq(AnyFrame)]
    BY <1>13, CutTypes DEF ReceiveAnswer
  <2>2. ClientTypes'
    <3>1. CASE Becomes(a, c) \/ Becomes(a, Breaks(a, c))
      BY <1>4, <1>6, <3>1
    <3>2. CASE Pending(a) > 0 /\ Becomes(a, [c EXCEPT !.acked = @ + 1])
      <4> DEFINE d == [c EXCEPT !.acked = c.acked + 1]
      <4>1. d \in ClientRecord /\ d.ops = c.ops /\ d.acked = c.acked + 1
        BY <1>4 DEF ClientRecord
      <4>2. Becomes(a, d)
        BY <3>2
      <4>3. Len(c.ops) - (c.acked + 1) \in 0..Window
        BY SMTT(40), <1>4, <3>2 DEF Pending
      <4> HIDE DEF d
      <4> QED BY <4>1, <4>2, <4>3, ClientTypesStep
    <3>3. CASE Becomes(a, [Breaks(a, c) EXCEPT !.garbled = TRUE])
      <4> DEFINE d == [Breaks(a, c) EXCEPT !.garbled = TRUE]
      <4>1. Breaks(a, c) \in ClientRecord /\ Breaks(a, c).ops = c.ops /\ Breaks(a, c).acked = c.acked
        BY <1>4, BreakTypes
      <4>2. d \in ClientRecord /\ d.ops = c.ops /\ d.acked = c.acked
        BY <4>1 DEF ClientRecord
      <4>3. Becomes(a, d)
        BY <3>3
      <4> HIDE DEF d
      <4> QED BY <1>6, <4>2, <4>3
    <3> QED BY <1>13, <3>1, <3>2, <3>3 DEF ReceiveAnswer
  <2> QED BY <1>2, <1>3, <1>13, <2>1, <2>2 DEF ReceiveAnswer
<1>14. CASE ReceiveFails(a) \/ ReceiveLogs(a)
  BY <1>2, <1>3, <1>4, <1>6, <1>14 DEF ReceiveFails, ReceiveLogs
<1>15. CASE Conclude(a)
  BY <1>2, <1>3, <1>4, <1>6, <1>15, CutTypes DEF Conclude
<1>16. CASE Lose(a)
  <2>1. ClientTypes'
    BY <1>3, <1>16 DEF Lose, ClientTypes, Pending
  <2> QED BY <1>2, <1>3, <1>16, <2>1, CutTypes DEF Lose
<1> QED BY <1>9, <1>10, <1>11, <1>12, <1>13, <1>14, <1>15, <1>16 DEF Hear

LEMMA TypesStep == Types /\ Serves /\ [Next]_vars => Types'
PROOF
<1>1. ASSUME Types, UNCHANGED vars PROVE Types'
  BY <1>1 DEF Types, ClientTypes, Pending, vars, server
<1> QED BY <1>1, HandlerTypes, PumpTypes, ClientStepTypes DEF Next

-----------------------------------------------------------------------------
(* One writer. *)

LEMMA HeldInit == Init => Held
BY DEF Init, Held, Holders, NewHandler, Exited, ClosedInput

(* A handler that returns gives the input back, if it held it.             *)
LEMMA ReturnsHeld ==
    ASSUME Types, Held, NEW a \in Attachment, NEW last, NEW then, Returns(a, last, then),
           UNCHANGED <<reaper, closed>>,
           then = Released \/ (then = ClosedInput /\ a \in Holders) \/ (then = input /\ a \notin Holders),
           a \in Holders \/ ~input.attached
    PROVE  Held'
PROOF
<1>1. /\ handler' = [handler EXCEPT ![a] = [NewHandler EXCEPT !.pc = "over"]] /\ input' = then
      /\ handler'[a].pc = "over"
      /\ \A b \in Attachment : b # a => handler'[b] = handler[b]
  BY DEF Returns, NewHandler, Types
<1>2. Holders' = Holders \ {a}
  BY <1>1 DEF Holders
<1>3. a \in Holders => Holders' = {}
  BY <1>2 DEF Held
<1>4. Exited' = Exited
  BY DEF Exited
<1>5. /\ Released.attached = FALSE /\ ClosedInput.attached = FALSE
      /\ ClosedInput.state = "CLOSED" /\ Released.state # "ATTACHED"
      /\ Exited => Released = ClosedInput
  <2>1. Exited => input.state = "CLOSED"
    BY DEF Held, ClosedInput
  <2> QED BY <2>1 DEF Released, ClosedInput
<1>6. \A b, d \in Holders' : b = d
  BY <1>2 DEF Held
<1>7. input'.attached <=> input'.state = "ATTACHED"
  BY <1>1, <1>5 DEF Held
<1>8. Exited' => input' = ClosedInput'
  BY <1>1, <1>4, <1>5 DEF Held, ClosedInput
<1>9. ~Exited' => (input'.attached <=> Holders' # {})
  BY <1>1, <1>2, <1>3, <1>4, <1>5 DEF Held
<1> QED BY <1>6, <1>7, <1>8, <1>9 DEF Held

(* One that goes on keeps it. *)
LEMMA KeepsHeld ==
    ASSUME Types, Held, UNCHANGED <<reaper, input>>, Holders' = Holders
    PROVE  Held'
BY DEF Held, Exited, ClosedInput

LEMMA FailsHeld ==
    ASSUME Types, Held, NEW a \in Attachment, Fails(a), UNCHANGED <<reaper, closed>>,
           a \in Holders \/ ~input.attached
    PROVE  Held'
BY ReturnsHeld DEF Fails

LEMMA HandlerHeld ==
    ASSUME Types, Held, NEW a \in Attachment, Handle(a) \/ Leave(a)
    PROVE  Held'
PROOF
<1>1. UNCHANGED <<reaper, closed>>
  BY DEF Handle, Leave, Open, Receive, SubmitFails, Answered, HearExit, GiveUp, Notice, GoDeaf, Elsewhere
<1>2. ASSUME handler[a].pc \in {"loop", "offer", "await", "stuck"},
             handler'[a].pc \in {"loop", "offer", "await", "stuck"},
             \A b \in Attachment : b # a => handler'[b] = handler[b]
      PROVE  Holders' = Holders
  BY <1>2 DEF Holders
<1>3. handler[a].pc \in {"loop", "offer", "await", "stuck"} <=> a \in Holders
  BY DEF Holders
<1>4. handler \in [Attachment -> HandlerRecord] /\ handler[a] \in HandlerRecord
  BY DEF Types
<1>5. ASSUME a \in Holders, NEW rest, NEW kind, Acks(a, kind, rest) PROVE Held'
  <2>1. CASE cut[a]
    BY <1>1, <1>5, <2>1, FailsHeld DEF Acks
  <2>2. CASE ~cut[a]
    <3>1. input' = input /\ handler' = [handler EXCEPT ![a] =
             [NewHandler EXCEPT !.pc = "loop", !.expected = handler[a].expected + 1]]
      BY <1>5, <2>2 DEF Acks, GoesOn
    <3>2. handler'[a].pc = "loop" /\ \A b \in Attachment : b # a => handler'[b] = handler[b]
      BY <1>4, <3>1 DEF NewHandler
    <3> QED BY <1>1, <1>2, <1>3, <1>5, <3>1, <3>2, KeepsHeld
  <2> QED BY <2>1, <2>2
<1>6. ASSUME a \in Holders, Waits(a), UNCHANGED input PROVE Held'
  <2>1. handler'[a].pc = "stuck" /\ \A b \in Attachment : b # a => handler'[b] = handler[b]
    BY <1>4, <1>6, Fields DEF Waits
  <2> QED BY <1>1, <1>2, <1>3, <1>6, <2>1, KeepsHeld
<1>7. CASE Open(a)
  <2>1. a \notin Holders
    BY <1>7 DEF Open, Holders
  <2>2. CASE ~Acquirable /\ Returns(a, Frame("error", 0), input)
    <3>1. handler' = [handler EXCEPT ![a] = [NewHandler EXCEPT !.pc = "over"]] /\ input' = input
      BY <2>2 DEF Returns
    <3>2. Holders' = Holders
      BY <1>4, <2>1, <3>1 DEF Holders, NewHandler
    <3> QED BY <1>1, <3>1, <3>2, KeepsHeld
  <2>3. CASE Acquirable /\ Fails(a)
    BY <1>1, <2>3, FailsHeld DEF Acquirable
  <2>4. CASE /\ Acquirable
             /\ handler' = [handler EXCEPT ![a].pc = "loop"]
             /\ input' = [attached |-> TRUE, state |-> "ATTACHED"]
    <3>1. handler'[a].pc = "loop" /\ \A b \in Attachment : b # a => handler'[b] = handler[b]
      BY <1>4, <2>4, Fields
    <3>2. ~Exited /\ ~Exited' /\ Holders = {}
      BY <1>1, <2>4, Fields DEF Acquirable, Held, Exited
    <3>3. Holders' = {a}
      BY <3>1, <3>2 DEF Holders
    <3> QED BY <2>4, <3>2, <3>3 DEF Held
  <2> QED BY <1>7, <2>2, <2>3, <2>4 DEF Open
<1>8. CASE Receive(a)
  <2>1. a \in Holders
    BY <1>8 DEF Receive, Holders
  <2> DEFINE frame == Head(up[a])
             rest == Tail(up[a])
  <2>3. CASE Fails(a)
    BY <1>1, <2>1, <2>3, FailsHeld
  <2>4. CASE /\ handler' = [handler EXCEPT ![a].pc = "offer",
                                ![a].op = [by |-> a, kind |-> frame.kind, n |-> frame.n]]
             /\ GoesOn(a, rest)
    <3>1. handler'[a].pc = "offer" /\ \A b \in Attachment : b # a => handler'[b] = handler[b]
      BY <1>4, <2>4, Fields
    <3> QED BY <1>1, <1>2, <1>3, <2>1, <2>4, <3>1, KeepsHeld DEF GoesOn
  <2>5. CASE Waits(a) /\ GoesOn(a, rest)
    BY <1>6, <2>1, <2>5 DEF GoesOn
  <2>6. CASE Acks(a, "resized", rest)
    BY <1>5, <2>1, <2>6
  <2>7. CASE Returns(a, Frame("DETACHED", 0), Released)
    BY <1>1, <2>1, <2>7, ReturnsHeld
  <2> QED BY <1>8, <2>3, <2>4, <2>5, <2>6, <2>7 DEF Receive
<1>9. CASE SubmitFails(a)
  BY <1>1, <1>3, <1>6, <1>9, FailsHeld DEF SubmitFails
<1>10. CASE Answered(a)
  <2>1. a \in Holders
    BY <1>10 DEF Answered, Holders
  <2>2. Returns(a, Frame("INPUT_CLOSED", 0), ClosedInput) => Held'
    BY <1>1, <2>1, ReturnsHeld
  <2> QED BY <1>1, <1>5, <1>6, <1>10, <2>1, <2>2, FailsHeld DEF Answered
<1>11. CASE HearExit(a)
  BY <1>1, <1>3, <1>11, ReturnsHeld DEF HearExit
<1>12. CASE GiveUp(a)
  BY <1>1, <1>3, <1>12, FailsHeld DEF GiveUp
<1>13. CASE Notice(a)
  <2>1. CASE handler[a].pc = "none" /\ Returns(a, Frame("error", 0), input)
    <3>1. handler' = [handler EXCEPT ![a] = [NewHandler EXCEPT !.pc = "over"]] /\ input' = input
      BY <2>1 DEF Returns
    <3>2. Holders' = Holders
      BY <1>4, <2>1, <3>1 DEF Holders, NewHandler
    <3> QED BY <1>1, <3>1, <3>2, KeepsHeld
  <2>2. CASE handler[a].pc = "loop" /\ Fails(a)
    BY <1>1, <1>3, <2>2, FailsHeld
  <2> QED BY <1>13, <2>1, <2>2 DEF Notice
<1>14. CASE GoDeaf(a)
  <2>1. handler'[a].pc = "loop" /\ \A b \in Attachment : b # a => handler'[b] = handler[b]
    BY <1>4, <1>14, Fields DEF GoDeaf
  <2> QED BY <1>1, <1>2, <1>14, <2>1, KeepsHeld DEF GoDeaf
<1> QED BY <1>7, <1>8, <1>9, <1>10, <1>11, <1>12, <1>13, <1>14 DEF Handle, Leave

(* What a handler's step does to the handlers: its own moves.              *)
LEMMA HandlerMoves ==
    ASSUME Types, NEW a \in Attachment, Handle(a) \/ Leave(a)
    PROVE  /\ \A b \in Attachment : b # a => handler'[b] = handler[b]
           /\ UNCHANGED <<mode, child, reaper, closed, pump, cut, client>>
           /\ \A b \in Attachment : b # a => up'[b] = up[b] /\ down'[b] = down[b]
           /\ \/ handler'[a].pc = "over"
              \/ /\ handler[a].pc = "none" /\ handler'[a].pc = "loop"
                 /\ handler'[a].expected = handler[a].expected
              \/ /\ handler[a].pc = "loop" /\ handler'[a].pc \in {"loop", "stuck"}
                 /\ handler'[a].expected \in {handler[a].expected, handler[a].expected + 1}
              \/ /\ handler[a].pc = "loop" /\ handler'[a].pc = "offer"
                 /\ handler'[a].expected = handler[a].expected
                 /\ handler'[a].op = [by |-> a, kind |-> Head(up[a]).kind, n |-> Head(up[a]).n]
                 /\ \/ Head(up[a]).kind = "data" /\ Head(up[a]).n = handler[a].expected
                    \/ Head(up[a]).kind = "close"
              \/ /\ handler[a].pc = "offer" /\ handler'[a].pc = "stuck"
                 /\ handler'[a].expected = handler[a].expected
              \/ /\ handler[a].pc = "await" /\ handler'[a].pc \in {"loop", "stuck"}
                 /\ handler[a].result # "none"
                 /\ handler'[a].expected \in {handler[a].expected, handler[a].expected + 1}
PROOF
<1> USE Fields
<1>1. handler \in [Attachment -> HandlerRecord] /\ up \in [Attachment -> Seq(AnyFrame)]
      /\ down \in [Attachment -> Seq(AnyFrame)]
  BY DEF Types
<1>2. UNCHANGED <<mode, child, reaper, closed, pump, cut, client>>
  BY DEF Handle, Leave, Open, Receive, SubmitFails, Answered, HearExit, GiveUp, Notice, GoDeaf, Elsewhere
<1>3. ASSUME NEW last, NEW then, Returns(a, last, then)
      PROVE  /\ \A b \in Attachment : b # a => handler'[b] = handler[b]
             /\ \A b \in Attachment : b # a => up'[b] = up[b] /\ down'[b] = down[b]
             /\ handler'[a].pc = "over"
  BY <1>1, <1>3 DEF Returns, NewHandler
<1>4. ASSUME NEW rest, NEW kind, Acks(a, kind, rest)
      PROVE  /\ \A b \in Attachment : b # a => handler'[b] = handler[b]
             /\ \A b \in Attachment : b # a => up'[b] = up[b] /\ down'[b] = down[b]
             /\ \/ handler'[a].pc = "over"
                \/ handler'[a].pc = "loop" /\ handler'[a].expected = handler[a].expected + 1
  <2>1. CASE cut[a]
    BY <1>3, <1>4, <2>1 DEF Acks, Fails
  <2>2. CASE ~cut[a]
    <3>1. /\ handler' = [handler EXCEPT ![a] =
                 [NewHandler EXCEPT !.pc = "loop", !.expected = handler[a].expected + 1]]
          /\ down' = [down EXCEPT ![a] = Append(@, Frame(kind, handler[a].expected))]
          /\ up' = [up EXCEPT ![a] = rest]
      BY <1>4, <2>2 DEF Acks, GoesOn
    <3>2. handler'[a] = [NewHandler EXCEPT !.pc = "loop", !.expected = handler[a].expected + 1]
      BY <1>1, <3>1
    <3>3. handler'[a].pc = "loop" /\ handler'[a].expected = handler[a].expected + 1
      BY <3>2 DEF NewHandler
    <3> QED BY <1>1, <3>1, <3>3
  <2> QED BY <2>1, <2>2
<1>5. ASSUME Waits(a)
      PROVE  /\ \A b \in Attachment : b # a => handler'[b] = handler[b]
             /\ handler'[a].pc = "stuck" /\ handler'[a].expected = handler[a].expected
  BY <1>1, <1>5 DEF Waits
<1>6. CASE Open(a)
  <2>1. CASE /\ handler[a].pc = "none"
             /\ handler' = [handler EXCEPT ![a].pc = "loop"]
             /\ down' = [down EXCEPT ![a] = Append(@, Frame("opened", 0))]
             /\ up' = [up EXCEPT ![a] = Tail(@)]
    BY <1>1, <1>2, <2>1
  <2> QED BY <1>2, <1>3, <1>6, <2>1 DEF Open, Fails
<1>7. CASE Receive(a)
  <2>1. handler[a].pc = "loop"
    BY <1>7 DEF Receive
  <2> DEFINE frame == Head(up[a])
             rest == Tail(up[a])
  <2>3. CASE Fails(a) \/ Returns(a, Frame("DETACHED", 0), Released)
    BY <1>2, <1>3, <2>3 DEF Fails
  <2>4. CASE /\ handler' = [handler EXCEPT ![a].pc = "offer",
                                ![a].op = [by |-> a, kind |-> frame.kind, n |-> frame.n]]
             /\ GoesOn(a, rest) /\ UNCHANGED down
             /\ \/ frame.kind = "data" /\ frame.n = handler[a].expected
                \/ frame.kind = "close"
    <3>1. handler'[a] = [handler[a] EXCEPT !.pc = "offer", !.op = [by |-> a, kind |-> frame.kind, n |-> frame.n]]
      BY <1>1, <2>4
    <3>2. /\ handler'[a].pc = "offer" /\ handler'[a].expected = handler[a].expected
          /\ handler'[a].op = [by |-> a, kind |-> frame.kind, n |-> frame.n]
      BY <3>1
    <3> QED BY <1>1, <1>2, <2>1, <2>4, <3>2 DEF GoesOn
  <2>5. CASE Waits(a) /\ GoesOn(a, rest) /\ UNCHANGED down
    BY <1>1, <1>2, <1>5, <2>1, <2>5 DEF GoesOn
  <2>6. CASE Acks(a, "resized", rest)
    BY <1>2, <1>4, <2>1, <2>6
  <2> QED BY <1>7, <2>3, <2>4, <2>5, <2>6 DEF Receive
<1>8. CASE SubmitFails(a)
  <2>1. CASE handler[a].pc = "offer" /\ Waits(a) /\ UNCHANGED <<input, up, down>>
    BY <1>2, <1>5, <2>1
  <2>2. CASE Fails(a)
    BY <1>2, <1>3, <2>2 DEF Fails
  <2> QED BY <1>8, <2>1, <2>2 DEF SubmitFails
<1>9. CASE Answered(a)
  <2>1. handler[a].pc = "await" /\ handler[a].result # "none"
    BY <1>9 DEF Answered
  <2>2. CASE Waits(a) /\ UNCHANGED <<input, up, down>>
    BY <1>2, <1>5, <2>1, <2>2
  <2>3. CASE Fails(a) \/ Returns(a, Frame("INPUT_CLOSED", 0), ClosedInput)
    BY <1>2, <1>3, <2>3 DEF Fails
  <2>4. CASE Acks(a, "ack", up[a])
    BY <1>2, <1>4, <2>1, <2>4
  <2> QED BY <1>9, <2>2, <2>3, <2>4 DEF Answered
<1>10. CASE HearExit(a) \/ GiveUp(a) \/ Notice(a)
  BY <1>2, <1>3, <1>10 DEF HearExit, GiveUp, Notice, Fails
<1>11. CASE GoDeaf(a)
  BY <1>1, <1>2, <1>11 DEF GoDeaf
<1> QED BY <1>6, <1>7, <1>8, <1>9, <1>10, <1>11 DEF Handle, Leave

LEMMA HandlerResults ==
    ASSUME Types, NEW a \in Attachment, Handle(a) \/ Leave(a)
    PROVE  handler'[a].result = "none" \/ (handler'[a].result = handler[a].result /\ handler[a].pc # "await")
PROOF
<1> USE Fields
<1>1. handler \in [Attachment -> HandlerRecord]
  BY DEF Types
<1>2. ASSUME NEW last, NEW then, Returns(a, last, then) PROVE handler'[a].result = "none"
  BY <1>1, <1>2 DEF Returns, NewHandler
<1>3. ASSUME Fails(a) PROVE handler'[a].result = "none"
  BY <1>2, <1>3 DEF Fails
<1>4. ASSUME NEW rest, NEW kind, Acks(a, kind, rest) PROVE handler'[a].result = "none"
  BY ZenonT(60), <1>1, <1>3, <1>4 DEF Acks, NewHandler
<1>5. ASSUME Waits(a) PROVE handler'[a].result = "none"
  BY <1>1, <1>5 DEF Waits
<1>6. CASE Open(a)
  <2>1. CASE handler[a].pc = "none" /\ handler' = [handler EXCEPT ![a].pc = "loop"]
    BY <1>1, <2>1
  <2> QED BY <1>2, <1>3, <1>6, <2>1 DEF Open
<1>7. CASE Receive(a)
  <2>1. CASE /\ handler[a].pc = "loop"
             /\ \E op \in {[by |-> a, kind |-> Head(up[a]).kind, n |-> Head(up[a]).n]} :
                   handler' = [handler EXCEPT ![a].pc = "offer", ![a].op = op]
    BY <1>1, <2>1
  <2> QED BY <1>2, <1>3, <1>4, <1>5, <1>7, <2>1 DEF Receive
<1>8. CASE SubmitFails(a) \/ Answered(a)
  BY <1>2, <1>3, <1>4, <1>5, <1>8 DEF SubmitFails, Answered
<1>9. CASE HearExit(a) \/ GiveUp(a) \/ Notice(a)
  BY <1>2, <1>3, <1>9 DEF HearExit, GiveUp, Notice
<1>10. CASE GoDeaf(a)
  BY <1>1, <1>10 DEF GoDeaf
<1> QED BY <1>6, <1>7, <1>8, <1>9, <1>10 DEF Handle, Leave

(* What the pump does to the handlers: the one it worked for, if it still  *)
(* waits, is told; the one whose offer it takes waits.                     *)
LEMMA TellMoves ==
    ASSUME Types, NEW result \in {"written", "closed", "failed"}, Tells(result)
    PROVE  \A a \in Attachment :
              IF a = pump.op.by /\ handler[a].pc = "await"
              THEN /\ handler'[a].pc = "await" /\ handler'[a].result = result
                   /\ handler'[a].expected = handler[a].expected
              ELSE handler'[a] = handler[a]
BY Fields DEF Tells

LEMMA AcceptMoves ==
    ASSUME Types, NEW a \in Attachment, Accept(a)
    PROVE  /\ \A b \in Attachment : b # a => handler'[b] = handler[b]
           /\ handler[a].pc = "offer" /\ handler'[a].pc = "await"
           /\ handler'[a].expected = handler[a].expected /\ handler'[a].result = handler[a].result
PROOF
<1>1. handler' = [handler EXCEPT ![a] = [handler[a] EXCEPT !.pc = "await", !.op = NoOp]] /\ handler[a].pc = "offer"
  BY DEF Accept, Types
<1> QED BY <1>1, Fields DEF Types

LEMMA PumpHeld ==
    ASSUME Types, Held, Run \/ Reap \/ Read \/ Exit
    PROVE  Held'
PROOF
<1>1. ASSUME \A a \in Attachment : handler'[a].pc = handler[a].pc
                 \/ (handler[a].pc = "offer" /\ handler'[a].pc = "await")
      PROVE  Holders' = Holders
  BY <1>1 DEF Holders
<1>2. CASE Run
  <2>1. UNCHANGED <<reaper, input>>
    BY <1>2 DEF Run, Write, WriteFails, CloseEndpoint, Stop, Accept
  <2>2. ASSUME NEW result \in {"written", "closed", "failed"}, Tells(result) PROVE Holders' = Holders
    BY <1>1, <2>2, TellMoves
  <2>3. CASE handler' = handler
    BY <2>1, <2>3, KeepsHeld DEF Holders
  <2>4. \/ handler' = handler
        \/ \E result \in {"written", "closed", "failed"} : Tells(result)
        \/ \E a \in Attachment : Accept(a)
    BY <1>2 DEF Run, Write, WritesPiece, WriteFails, CloseEndpoint, Stop
  <2>5. ASSUME NEW a \in Attachment, Accept(a) PROVE Holders' = Holders
    BY <1>1, <2>5, AcceptMoves
  <2> QED BY <2>1, <2>2, <2>3, <2>4, <2>5, KeepsHeld
<1>3. CASE Read \/ Exit
  BY <1>3, KeepsHeld DEF Read, Exit, server, Holders
<1>5. CASE Abort
  BY <1>5 DEF Abort, Held, Holders, Exited
<1>4. CASE PublishExit
  BY <1>4 DEF PublishExit, Held, Holders, Exited, ClosedInput
<1> QED BY <1>2, <1>3, <1>4, <1>5 DEF Reap

LEMMA HeldStep == Types /\ Held /\ [Next]_vars => Held'
PROOF
<1>1. ASSUME Types, Held, NEW a \in Attachment, Hear(a) \/ Call(a) \/ Lose(a) PROVE Held'
  <2>1. UNCHANGED <<reaper, input, handler>>
    BY <1>1 DEF Hear, Call, Opened, LoseHope, Resume, ReceiveAnswer, ReceiveFails, ReceiveLogs, Conclude,
       OpenStream, Operate, Finish, Lose, Mine, server
  <2> QED BY <1>1, <2>1, KeepsHeld DEF Holders
<1>2. ASSUME Types, Held, UNCHANGED vars PROVE Held'
  BY <1>2, KeepsHeld DEF vars, server, Holders
<1> QED BY <1>1, <1>2, HandlerHeld, PumpHeld DEF Next

-----------------------------------------------------------------------------
(* The pump and those it works for. *)

LEMMA ServesInit == Init => Serves
BY DEF Init, Serves, Served, Written, NewHandler, NoOp

LEMMA HandlerServes ==
    ASSUME Types, Serves, NEW a \in Attachment, Handle(a) \/ Leave(a)
    PROVE  Serves'
PROOF
<1>1. UNCHANGED <<child, pump>> /\ \A b \in Attachment : b # a => handler'[b] = handler[b]
  BY HandlerMoves
<1>2. handler'[a].pc # "await"
  BY HandlerMoves
<1>3. pump.pc = "working" /\ pump.op.by = a => handler'[a].pc = "over"
  <2>1. SUFFICES ASSUME pump.pc = "working", pump.op.by = a PROVE handler'[a].pc = "over"
    OBVIOUS
  <2>2. handler[a].pc \in {"await", "over"} /\ (handler[a].pc = "await" => handler[a].result = "none")
    BY <2>1 DEF Serves, Served
  <2> QED BY <2>2, HandlerMoves
<1>4. ASSUME handler'[a].pc = "offer"
      PROVE  /\ handler'[a].op.by = a /\ handler'[a].op.kind \in {"data", "close"}
             /\ handler'[a].op.kind = "data" => handler'[a].op.n = handler'[a].expected
  <2>1. \/ handler[a].pc = "loop" /\ handler'[a].pc = "offer"
           /\ handler'[a].expected = handler[a].expected
           /\ handler'[a].op = [by |-> a, kind |-> Head(up[a]).kind, n |-> Head(up[a]).n]
           /\ \/ Head(up[a]).kind = "data" /\ Head(up[a]).n = handler[a].expected
              \/ Head(up[a]).kind = "close"
    BY <1>4, HandlerMoves
  <2> QED BY <2>1
<1>5. /\ (pump.pc = "working")' => pump'.op.by \in Attachment
      /\ (pump.pc = "working")' => pump'.op.kind \in {"data", "close"}
      /\ (pump.pc = "working")' => handler'[pump'.op.by].pc \in {"await", "over"}
      /\ (pump.pc # "working")' => pump'.at = 0
  BY <1>1, <1>3 DEF Serves, Served
<1>6. (pump.pc = "working" /\ handler[pump.op.by].pc = "await")' =>
         /\ handler'[pump'.op.by].result = "none"
         /\ pump'.op.kind = "data" => pump'.op.n = handler'[pump'.op.by].expected
  BY <1>1, <1>2 DEF Serves, Served
<1>7. ASSUME NEW b \in Attachment PROVE Served(b)'
  <2>1. CASE b = a
    BY <1>2, <1>4, <2>1, HandlerResults DEF Serves, Served, Written
  <2>2. CASE b # a
    BY <1>1, <2>2 DEF Serves, Served, Written
  <2> QED BY <2>1, <2>2
<1> QED BY <1>5, <1>6, <1>7 DEF Serves

(* What was written stays written: the list of pieces only grows.          *)
LEMMA WrittenGrows ==
    ASSUME Types, NEW a, NEW n, Written(a, n),
           child'.given = child.given \/ \E piece \in Piece : child'.given = Append(child.given, piece)
    PROVE  Written(a, n)'
PROOF
<1>1. child.given \in Seq(Piece)
  BY DEF Types
<1>2. PICK i \in 1..Len(child.given) : child.given[i] = [by |-> a, n |-> n, at |-> Parts]
  BY DEF Written
<1>3. i \in 1..Len(child'.given) /\ child'.given[i] = child.given[i]
  BY <1>1
<1> QED BY <1>2, <1>3 DEF Written

(* One step of a write. *)
LEMMA WriteMoves ==
    ASSUME Types, Serves, Write
    PROVE  /\ pump.pc = "working" /\ pump.op.kind = "data" /\ ~closed
           /\ pump.op.by \in Attachment
           /\ UNCHANGED <<mode, reaper, closed, input, up, down, cut, client>>
           /\ child'.alive = child.alive
           /\ IF child.alive
              THEN child'.given = Append(child.given, [by |-> pump.op.by, n |-> pump.op.n, at |-> pump.at + 1])
              ELSE child'.given = child.given
           /\ [by |-> pump.op.by, n |-> pump.op.n, at |-> pump.at + 1] \in Piece
           /\ \/ /\ child.alive /\ pump.at + 1 < Parts
                 /\ pump'.pc = "working" /\ pump'.op = pump.op /\ pump'.at = pump.at + 1
                 /\ handler' = handler
              \/ /\ child.alive => pump.at + 1 = Parts
                 /\ pump'.pc = "select" /\ pump'.at = 0
                 /\ Tells("written")
PROOF
<1>1. /\ pump.pc = "working" /\ pump.op.kind = "data" /\ ~closed
      /\ pump.op.by \in Attachment
      /\ UNCHANGED <<mode, reaper, closed, input, up, down, cut, client>>
  BY DEF Write, WritesPiece, Serves
<1>2. /\ child \in [alive : BOOLEAN, unread : 0..PipeSize, given : Seq(Piece)]
      /\ pump \in [pc : {"select", "working", "done"}, op : Operation, at : 0..(Parts - 1)]
      /\ Parts \in Nat \ {0}
  BY InputAssumption DEF Types
<1>3. /\ child'.alive = child.alive
      /\ IF child.alive
         THEN child'.given = Append(child.given, [by |-> pump.op.by, n |-> pump.op.n, at |-> pump.at + 1])
         ELSE child'.given = child.given
  BY <1>2 DEF Write, WritesPiece
<1>4. pump.op.n \in Nat /\ pump.at + 1 \in 1..Parts
  BY <1>2 DEF Operation
<1>5. [by |-> pump.op.by, n |-> pump.op.n, at |-> pump.at + 1] \in Piece
  BY <1>1, <1>4 DEF Piece
<1>6. CASE ~child.alive \/ pump.at + 1 = Parts
  BY <1>1, <1>3, <1>5, <1>6 DEF Write, WritesPiece, Rests
<1>7. CASE child.alive /\ pump.at + 1 # Parts
  <2>1. pump' = [pump EXCEPT !.at = @ + 1] /\ handler' = handler
    BY <1>7 DEF Write, WritesPiece
  <2>2. pump'.pc = "working" /\ pump'.op = pump.op /\ pump'.at = pump.at + 1
    BY <1>1, <1>2, <2>1
  <2> QED BY <1>1, <1>2, <1>3, <1>4, <1>5, <1>7, <2>1, <2>2
<1> QED BY <1>6, <1>7

LEMMA TellServes ==
    ASSUME Types, Serves, pump.pc = "working",
           NEW result \in {"written", "closed", "failed"}, Tells(result),
           pump'.pc # "working", pump'.at = 0, child'.alive => child.alive,
           child'.given = child.given \/ \E piece \in Piece : child'.given = Append(child.given, piece),
           result = "written" /\ child'.alive /\ handler[pump.op.by].pc = "await" =>
               \E i \in 1..Len(child'.given) : child'.given[i] =
                   [by |-> pump.op.by, n |-> handler[pump.op.by].expected, at |-> Parts]
    PROVE  Serves'
PROOF
<1> SUFFICES ASSUME NEW a \in Attachment
             PROVE  /\ handler'[a].pc = "offer" =>
                          /\ handler'[a].op.by = a /\ handler'[a].op.kind \in {"data", "close"}
                          /\ handler'[a].op.kind = "data" => handler'[a].op.n = handler'[a].expected
                    /\ ~(handler'[a].pc = "await" /\ handler'[a].result = "none")
                    /\ handler'[a].pc = "await" /\ handler'[a].result = "written" /\ child'.alive =>
                          Written(a, handler[a].expected)'
                    /\ handler'[a].pc # "await" => handler'[a].result = "none"
  BY DEF Serves, Served
<1>1. CASE a = pump.op.by /\ handler[a].pc = "await"
  <2>1. handler'[a].pc = "await" /\ handler'[a].result = result /\ handler'[a].expected = handler[a].expected
    BY <1>1, TellMoves
  <2> QED BY <1>1, <2>1 DEF Written
<1>2. CASE ~(a = pump.op.by /\ handler[a].pc = "await")
  <2>1. handler'[a] = handler[a]
    BY <1>2, TellMoves
  <2>2. handler[a].pc = "await" /\ handler[a].result = "written" /\ child'.alive =>
            Written(a, handler[a].expected)
    BY DEF Serves, Served
  <2>3. ASSUME Written(a, handler[a].expected) PROVE Written(a, handler[a].expected)'
    <3>1. PICK n : n = handler[a].expected
      OBVIOUS
    <3>2. Written(a, n)'
      BY <2>3, <3>1, WrittenGrows
    <3> QED BY <2>1, <3>1, <3>2 DEF Written
  <2> QED BY <1>2, <2>1, <2>2, <2>3 DEF Serves, Served
<1> QED BY <1>1, <1>2

LEMMA PumpServes ==
    ASSUME Types, Serves, Run
    PROVE  Serves'
PROOF
<1>1. CASE Write
  <2>1. CASE /\ child.alive /\ pump.at + 1 < Parts
             /\ pump'.pc = "working" /\ pump'.op = pump.op /\ pump'.at = pump.at + 1
             /\ handler' = handler
    <3>1. child'.given = child.given \/ \E piece \in Piece : child'.given = Append(child.given, piece)
      BY <1>1, WriteMoves
    <3>2. ASSUME NEW a \in Attachment, Written(a, handler[a].expected)
          PROVE  Written(a, handler[a].expected)'
      <4>1. PICK n : n = handler[a].expected
        OBVIOUS
      <4>2. Written(a, n)'
        BY <3>1, <3>2, <4>1, WrittenGrows
      <4> QED BY <2>1, <4>1, <4>2 DEF Written
    <3>3. pump.pc = "working" /\ child'.alive = child.alive
      BY <1>1, WriteMoves
    <3> QED BY <2>1, <3>2, <3>3 DEF Serves, Served
  <2>2. CASE /\ child.alive => pump.at + 1 = Parts
             /\ pump'.pc = "select" /\ pump'.at = 0
             /\ Tells("written")
    <3>1. ASSUME child'.alive, handler[pump.op.by].pc = "await"
          PROVE  \E i \in 1..Len(child'.given) : child'.given[i] =
                    [by |-> pump.op.by, n |-> handler[pump.op.by].expected, at |-> Parts]
      <4>1. child'.given = Append(child.given, [by |-> pump.op.by, n |-> pump.op.n, at |-> Parts])
        BY <1>1, <2>2, <3>1, WriteMoves
      <4>2. pump.op.n = handler[pump.op.by].expected
        BY <1>1, <3>1, WriteMoves DEF Serves, Served
      <4>3. child.given \in Seq(Piece)
        BY DEF Types
      <4> DEFINE i == Len(child.given) + 1
      <4>4. i \in 1..Len(child'.given) /\ child'.given[i] = [by |-> pump.op.by, n |-> pump.op.n, at |-> Parts]
        BY <4>1, <4>3
      <4> QED BY <4>2, <4>4
    <3>2. /\ pump.pc = "working" /\ child'.alive = child.alive
          /\ child'.given = child.given \/ \E piece \in Piece : child'.given = Append(child.given, piece)
      BY <1>1, WriteMoves
    <3> QED BY <2>2, <3>1, <3>2, TellServes
  <2> QED BY <1>1, <2>1, <2>2, WriteMoves
<1>2. CASE WriteFails
  BY <1>2, TellServes DEF WriteFails, Stops, Rests
<1>3. CASE CloseEndpoint
  BY <1>3, TellServes DEF CloseEndpoint, Stops
<1>4. CASE Stop
  BY <1>4 DEF Stop, Stops, Serves, Served, Written
<1>5. ASSUME NEW a \in Attachment, Accept(a) PROVE Serves'
  <2>1. /\ handler[a].pc = "offer" /\ pump.pc = "select" /\ UNCHANGED child
        /\ pump'.pc = "working" /\ pump'.op = handler[a].op /\ pump'.at = 0
    BY <1>5 DEF Accept
  <2>2. /\ handler[a].op.by = a /\ handler[a].op.kind \in {"data", "close"}
        /\ handler[a].op.kind = "data" => handler[a].op.n = handler[a].expected
    BY <2>1 DEF Serves, Served
  <2>3. /\ handler'[a].pc = "await" /\ handler'[a].result = "none"
        /\ handler'[a].expected = handler[a].expected
        /\ \A b \in Attachment : b # a => handler'[b] = handler[b]
    BY <1>5, <2>1, AcceptMoves DEF Serves, Served
  <2>4. \A b \in Attachment : handler[b].pc = "await" => handler[b].result # "none"
    BY <2>1 DEF Serves, Served
  <2>5. ASSUME NEW b \in Attachment, b # a PROVE Served(b)'
    BY <2>1, <2>3, <2>4, <2>5 DEF Serves, Served, Written
  <2>6. pump'.op.by = a
    BY <2>1, <2>2
  <2>7. Served(a)'
    BY <2>1, <2>3, <2>6 DEF Served, Written
  <2>8. /\ pump'.op.by \in Attachment /\ pump'.op.kind \in {"data", "close"}
        /\ handler'[pump'.op.by].pc = "await" /\ handler'[pump'.op.by].result = "none"
        /\ pump'.op.kind = "data" => pump'.op.n = handler'[pump'.op.by].expected
    BY <2>1, <2>2, <2>3, <2>6
  <2> QED BY <2>1, <2>5, <2>7, <2>8 DEF Serves
<1> QED BY <1>1, <1>2, <1>3, <1>4, <1>5 DEF Run

LEMMA ServesStep == Types /\ Serves /\ [Next]_vars => Serves'
PROOF
<1>1. ASSUME Types, Serves, NEW a \in Attachment, Hear(a) \/ Call(a) \/ Lose(a) PROVE Serves'
  <2>1. UNCHANGED <<child, pump, handler>>
    BY <1>1 DEF Hear, Call, Opened, LoseHope, Resume, ReceiveAnswer, ReceiveFails, ReceiveLogs, Conclude,
       OpenStream, Operate, Finish, Lose, Mine, server
  <2> QED BY <1>1, <2>1 DEF Serves, Served, Written
<1>2. ASSUME Types, Serves, UNCHANGED vars PROVE Serves'
  BY <1>2 DEF vars, server, Serves, Served, Written
<1>3. ASSUME Types, Serves, Reap \/ Read \/ Exit PROVE Serves'
  <2>1. UNCHANGED <<pump, handler>> /\ child'.given = child.given /\ (child'.alive => child.alive)
    BY <1>3 DEF Reap, Read, Exit, Abort, PublishExit, server, Types
  <2> QED BY <1>3, <2>1 DEF Serves, Served, Written
<1> QED BY <1>1, <1>2, <1>3, HandlerServes, PumpServes DEF Next

-----------------------------------------------------------------------------
(* The pieces the child was given. *)

(* Every step but a write leaves the list of pieces alone; the child does  *)
(* not come back, nor does its endpoint open again.                        *)
LEMMA NoNewPieces ==
    ASSUME Types, Serves, [Next]_vars, ~Write
    PROVE  /\ child'.given = child.given
           /\ child'.alive => child.alive
           /\ closed => closed'
           /\ \/ pump' = pump
              \/ pump'.at = 0 /\ (pump.at = 0 \/ closed' \/ ~child'.alive)
PROOF
<1>1. CASE \/ UNCHANGED vars
           \/ \E a \in Attachment : Handle(a) \/ Leave(a)
           \/ \E a \in Attachment : Hear(a) \/ Call(a) \/ Lose(a)
  <2>1. UNCHANGED vars => UNCHANGED <<child, pump, closed>>
    BY DEF vars, server
  <2>2. ASSUME NEW a \in Attachment, Handle(a) \/ Leave(a) PROVE UNCHANGED <<child, pump, closed>>
    BY <2>2, HandlerMoves
  <2>3. ASSUME NEW a \in Attachment, Hear(a) \/ Call(a) \/ Lose(a) PROVE UNCHANGED <<child, pump, closed>>
    BY <2>3 DEF Hear, Call, Opened, LoseHope, Resume, ReceiveAnswer, ReceiveFails, ReceiveLogs, Conclude,
       OpenStream, Operate, Finish, Lose, Mine, server
  <2> QED BY <1>1, <2>1, <2>2, <2>3
<1>2. CASE Reap \/ Read \/ Exit
  BY <1>2 DEF Reap, Read, Exit, Abort, PublishExit, server, Types
<1>3. CASE WriteFails \/ CloseEndpoint \/ Stop
  BY <1>3 DEF WriteFails, CloseEndpoint, Stop, Stops, Rests
<1>4. CASE \E a \in Attachment : Accept(a)
  BY <1>4 DEF Accept, Serves
<1> QED BY <1>1, <1>2, <1>3, <1>4 DEF Next, Run

LEMMA PiecesInit == Init => Pieces
BY DEF Init, Pieces

LEMMA PiecesStep ==
    ASSUME Types, Serves, Pieces, [Next]_vars
    PROVE  Pieces'
PROOF
<1>1. CASE ~Write
  <2>1. /\ child'.given = child.given
        /\ child'.alive => child.alive
        /\ closed => closed'
        /\ \/ pump' = pump
           \/ pump'.at = 0 /\ (pump.at = 0 \/ closed' \/ ~child'.alive)
    BY <1>1, NoNewPieces
  <2> QED BY <2>1 DEF Pieces
<1>2. CASE Write /\ ~child.alive
  <2>1. child'.given = child.given /\ ~child'.alive
    BY <1>2, WriteMoves
  <2> QED BY <1>2, <2>1 DEF Pieces
<1>3. CASE Write /\ child.alive
  <2> DEFINE piece == [by |-> pump.op.by, n |-> pump.op.n, at |-> pump.at + 1]
             m == Len(child.given)
  <2>1. /\ child.given \in Seq(Piece) /\ piece \in Piece /\ Parts \in Nat \ {0}
        /\ pump.at \in 0..(Parts - 1)
    BY <1>3, WriteMoves, InputAssumption DEF Types
  <2>2. child'.given = Append(child.given, piece) /\ ~closed
    BY <1>3, WriteMoves
  <2>3. m \in Nat /\ Len(child'.given) = m + 1 /\ child'.given[m + 1] = piece
    BY <2>1, <2>2
  <2>4. \A i \in 1..m : child'.given[i] = child.given[i] /\ child.given[i] \in Piece
    BY <2>1, <2>2
  <2>5. pump.at > 0 => m > 0 /\ child.given[m] = [by |-> pump.op.by, n |-> pump.op.n, at |-> pump.at]
    BY <1>3 DEF Pieces
  <2>6. pump.at = 0 /\ m > 0 => child.given[m].at = Parts
    BY <1>3, <2>2 DEF Pieces
  <2>7. piece.at > 1 => m > 0 /\ child.given[m] = [piece EXCEPT !.at = @ - 1]
    BY <2>1, <2>5
  <2>8. m > 0 /\ child.given[m].at < Parts => piece = [child.given[m] EXCEPT !.at = @ + 1]
    <3>1. SUFFICES ASSUME m > 0, child.given[m].at < Parts PROVE piece = [child.given[m] EXCEPT !.at = @ + 1]
      OBVIOUS
    <3>2. child.given[m] = [by |-> pump.op.by, n |-> pump.op.n, at |-> pump.at]
      BY <2>1, <2>3, <2>4, <2>5, <2>6, <3>1
    <3> QED BY <3>2
  <2>9. /\ child'.alive /\ pump'.at > 0 =>
              child'.given[m + 1] = [by |-> pump'.op.by, n |-> pump'.op.n, at |-> pump'.at]
        /\ pump'.at = 0 => piece.at = Parts
    BY <1>3, <2>1, <2>3, WriteMoves
  <2> HIDE DEF piece
  <2>10. ASSUME NEW i \in 1..Len(child'.given)
         PROVE  /\ child'.given[i].at > 1 =>
                      i > 1 /\ child'.given[i - 1] = [child'.given[i] EXCEPT !.at = @ - 1]
                /\ child'.given[i].at < Parts /\ i < Len(child'.given) =>
                      child'.given[i + 1] = [child'.given[i] EXCEPT !.at = @ + 1]
    <3>1. CASE i = m + 1
      BY <2>3, <2>4, <2>7, <3>1
    <3>2. CASE i \in 1..m
      <4>1. /\ child.given[i].at > 1 =>
                  i > 1 /\ child.given[i - 1] = [child.given[i] EXCEPT !.at = @ - 1]
            /\ child.given[i].at < Parts /\ i < m =>
                  child.given[i + 1] = [child.given[i] EXCEPT !.at = @ + 1]
        BY <3>2 DEF Pieces
      <4>2. child'.given[i] = child.given[i]
        BY <2>4, <3>2
      <4>3. i > 1 => child'.given[i - 1] = child.given[i - 1]
        BY <2>3, <2>4, <3>2
      <4>4. i < m => child'.given[i + 1] = child.given[i + 1]
        BY <2>3, <2>4, <3>2
      <4>5. i = m /\ child.given[i].at < Parts => child'.given[i + 1] = [child.given[i] EXCEPT !.at = @ + 1]
        BY <2>3, <2>8, <3>2
      <4>6. i < m \/ i = m
        BY <2>3, <3>2
      <4> HIDE DEF m
      <4> QED BY <4>1, <4>2, <4>3, <4>4, <4>5, <4>6
    <3> QED BY <2>3, <3>1, <3>2
  <2> QED BY <2>3, <2>9, <2>10 DEF Pieces
<1> QED BY <1>1, <1>2, <1>3

-----------------------------------------------------------------------------
(* One writer after the other. *)

LEMMA OrderInit == Init => Order
BY DEF Init, Order

LEMMA OrderKept ==
    ASSUME Types, Order, child'.given = child.given, pump' = pump \/ pump'.pc # "working",
           \A a \in Attachment :
               /\ handler'[a].pc = "none" => handler[a].pc = "none"
               /\ handler[a].pc = "over" => handler'[a].pc = "over"
               /\ handler'[a].expected = handler[a].expected
                  \/ handler'[a].expected = handler[a].expected + 1
                  \/ handler'[a].pc = "over"
    PROVE  Order'
PROOF
<1>1. \A i \in 1..Len(child.given) : child.given[i] \in Piece
  BY DEF Types
<1>2. \A a \in Attachment : handler[a].expected \in Nat
  BY Fields DEF Types
<1>3. ASSUME NEW i \in 1..Len(child.given), NEW a \in Attachment, a = child.given[i].by
      PROVE  /\ handler'[a].pc # "none"
             /\ handler'[a].pc # "over" => child.given[i].n <= handler'[a].expected
             /\ pump'.pc = "working" /\ pump'.op.by # a => handler'[a].pc = "over"
             /\ pump'.pc = "working" /\ pump'.op.by = a /\ pump'.op.kind = "data" =>
                   child.given[i].n <= pump'.op.n
  <2>1. child.given[i].n \in Nat
    BY <1>1 DEF Piece
  <2>2. /\ handler[a].pc # "none"
        /\ handler[a].pc # "over" => child.given[i].n <= handler[a].expected
        /\ pump.pc = "working" /\ pump.op.by # a => handler[a].pc = "over"
        /\ pump.pc = "working" /\ pump.op.by = a /\ pump.op.kind = "data" =>
              child.given[i].n <= pump.op.n
    BY <1>3 DEF Order
  <2> QED BY <1>2, <2>1, <2>2
<1>4. \A i \in 1..Len(child.given) : child.given[i].by \in Attachment
  BY <1>1 DEF Piece
<1>5. ASSUME NEW i \in 1..Len(child.given), NEW j \in 1..Len(child.given), i < j
      PROVE  IF child.given[j].by = child.given[i].by THEN child.given[i].n <= child.given[j].n
             ELSE /\ handler'[child.given[i].by].pc = "over"
                  /\ ~(pump'.pc = "working" /\ pump'.op.by = child.given[i].by)
  BY <1>4, <1>5 DEF Order
<1>6. \A i, j, k \in 1..Len(child.given) : i < j /\ j < k /\ child.given[i].by = child.given[k].by =>
          child.given[j].by = child.given[i].by
  BY DEF Order
<1> QED BY <1>3, <1>4, <1>5, <1>6 DEF Order

LEMMA WriteOrder ==
    ASSUME Types, Serves, Order, Write, child.alive
    PROVE  Order'
PROOF
<1> DEFINE by == pump.op.by
           piece == [by |-> pump.op.by, n |-> pump.op.n, at |-> pump.at + 1]
           m == Len(child.given)
<1>1. /\ child.given \in Seq(Piece) /\ piece \in Piece /\ by \in Attachment
      /\ pump.pc = "working" /\ pump.op.kind = "data"
      /\ child'.given = Append(child.given, piece)
  BY WriteMoves DEF Types
<1>2. /\ m \in Nat /\ Len(child'.given) = m + 1 /\ child'.given[m + 1] = piece
      /\ \A i \in 1..m : child'.given[i] = child.given[i] /\ child.given[i] \in Piece
  BY <1>1
<1>3. \A a \in Attachment : handler'[a].pc = handler[a].pc /\ handler'[a].expected = handler[a].expected
  BY WriteMoves, TellMoves
<1>4. pump'.pc = "working" => pump'.op = pump.op
  BY WriteMoves
<1>5. /\ handler[by].pc \in {"await", "over"}
      /\ handler[by].pc = "await" => pump.op.n = handler[by].expected
  BY <1>1 DEF Serves
<1>6. /\ handler[by].expected \in Nat
      /\ pump.op.n \in Nat
  BY <1>1, Fields DEF Types, Piece
<1>7. /\ piece.by = by /\ piece.n = pump.op.n
  OBVIOUS
<1>8. \A i \in 1..m :
         /\ child.given[i].by \in Attachment
         /\ handler[child.given[i].by].pc # "none"
         /\ handler[child.given[i].by].pc # "over" => child.given[i].n <= handler[child.given[i].by].expected
         /\ child.given[i].by # by => handler[child.given[i].by].pc = "over"
         /\ child.given[i].by = by => child.given[i].n <= pump.op.n
  BY <1>1, <1>2 DEF Order, Piece
<1> HIDE DEF piece
<1>9. ASSUME NEW i \in 1..Len(child'.given)
      PROVE  LET a == child'.given[i].by
             IN  /\ handler'[a].pc # "none"
                 /\ handler'[a].pc # "over" => child'.given[i].n <= handler'[a].expected
                 /\ pump'.pc = "working" /\ pump'.op.by # a => handler'[a].pc = "over"
                 /\ pump'.pc = "working" /\ pump'.op.by = a /\ pump'.op.kind = "data" =>
                       child'.given[i].n <= pump'.op.n
  <2>1. CASE i = m + 1
    BY <1>1, <1>2, <1>3, <1>4, <1>5, <1>6, <1>7, <2>1
  <2>2. CASE i \in 1..m
    BY <1>1, <1>2, <1>3, <1>4, <1>8, <2>2
  <2> QED BY <1>2, <2>1, <2>2
<1>10. ASSUME NEW i \in 1..Len(child'.given), NEW j \in 1..Len(child'.given), i < j
       PROVE  LET a == child'.given[i].by
              IN  IF child'.given[j].by = a THEN child'.given[i].n <= child'.given[j].n
                  ELSE handler'[a].pc = "over" /\ ~(pump'.pc = "working" /\ pump'.op.by = a)
  <2>1. i \in 1..m /\ child'.given[i] = child.given[i]
    BY <1>2, <1>10
  <2>2. CASE j = m + 1
    BY <1>1, <1>2, <1>3, <1>4, <1>7, <1>8, <2>1, <2>2
  <2>3. CASE j \in 1..m
    <3>1. IF child.given[j].by = child.given[i].by THEN child.given[i].n <= child.given[j].n
          ELSE handler[child.given[i].by].pc = "over" /\ ~(pump.pc = "working" /\ pump.op.by = child.given[i].by)
      BY <1>10, <2>1, <2>3 DEF Order
    <3> QED BY <1>1, <1>2, <1>3, <1>4, <1>8, <2>1, <2>3, <3>1
  <2> QED BY <1>2, <2>2, <2>3
<1>11. ASSUME NEW i \in 1..Len(child'.given), NEW j \in 1..Len(child'.given), NEW k \in 1..Len(child'.given),
              i < j, j < k, child'.given[i].by = child'.given[k].by
       PROVE  child'.given[j].by = child'.given[i].by
  <2>1. /\ i \in 1..m /\ child'.given[i] = child.given[i]
        /\ j \in 1..m /\ child'.given[j] = child.given[j]
    BY <1>2, <1>11
  <2>2. CASE k = m + 1
    <3>1. child.given[i].by = pump.op.by
      BY <1>2, <1>7, <1>11, <2>1, <2>2
    <3> QED BY <1>1, <1>11, <2>1, <3>1 DEF Order
  <2>3. CASE k \in 1..m
    BY SMTT(40), <1>2, <1>11, <2>1, <2>3 DEF Order
  <2> QED BY <1>2, <2>2, <2>3
<1> QED BY <1>9, <1>10, <1>11 DEF Order

LEMMA OrderStep ==
    ASSUME Types, Held, Serves, Order, [Next]_vars
    PROVE  Order'
PROOF
<1>1. ASSUME NEW a \in Attachment, Handle(a) \/ Leave(a) PROVE Order'
  <2>1. \A b \in Attachment :
            /\ handler'[b].pc = "none" => handler[b].pc = "none"
            /\ handler[b].pc = "over" => handler'[b].pc = "over"
            /\ handler'[b].expected = handler[b].expected
               \/ handler'[b].expected = handler[b].expected + 1
               \/ handler'[b].pc = "over"
    BY <1>1, HandlerMoves
  <2>2. child' = child /\ pump' = pump
    BY <1>1, HandlerMoves
  <2> QED BY <2>1, <2>2, OrderKept
<1>2. CASE handler' = handler /\ pump' = pump /\ child'.given = child.given
  BY <1>2, OrderKept
<1>3. ASSUME NEW a \in Attachment, Hear(a) \/ Call(a) \/ Lose(a) PROVE Order'
  BY <1>2, <1>3 DEF Hear, Call, Opened, LoseHope, Resume, ReceiveAnswer, ReceiveFails, ReceiveLogs, Conclude,
     OpenStream, Operate, Finish, Lose, Mine, server
<1>4. CASE Reap \/ Read \/ Exit
  BY <1>2, <1>4 DEF Reap, Read, Exit, Abort, PublishExit, server, Types
<1>5. CASE UNCHANGED vars
  BY <1>2, <1>5 DEF vars, server
<1>6. ASSUME child'.given = child.given, pump'.pc # "working",
             NEW result \in {"written", "closed", "failed"}, Tells(result) \/ handler' = handler
      PROVE  Order'
  <2>1. \A a \in Attachment : handler'[a].pc = handler[a].pc /\ handler'[a].expected = handler[a].expected
    BY <1>6, TellMoves
  <2> QED BY <1>6, <2>1, OrderKept
<1>7. CASE WriteFails \/ CloseEndpoint \/ Stop
  BY <1>6, <1>7 DEF WriteFails, CloseEndpoint, Stop, Rests, Stops
<1>8. CASE Write
  <2>1. CASE ~child.alive
    BY <1>6, <1>8, <2>1, WriteMoves
  <2> QED BY <1>8, <2>1, WriteOrder
<1>9. ASSUME NEW a \in Attachment, Accept(a) PROVE Order'
  <2>1. /\ pump'.pc = "working" /\ pump'.op = handler[a].op /\ UNCHANGED child
        /\ handler[a].pc = "offer" /\ pump.pc = "select"
    BY <1>9 DEF Accept
  <2>2. /\ handler[a].op.by = a
        /\ handler[a].op.kind = "data" => handler[a].op.n = handler[a].expected
    BY <2>1 DEF Serves, Served
  <2>3. /\ \A b \in Attachment : b # a => handler'[b] = handler[b]
        /\ handler'[a].pc = "await" /\ handler'[a].expected = handler[a].expected
    BY <1>9, AcceptMoves
  <2>4. \A i \in 1..Len(child.given) : child.given[i].by \in Attachment
    <3>1. \A i \in 1..Len(child.given) : child.given[i] \in Piece
      BY DEF Types
    <3> QED BY <3>1 DEF Piece
  <2>5. ASSUME NEW i \in 1..Len(child.given), child.given[i].by # a PROVE handler[child.given[i].by].pc = "over"
    <3>1. handler[child.given[i].by].pc # "none" /\ handler[child.given[i].by].pc \in
              {"none", "loop", "offer", "await", "stuck", "over"}
      <4>1. handler[child.given[i].by].pc # "none"
        BY DEF Order
      <4> QED BY <2>4, <4>1 DEF Types, HandlerRecord
    <3>2. a \in Holders /\ child.given[i].by \notin Holders
      BY <2>1, <2>4, <2>5 DEF Held, Holders
    <3> QED BY <2>4, <3>1, <3>2 DEF Holders
  <2>6. ASSUME NEW i \in 1..Len(child.given)
        PROVE  LET b == child.given[i].by
               IN  /\ handler'[b].pc # "none"
                   /\ handler'[b].pc # "over" => child.given[i].n <= handler'[b].expected
                   /\ pump'.op.by # b => handler'[b].pc = "over"
                   /\ pump'.op.by = b /\ pump'.op.kind = "data" => child.given[i].n <= pump'.op.n
    <3>1. CASE child.given[i].by = a
      <4>1. child.given[i].n <= handler[a].expected
        BY <2>1, <3>1 DEF Order
      <4> QED BY <2>1, <2>2, <2>3, <3>1, <4>1
    <3>2. CASE child.given[i].by # a
      <4>1. handler'[child.given[i].by].pc = "over"
        BY <2>3, <2>4, <2>5, <3>2
      <4> QED BY <2>1, <2>2, <3>2, <4>1
    <3> QED BY <3>1, <3>2
  <2>7. ASSUME NEW i \in 1..Len(child.given), NEW j \in 1..Len(child.given), i < j
        PROVE  LET b == child.given[i].by
               IN  IF child.given[j].by = b THEN child.given[i].n <= child.given[j].n
                   ELSE handler'[b].pc = "over" /\ pump'.op.by # b
    <3>1. IF child.given[j].by = child.given[i].by THEN child.given[i].n <= child.given[j].n
          ELSE handler[child.given[i].by].pc = "over"
      BY <2>7 DEF Order
    <3> QED BY <2>1, <2>2, <2>3, <2>4, <3>1
  <2>8. \A i, j, k \in 1..Len(child.given) : i < j /\ j < k /\ child.given[i].by = child.given[k].by =>
            child.given[j].by = child.given[i].by
    BY DEF Order
  <2> QED BY <2>1, <2>6, <2>7, <2>8 DEF Order
<1> QED BY <1>1, <1>3, <1>4, <1>5, <1>7, <1>8, <1>9 DEF Next, Run

-----------------------------------------------------------------------------
(* What an attachment and its handler say to each other. *)

LEMMA TalksInit == Init => Talks
BY DEF Init, Talks, Talk, Opens, Asks, Told, Saw, Live, Holders, NewHandler, NewClient

(* A step that does not touch an attachment, its frames or its handler.    *)
LEMMA TalkKept ==
    ASSUME Types, NEW a \in Attachment, Talk(a),
           UNCHANGED <<handler[a], up[a], down[a], client[a], cut[a]>>,
           child'.alive => child.alive,
           child'.given = child.given \/ \E piece \in Piece : child'.given = Append(child.given, piece),
           pump'.op.kind = pump.op.kind \/ ~(handler[a].pc = "await" /\ handler[a].result = "none")
    PROVE  Talk(a)'
PROOF
<1>1. \A n : Written(a, n) => \E i \in 1..Len(child'.given) : child'.given[i] = [by |-> a, n |-> n, at |-> Parts]
  BY WrittenGrows DEF Written
<1>2. Opens(a)'
  BY DEF Talk, Opens, Live, Holders
<1>3. Asks(a)'
  BY DEF Talk, Asks, Live, Busy, IsOp
<1>4. Told(a)'
  <2>1. SUFFICES ASSUME Live(a) PROVE Told(a)'
    BY DEF Told, Live
  <2>2. ASSUME NEW i \in 1..Len(down[a]), Ends(a, i) PROVE Ends(a, i)'
    BY <2>2 DEF Ends
  <2>3. ASSUME NEW i \in 1..Len(down[a]), Fits(a, i) PROVE Fits(a, i)'
    BY <1>1, <2>3 DEF Fits, Answer, Frame, Written
  <2>4. \A i \in 1..Len(down'[a]) :
           \/ down'[a][i].kind = "opened" /\ i = 1 /\ client'[a].pc = "opening"
           \/ Ends(a, i)'
           \/ client'[a].pc # "opening" /\ Fits(a, i)'
    BY <2>1, <2>2, <2>3 DEF Talk, Told
  <2> QED BY <2>1, <2>4 DEF Talk, Told, Holders
<1>5. Saw(a)'
  BY <1>1 DEF Talk, Saw, Written
<1> QED BY <1>2, <1>3, <1>4, <1>5 DEF Talk

(* The handler returns. *)
LEMMA TalkReturns ==
    ASSUME Types, NEW a \in Attachment, Talk(a), NEW last, NEW then,
           last.kind \in End \cup {"error"}, Returns(a, last, then),
           UNCHANGED <<child, client, cut>>,
           client[a].pc # "new", handler[a].pc # "over"
    PROVE  Talk(a)'
PROOF
<1>1. handler'[a].pc = "over" /\ up'[a] = <<>> /\ a \notin Holders'
  BY DEF Returns, Types, NewHandler, Holders
<1>2. Opens(a)'
  BY <1>1 DEF Talk, Opens, Live
<1>3. Asks(a)'
  BY <1>1 DEF Asks
<1>4. Saw(a)'
  BY DEF Talk, Saw, Written
<1>5. ASSUME Live(a) PROVE Told(a)'
  <2>1. down' = [down EXCEPT ![a] = Append(@, last)]
    BY <1>5 DEF Returns, Live
  <2>2. down[a] \in Seq(AnyFrame) /\ down'[a] = Append(down[a], last)
    BY <2>1 DEF Types
  <2>3. /\ Len(down'[a]) = Len(down[a]) + 1 /\ down'[a][Len(down[a]) + 1] = last
        /\ \A i \in 1..Len(down[a]) : down'[a][i] = down[a][i]
        /\ Len(down[a]) \in Nat
    BY <2>2
  <2>4. ASSUME NEW i, i = Len(down[a]) + 1 PROVE Ends(a, i)'
    BY <1>1, <2>3, <2>4 DEF Ends
  <2>5. ASSUME NEW i \in 1..Len(down[a])
        PROVE  \/ down'[a][i].kind = "opened" /\ i = 1 /\ client'[a].pc = "opening"
               \/ client'[a].pc # "opening" /\ Fits(a, i)'
    <3>1. ~Ends(a, i)
      BY DEF Ends
    <3>2. Fits(a, i) => Fits(a, i)'
      BY <2>3 DEF Fits, Answer, Frame, Written
    <3> QED BY <1>5, <2>3, <3>1, <3>2 DEF Talk, Told
  <2>6. ASSUME NEW i \in 1..Len(down'[a])
        PROVE  \/ down'[a][i].kind = "opened" /\ i = 1 /\ client'[a].pc = "opening"
               \/ Ends(a, i)'
               \/ client'[a].pc # "opening" /\ Fits(a, i)'
    <3>1. i \in 1..Len(down[a]) \/ i = Len(down[a]) + 1
      BY <2>3
    <3> QED BY <2>4, <2>5, <3>1
  <2> QED BY <1>1, <2>6 DEF Told
<1>6. Told(a)'
  BY <1>5 DEF Told, Live
<1> QED BY <1>2, <1>3, <1>4, <1>6 DEF Talk

(* An operation is acknowledged: the one the client waits for. *)
LEMMA TalkAcks ==
    ASSUME Types, NEW a \in Attachment, Talk(a), NEW kind \in {"ack", "resized"}, NEW rest,
           Acks(a, kind, rest), ~cut[a], handler[a].pc \in {"loop", "await"},
           UNCHANGED <<child, client, cut>>,
           handler[a].pc = "await" => rest = up[a],
           handler[a].pc = "loop" => up[a] # <<>> /\ rest = Tail(up[a]),
           Live(a) => IsOp(a, handler[a].expected, IF kind = "ack" THEN "data" ELSE "resize"),
           kind = "ack" /\ child.alive => Written(a, handler[a].expected)
    PROVE  Talk(a)'
PROOF
<1> DEFINE e == handler[a].expected
           m == Len(down[a])
<1>1. /\ e \in Nat \ {0} /\ up[a] \in Seq(AnyFrame) /\ down[a] \in Seq(AnyFrame)
      /\ client[a].ops \in Seq({"data", "resize"}) /\ client[a].acked \in Nat
  BY Fields
<1>2. /\ handler' = [handler EXCEPT ![a] =
             [NewHandler EXCEPT !.pc = "loop", !.expected = handler[a].expected + 1]]
      /\ down' = [down EXCEPT ![a] = Append(@, Frame(kind, handler[a].expected))]
      /\ up' = [up EXCEPT ![a] = rest]
  BY DEF Acks, GoesOn
<1>3. handler'[a].pc = "loop" /\ handler'[a].expected = e + 1
  <2>1. handler'[a] = [NewHandler EXCEPT !.pc = "loop", !.expected = handler[a].expected + 1]
    BY <1>2 DEF Types
  <2> QED BY <2>1 DEF NewHandler
<1>4. up'[a] = rest /\ down'[a] = Append(down[a], Frame(kind, e))
  BY <1>2 DEF Types
<1>5. /\ m \in Nat /\ Len(down'[a]) = m + 1 /\ down'[a][m + 1] = Frame(kind, e)
      /\ \A i \in 1..m : down'[a][i] = down[a][i]
  BY <1>1, <1>4
<1>6. client[a].pc # "new" /\ (Live(a) => client[a].pc # "opening")
  <2>1. client[a].pc # "new"
    BY DEF Talk, Opens
  <2>2. Live(a) => client[a].ops # <<>>
    BY DEF IsOp
  <2> QED BY <2>1, <2>2 DEF Talk, Opens
<1>7. Opens(a)'
  BY <1>3, <1>6 DEF Talk, Opens, Live
<1>8. Saw(a)'
  BY DEF Talk, Saw, Written
<1>12. e \in Nat /\ m \in Nat /\ client[a].acked \in Nat /\ Len(up[a]) \in Nat
  BY <1>1
<1>9. ASSUME Live(a) PROVE Asks(a)'
  <2>1. CASE handler[a].pc = "await"
    <3>1. up'[a] = up[a] /\ Busy(a) = 1
      BY <1>4, <2>1 DEF Busy
    <3>2. /\ \A i \in 1..Len(up[a]) : up[a][i].kind \in {"data", "resize"} =>
                up[a][i].n = e + 1 + i - 1 /\ IsOp(a, up[a][i].n, up[a][i].kind)
          /\ client[a].pc \in {"opening", "ready"} => Len(client[a].ops) = e - 1 + 1 + Len(up[a])
      BY <1>9, <2>1, <3>1 DEF Talk, Asks
    <3>3. \A i \in 1..Len(up[a]) : e + 1 + i - 1 = (e + 1) + 0 + i - 1
      BY <1>12
    <3>4. client[a].pc \in {"opening", "ready"} => Len(client[a].ops) = (e + 1) - 1 + 0 + Len(up[a])
      BY <1>12, <3>2
    <3> HIDE DEF e
    <3> QED BY <1>3, <3>1, <3>2, <3>3, <3>4 DEF Asks, Busy, IsOp
  <2>2. CASE handler[a].pc = "loop"
    <3>1. up'[a] = Tail(up[a]) /\ up[a] # <<>> /\ Busy(a) = 0
      BY <1>4, <2>2 DEF Busy
    <3>2. /\ \A i \in 1..Len(up[a]) : up[a][i].kind \in {"data", "resize"} =>
                up[a][i].n = e + 0 + i - 1 /\ IsOp(a, up[a][i].n, up[a][i].kind)
          /\ client[a].pc \in {"opening", "ready"} => Len(client[a].ops) = e - 1 + 0 + Len(up[a])
      BY <1>9, <2>2, <3>1 DEF Talk, Asks
    <3>3. Len(up'[a]) = Len(up[a]) - 1 /\ Len(up[a]) \in Nat
          /\ \A i \in 1..Len(up'[a]) : i + 1 \in 1..Len(up[a]) /\ up'[a][i] = up[a][i + 1]
      BY <1>1, <3>1
    <3>4. ASSUME NEW i \in 1..Len(up'[a]), up'[a][i].kind \in {"data", "resize"}
          PROVE  up'[a][i].n = e + 1 + i - 1 /\ IsOp(a, up'[a][i].n, up'[a][i].kind)
      <4> DEFINE j == i + 1
      <4>2. \A x, y \in Nat : x + 0 + (y + 1) - 1 = x + 1 + y - 1
        OBVIOUS
      <4>3. i \in Nat
        BY <3>3
      <4>1. j \in 1..Len(up[a]) /\ up'[a][i] = up[a][j] /\ e + 0 + j - 1 = e + 1 + i - 1
        BY Zenon, <1>12, <3>3, <4>2, <4>3
      <4> HIDE DEF j, e
      <4> QED BY <3>2, <3>4, <4>1
    <3>5. client[a].pc \in {"opening", "ready"} => Len(client[a].ops) = (e + 1) - 1 + 0 + Len(up'[a])
      <4>1. \A x, y \in Nat : x - 1 + 0 + y = (x + 1) - 1 + 0 + (y - 1)
        OBVIOUS
      <4> HIDE DEF e
      <4> QED BY Zenon, <1>12, <3>2, <3>3, <4>1
    <3>6. \A i \in 1..Len(up'[a]) : e + 1 + i - 1 = (e + 1) + 0 + i - 1
      BY <1>12, <3>3
    <3> HIDE DEF e
    <3> QED BY <1>3, <3>4, <3>5, <3>6 DEF Asks, Busy, IsOp
  <2> QED BY <2>1, <2>2
<1>10. ASSUME Live(a) PROVE Told(a)'
  <2>1. e = client[a].acked + m + 1
    BY <1>6, <1>10 DEF Talk, Told, Holders
  <2>2. \A i \in 1..m : ~Ends(a, i)
    BY DEF Ends
  <2>3. IsOp(a, e, IF kind = "ack" THEN "data" ELSE "resize")
    BY <1>10
  <2>4. ASSUME NEW i \in 1..m PROVE Fits(a, i)'
    <3>1. Fits(a, i)
      BY <1>6, <1>10, <2>2 DEF Talk, Told
    <3> QED BY <1>5, <3>1 DEF Fits, Answer, Frame, Written
  <2>5. ASSUME NEW i, i = m + 1 PROVE Fits(a, i)'
    <3>1. client[a].acked + i = e
      <4> HIDE DEF e, m
      <4> QED BY <1>12, <2>1, <2>5
    <3>2. e <= Len(client[a].ops) /\ (client[a].ops[e] = "data" <=> kind = "ack")
      BY <2>3 DEF IsOp
    <3>3. Frame(kind, e) = Answer(a, e)
      BY <3>2 DEF Answer, Frame
    <3>4. /\ client'[a].acked + i = e /\ client'[a].ops = client[a].ops /\ down'[a][i] = Frame(kind, e)
          /\ child' = child
      BY <1>5, <2>5, <3>1
    <3> QED BY <3>2, <3>3, <3>4 DEF Fits, Answer, Written
  <2>6. ASSUME NEW i \in 1..Len(down'[a]) PROVE client'[a].pc # "opening" /\ Fits(a, i)'
    <3>1. i \in 1..m \/ i = m + 1
      BY <1>5
    <3> QED BY <1>6, <1>10, <2>4, <2>5, <3>1
  <2>7. e + 1 = client[a].acked + Len(down'[a]) + 1
    <3>1. Len(down'[a]) = m + 1
      BY <1>5
    <3> HIDE DEF e, m
    <3> QED BY SMTT(40), <1>12, <2>1, <3>1
  <2> QED BY <1>3, <2>6, <2>7 DEF Told
<1>11. Asks(a)' /\ Told(a)'
  BY <1>9, <1>10 DEF Asks, Told, Live
<1> QED BY <1>7, <1>8, <1>11 DEF Talk

(* The handler goes on without a word to the client. *)
LEMMA TalkGoesOn ==
    ASSUME Types, NEW a \in Attachment, Talk(a),
           handler[a].pc \in {"loop", "offer", "await"}, handler'[a].pc \in {"loop", "offer", "await", "stuck"},
           handler'[a].expected = handler[a].expected,
           UNCHANGED <<down[a], client[a], cut[a]>>,
           child'.alive => child.alive,
           child'.given = child.given \/ \E piece \in Piece : child'.given = Append(child.given, piece)
    PROVE  Opens(a)' /\ Told(a)' /\ Saw(a)'
PROOF
<1>5. \A n : Written(a, n) => \E i \in 1..Len(child'.given) : child'.given[i] = [by |-> a, n |-> n, at |-> Parts]
  BY WrittenGrows DEF Written
<1>1. Opens(a)'
  BY DEF Talk, Opens, Live, Holders
<1>2. Saw(a)'
  BY <1>5 DEF Talk, Saw, Written
<1>3. ASSUME NEW i PROVE ~Ends(a, i) /\ (Fits(a, i) => Fits(a, i)')
  BY <1>5 DEF Ends, Fits, Answer, Frame, Written
<1>4. Told(a)'
  <2>1. SUFFICES ASSUME Live(a) PROVE Told(a)'
    BY DEF Told, Live
  <2>2. a \in Holders
    BY DEF Holders
  <2> QED BY <1>3, <2>1, <2>2 DEF Talk, Told
<1> QED BY <1>1, <1>2, <1>4

(* The head of what a handler receives, and the rest. *)
LEMMA TalkHead ==
    ASSUME Types, NEW a \in Attachment, Talk(a), Live(a), handler[a].pc = "loop", up[a] # <<>>
    PROVE  /\ Head(up[a]).kind \in {"data", "resize"} =>
                 /\ Head(up[a]).n = handler[a].expected
                 /\ IsOp(a, handler[a].expected, Head(up[a]).kind)
           /\ \A i \in 1..Len(Tail(up[a])) : Tail(up[a])[i].kind \in {"data", "resize"} =>
                 /\ Tail(up[a])[i].n = handler[a].expected + 1 + i - 1
                 /\ IsOp(a, Tail(up[a])[i].n, Tail(up[a])[i].kind)
           /\ client[a].pc \in {"opening", "ready"} =>
                 Len(client[a].ops) = handler[a].expected - 1 + 1 + Len(Tail(up[a]))
PROOF
<1> DEFINE e == handler[a].expected
           l == Len(up[a])
           tail == Tail(up[a])
<1>1. e \in Nat /\ up[a] \in Seq(AnyFrame)
  BY Fields
<1>2. /\ l \in Nat /\ l >= 1 /\ Head(up[a]) = up[a][1] /\ Len(tail) = l - 1
      /\ \A i \in 1..Len(tail) : i + 1 \in 1..l /\ tail[i] = up[a][i + 1]
  BY <1>1
<1>3. Busy(a) = 0
  BY DEF Busy
<1>4. /\ \A i \in 1..l : up[a][i].kind \in {"data", "resize"} =>
            up[a][i].n = e + 0 + i - 1 /\ IsOp(a, up[a][i].n, up[a][i].kind)
      /\ client[a].pc \in {"opening", "ready"} => Len(client[a].ops) = e - 1 + 0 + l
  BY <1>3 DEF Talk, Asks
<1> HIDE DEF e, l, tail
<1>5. up[a][1].kind \in {"data", "resize"} =>
         up[a][1].n = e /\ IsOp(a, e, up[a][1].kind)
  <2>1. 1 \in 1..l /\ e + 0 + 1 - 1 = e
    BY <1>1, <1>2
  <2> QED BY <1>4, <2>1
<1>6. ASSUME NEW i \in 1..Len(tail), tail[i].kind \in {"data", "resize"}
      PROVE  tail[i].n = e + 1 + i - 1 /\ IsOp(a, tail[i].n, tail[i].kind)
  <2> DEFINE j == i + 1
  <2>1. j \in 1..l /\ tail[i] = up[a][j] /\ e + 0 + j - 1 = e + 1 + i - 1
    BY <1>1, <1>2
  <2> HIDE DEF j
  <2> QED BY <1>4, <1>6, <2>1
<1>7. client[a].pc \in {"opening", "ready"} => Len(client[a].ops) = e - 1 + 1 + Len(tail)
  BY <1>1, <1>2, <1>4
<1> QED BY <1>2, <1>5, <1>6, <1>7 DEF e, tail

LEMMA HandlerTalk ==
    ASSUME Types, Serves, NEW a \in Attachment, Talk(a), Handle(a) \/ Leave(a)
    PROVE  Talk(a)'
PROOF
<1>1. /\ UNCHANGED <<mode, child, reaper, closed, pump, cut, client>>
      /\ handler \in [Attachment -> HandlerRecord]
      /\ up \in [Attachment -> Seq(AnyFrame)] /\ down \in [Attachment -> Seq(AnyFrame)]
  BY HandlerMoves DEF Types
<1>2. up[a] # <<>> \/ handler[a].pc # "none" => client[a].pc # "new"
  BY DEF Talk, Opens
<1>3. ASSUME NEW then, NEW kind \in End \cup {"error"}, Returns(a, Frame(kind, 0), then),
             client[a].pc # "new", handler[a].pc # "over"
      PROVE  Talk(a)'
  <2>1. Frame(kind, 0).kind \in End \cup {"error"}
    BY DEF Frame
  <2> HIDE DEF Frame
  <2> QED BY <1>1, <1>3, <2>1, TalkReturns
<1>4. ASSUME Fails(a), client[a].pc # "new", handler[a].pc # "over" PROVE Talk(a)'
  BY <1>3, <1>4 DEF Fails
<1>5. ASSUME Waits(a), UNCHANGED down, handler[a].pc \in {"loop", "offer", "await"} PROVE Talk(a)'
  <2>1. handler'[a].pc = "stuck" /\ handler'[a].expected = handler[a].expected
    BY <1>1, <1>5, Fields DEF Waits
  <2>2. Asks(a)'
    BY <2>1 DEF Asks
  <2> QED BY <1>1, <1>5, <2>1, <2>2, TalkGoesOn DEF Talk
<1>6. ASSUME NEW kind \in {"ack", "resized"}, NEW rest,
             Acks(a, kind, rest), handler[a].pc \in {"loop", "await"},
             handler[a].pc = "await" => rest = up[a],
             handler[a].pc = "loop" => up[a] # <<>> /\ rest = Tail(up[a]),
             Live(a) => IsOp(a, handler[a].expected, IF kind = "ack" THEN "data" ELSE "resize"),
             kind = "ack" /\ child.alive => Written(a, handler[a].expected)
      PROVE  Talk(a)'
  <2>1. CASE cut[a]
    BY <1>2, <1>4, <1>6, <2>1 DEF Acks
  <2>2. CASE ~cut[a]
    BY <1>1, <1>6, <2>2, TalkAcks
  <2> QED BY <2>1, <2>2
<1>7. CASE Open(a)
  <2>1. handler[a].pc = "none" /\ up[a] # <<>> /\ client[a].pc # "new"
    BY <1>2, <1>7 DEF Open
  <2>2. CASE /\ handler' = [handler EXCEPT ![a].pc = "loop"]
             /\ down' = [down EXCEPT ![a] = Append(@, Frame("opened", 0))]
             /\ up' = [up EXCEPT ![a] = Tail(@)]
    <3>1. handler'[a].pc = "loop" /\ handler'[a].expected = handler[a].expected
      BY <1>1, <2>2, Fields
    <3>2. handler[a].expected = 1 /\ client'[a] = client[a] /\ (Live(a)' <=> Live(a))
      BY <1>1, <2>1 DEF Talk, Opens, Live
    <3>3. Saw(a)'
      BY <1>1 DEF Talk, Saw, Written
    <3>4. CASE ~Live(a)
      <4>1. Opens(a)'
        BY <2>1, <3>1, <3>2, <3>4 DEF Talk, Opens
      <4> QED BY <3>2, <3>3, <3>4, <4>1 DEF Talk, Asks, Told
    <3>5. CASE Live(a)
      <4>1. client[a].pc = "opening" /\ client[a].ops = <<>> /\ client[a].acked = 0
            /\ Len(up[a]) <= 1 /\ down[a] = <<>> /\ ~client[a].full
        BY <2>1, <3>5, Fields DEF Talk, Opens
      <4>2. /\ Len(up'[a]) = 0
            /\ Len(down'[a]) = 1 /\ down'[a][1] = Frame("opened", 0)
        <5>1. up'[a] = Tail(up[a]) /\ down'[a] = Append(<<>>, Frame("opened", 0))
          BY <1>1, <2>2, <4>1
        <5>2. up[a] \in Seq(AnyFrame)
          BY Fields
        <5>3. up[a] # <<>>
          BY <2>1
        <5>4. Len(up[a]) \in Nat /\ Len(up[a]) >= 1 /\ Len(Tail(up[a])) = Len(up[a]) - 1
          BY <5>2, <5>3
        <5>5. Len(Tail(up[a])) = 0
          <6>1. \A k \in Nat : k <= 1 /\ k >= 1 => k - 1 = 0
            OBVIOUS
          <6> QED BY <4>1, <5>4, <6>1
        <5>6. /\ Len(Append(<<>>, Frame("opened", 0))) = 1
              /\ Append(<<>>, Frame("opened", 0))[1] = Frame("opened", 0)
          BY DEF Frame
        <5> HIDE DEF Frame
        <5> QED BY <5>1, <5>5, <5>6
      <4>3. Opens(a)'
        BY <2>1, <3>1, <3>2, <4>1, <4>2 DEF Opens
      <4>4. Asks(a)'
        BY <3>1, <3>2, <4>1, <4>2 DEF Asks, Busy
      <4>5. Told(a)'
        BY <3>1, <3>2, <4>1, <4>2 DEF Told, Frame
      <4> QED BY <3>3, <4>3, <4>4, <4>5 DEF Talk
    <3> QED BY <3>4, <3>5
  <2> QED BY <1>3, <1>4, <1>7, <2>1, <2>2 DEF Open
<1>8. CASE Receive(a)
  <2>1. handler[a].pc = "loop" /\ up[a] # <<>> /\ client[a].pc # "new"
    BY <1>2, <1>8 DEF Receive
  <2> DEFINE frame == Head(up[a])
             rest == Tail(up[a])
  <2>2. CASE Fails(a) \/ Returns(a, Frame("DETACHED", 0), Released)
    BY <1>3, <1>4, <2>1, <2>2 DEF End
  <2>3. CASE Waits(a) /\ UNCHANGED down
    BY <1>5, <2>1, <2>3
  <2>4. CASE frame.kind = "resize" /\ Acks(a, "resized", rest)
    BY <1>6, <2>1, <2>4, TalkHead
  <2>5. CASE /\ handler' = [handler EXCEPT ![a].pc = "offer",
                                ![a].op = [by |-> a, kind |-> frame.kind, n |-> frame.n]]
             /\ GoesOn(a, rest) /\ UNCHANGED down
    <3>1. handler'[a] = [handler[a] EXCEPT !.pc = "offer", !.op = [by |-> a, kind |-> frame.kind, n |-> frame.n]]
      BY <1>1, <2>5
    <3>2. /\ handler'[a].pc = "offer" /\ handler'[a].expected = handler[a].expected
          /\ handler'[a].op.kind = frame.kind
      BY <3>1, Fields
    <3>3. up'[a] = rest
      BY <1>1, <2>5 DEF GoesOn
    <3>4. Opens(a)' /\ Told(a)' /\ Saw(a)'
      BY <1>1, <2>1, <2>5, <3>2, TalkGoesOn
    <3>5. Asks(a)'
      <4>1. CASE ~Live(a)
        BY <1>1, <4>1 DEF Asks, Live
      <4>2. CASE Live(a)
        <5> HIDE DEF frame, rest
        <5>1. /\ frame.kind \in {"data", "resize"} =>
                    IsOp(a, handler[a].expected, frame.kind)
              /\ \A i \in 1..Len(rest) : rest[i].kind \in {"data", "resize"} =>
                    /\ rest[i].n = handler[a].expected + 1 + i - 1
                    /\ IsOp(a, rest[i].n, rest[i].kind)
              /\ client[a].pc \in {"opening", "ready"} =>
                    Len(client[a].ops) = handler[a].expected - 1 + 1 + Len(rest)
          BY <2>1, <4>2, TalkHead DEF frame, rest
        <5> QED BY <1>1, <3>2, <3>3, <5>1 DEF Asks, Busy, IsOp
      <4> QED BY <4>1, <4>2
    <3> QED BY <3>4, <3>5 DEF Talk
  <2> QED BY <1>8, <2>2, <2>3, <2>4, <2>5 DEF Receive
<1>9. CASE SubmitFails(a)
  BY <1>2, <1>4, <1>5, <1>9 DEF SubmitFails
<1>10. CASE Answered(a)
  <2>1. handler[a].pc = "await"
    BY <1>10 DEF Answered
  <2>2. CASE Waits(a) /\ UNCHANGED down
    BY <1>5, <2>1, <2>2
  <2>3. CASE Fails(a) \/ Returns(a, Frame("INPUT_CLOSED", 0), ClosedInput)
    BY <1>2, <1>3, <1>4, <2>1, <2>3 DEF End
  <2>4. CASE handler[a].result = "written" /\ Acks(a, "ack", up[a])
    <3>1. Live(a) => IsOp(a, handler[a].expected, "data")
      BY <2>1, <2>4 DEF Talk, Asks
    <3>2. child.alive => Written(a, handler[a].expected)
      BY <2>1, <2>4 DEF Serves, Served
    <3> QED BY <1>6, <2>1, <2>4, <3>1, <3>2
  <2> QED BY <1>10, <2>2, <2>3, <2>4 DEF Answered
<1>11. CASE HearExit(a) \/ GiveUp(a) \/ Notice(a)
  BY <1>2, <1>3, <1>4, <1>11 DEF HearExit, GiveUp, Notice, End
<1>12. CASE GoDeaf(a)
  <2>1. handler[a].pc = "loop" /\ handler'[a].pc = "loop" /\ handler'[a].expected = handler[a].expected
        /\ cut[a] /\ UNCHANGED <<up, down>>
    BY <1>1, <1>12, Fields DEF GoDeaf
  <2>2. Asks(a)'
    BY <1>1, <2>1 DEF Asks, Live
  <2> QED BY <1>1, <2>1, <2>2, TalkGoesOn DEF Talk
<1> QED BY <1>7, <1>8, <1>9, <1>10, <1>11, <1>12 DEF Handle, Leave

LEMMA PumpTalk ==
    ASSUME Types, Serves, NEW a \in Attachment, Talk(a), Run \/ Reap \/ Read \/ Exit
    PROVE  Talk(a)'
PROOF
<1>1. /\ UNCHANGED <<up, down, client, cut>>
      /\ child'.alive => child.alive
      /\ child'.given = child.given \/ \E piece \in Piece : child'.given = Append(child.given, piece)
  <2>1. CASE Write
    BY <2>1, WriteMoves
  <2>2. CASE WriteFails \/ CloseEndpoint \/ Stop \/ \E b \in Attachment : Accept(b)
    BY <2>2 DEF WriteFails, CloseEndpoint, Stop, Accept
  <2>3. CASE Reap \/ Read \/ Exit
    BY <2>3 DEF Reap, Read, Exit, Abort, PublishExit, server, Types
  <2> QED BY <2>1, <2>2, <2>3 DEF Run
<1>2. ASSUME handler'[a] = handler[a],
             pump'.op.kind = pump.op.kind \/ ~(handler[a].pc = "await" /\ handler[a].result = "none")
      PROVE  Talk(a)'
  BY <1>1, <1>2, TalkKept
<1>3. ASSUME pump.pc = "working",
             NEW result \in {"written", "closed", "failed"}, Tells(result),
             result = "written" => pump.op.kind = "data"
      PROVE  Talk(a)'
  <2>1. CASE ~(a = pump.op.by /\ handler[a].pc = "await")
    <3>1. handler'[a] = handler[a]
      BY <1>3, <2>1, TellMoves
    <3>2. ~(handler[a].pc = "await" /\ handler[a].result = "none")
      BY <2>1 DEF Serves, Served
    <3> QED BY <1>2, <3>1, <3>2
  <2>2. CASE a = pump.op.by /\ handler[a].pc = "await"
    <3>1. /\ handler'[a].pc = "await" /\ handler'[a].result = result
          /\ handler'[a].expected = handler[a].expected
      BY <1>3, <2>2, TellMoves
    <3>2. Opens(a)' /\ Told(a)' /\ Saw(a)'
      BY <1>1, <2>2, <3>1, TalkGoesOn
    <3>3. handler[a].result = "none"
      BY <1>3, <2>2 DEF Serves
    <3>4. Asks(a)'
      BY ZenonT(60), <1>1, <1>3, <2>2, <3>1, <3>3 DEF Talk, Asks, Live, Busy, IsOp
    <3> QED BY <3>2, <3>4 DEF Talk
  <2> QED BY <2>1, <2>2
<1>4. CASE Write
  <2>1. pump.pc = "working" /\ pump.op.kind = "data"
    BY <1>4, WriteMoves
  <2>2. (pump'.op = pump.op /\ handler' = handler) \/ Tells("written")
    BY <1>4, WriteMoves
  <2> QED BY <1>2, <1>3, <2>1, <2>2
<1>5. CASE WriteFails \/ CloseEndpoint
  BY <1>3, <1>5 DEF WriteFails, CloseEndpoint
<1>6. CASE Stop
  <2>1. ~(handler[a].pc = "await" /\ handler[a].result = "none")
    BY <1>6 DEF Stop, Serves, Served
  <2> QED BY <1>2, <1>6, <2>1 DEF Stop
<1>7. ASSUME NEW b \in Attachment, Accept(b) PROVE Talk(a)'
  <2>1. /\ pump'.op = handler[b].op
        /\ ~(handler[a].pc = "await" /\ handler[a].result = "none")
    BY <1>7 DEF Accept, Serves, Served
  <2>2. CASE a # b
    BY <1>2, <1>7, <2>1, <2>2, AcceptMoves
  <2>3. CASE a = b
    <3>1. handler[a].pc = "offer" /\ handler'[a].pc = "await" /\ handler'[a].expected = handler[a].expected
          /\ handler'[a].result = handler[a].result /\ handler[a].result = "none"
      BY <1>7, <2>3, AcceptMoves DEF Serves, Served
    <3>2. Opens(a)' /\ Told(a)' /\ Saw(a)'
      BY <1>1, <3>1, TalkGoesOn
    <3>3. Asks(a)'
      BY <1>1, <2>1, <2>3, <3>1 DEF Talk, Asks, Live, Busy, IsOp
    <3> QED BY <3>2, <3>3 DEF Talk
  <2> QED BY <2>2, <2>3
<1>8. CASE Reap \/ Read \/ Exit
  <2>1. handler' = handler /\ pump' = pump
    BY <1>8 DEF Reap, Read, Exit, Abort, PublishExit, server
  <2> QED BY <1>2, <2>1
<1> QED BY <1>4, <1>5, <1>6, <1>7, <1>8 DEF Run

(* A client's step touches its own frames and record only. *)
LEMMA ClientMoves ==
    ASSUME Types, NEW a \in Attachment, Hear(a) \/ Call(a) \/ Lose(a)
    PROVE  /\ UNCHANGED <<mode, child, reaper, closed, pump, input, handler>>
           /\ \A b \in Attachment : b # a =>
                 UNCHANGED <<up[b], down[b], client[b], cut[b]>>
PROOF
<1>1. UNCHANGED <<mode, child, reaper, closed, pump, input, handler>>
  BY DEF Hear, Call, Opened, LoseHope, Resume, ReceiveAnswer, ReceiveFails, ReceiveLogs, Conclude,
     OpenStream, Operate, Finish, Lose, Mine, server
<1>2. /\ client \in [Attachment -> ClientRecord]
      /\ up \in [Attachment -> Seq(AnyFrame)] /\ down \in [Attachment -> Seq(AnyFrame)]
      /\ cut \in [Attachment -> BOOLEAN]
  BY DEF Types, ClientTypes
<1>3. ASSUME NEW c, Becomes(a, c) PROVE \A b \in Attachment : b # a => client'[b] = client[b]
  BY <1>2, <1>3 DEF Becomes
<1>4. ASSUME NEW frames, Sends(a, frames) PROVE \A b \in Attachment : b # a => up'[b] = up[b]
  BY <1>2, <1>4 DEF Sends
<1>5. ASSUME Cuts(a) PROVE \A b \in Attachment : b # a => cut'[b] = cut[b] /\ down'[b] = down[b]
  BY <1>2, <1>5 DEF Cuts
<1>6. ASSUME NEW s, down' = [down EXCEPT ![a] = s] PROVE \A b \in Attachment : b # a => down'[b] = down[b]
  BY <1>2, <1>6
<1>7. \A b \in Attachment : b # a => client'[b] = client[b]
  BY <1>3 DEF Hear, Call, Opened, LoseHope, Resume, ReceiveAnswer, ReceiveFails, ReceiveLogs, Conclude,
     OpenStream, Operate, Operates, Finish, Lose
<1>8. \A b \in Attachment : b # a => up'[b] = up[b]
  BY <1>4 DEF Hear, Call, Opened, LoseHope, Resume, ReceiveAnswer, ReceiveFails, ReceiveLogs, Conclude,
     OpenStream, Operate, Operates, Finish, Lose
<1>9. \A b \in Attachment : b # a => cut'[b] = cut[b]
  BY <1>2, <1>5 DEF Hear, Call, Opened, LoseHope, Resume, ReceiveAnswer, ReceiveFails, ReceiveLogs, Conclude,
     OpenStream, Operate, Operates, Finish, Lose
<1>10. \A b \in Attachment : b # a => down'[b] = down[b]
  BY <1>5, <1>6 DEF Hear, Call, Opened, LoseHope, Resume, ReceiveAnswer, ReceiveFails, ReceiveLogs, Conclude,
     OpenStream, Operate, Operates, Finish, Lose
<1> QED BY <1>1, <1>7, <1>8, <1>9, <1>10

(* A client whose stream is cut, or that is over, hears nothing any more.  *)
LEMMA DeafTalk ==
    ASSUME Types, NEW a \in Attachment, Talk(a), UNCHANGED <<handler, child>>,
           UNCHANGED <<client[a].ops, client[a].acked, client[a].garbled>>,
           client'[a].pc # "new", client'[a].pc = "opening" => client[a].pc = "opening",
           client'[a].full => client'[a].pc = "ready",
           cut'[a] \/ client'[a].pc = "over"
    PROVE  Talk(a)'
PROOF
<1>1. Opens(a)'
  BY DEF Talk, Opens, Live
<1>2. Asks(a)' /\ Told(a)'
  BY DEF Asks, Told, Live
<1>3. Saw(a)'
  BY DEF Talk, Saw, Written
<1> QED BY <1>1, <1>2, <1>3 DEF Talk

(* A client that notes something down, finishes, or is over. *)
LEMMA StillTalk ==
    ASSUME Types, NEW a \in Attachment, Talk(a),
           UNCHANGED <<handler, child, pump, up[a], down[a], cut[a]>>,
           UNCHANGED <<client[a].ops, client[a].acked, client[a].garbled>>,
           \/ client'[a].pc = client[a].pc
           \/ client[a].pc = "ready" /\ client'[a].pc = "finishing"
           \/ client'[a].pc = "over",
           client'[a].full => client'[a].pc = "ready"
    PROVE  Talk(a)'
PROOF
<1>1. CASE client'[a].pc = "over"
  BY <1>1, DeafTalk
<1>2. CASE client'[a].pc # "over"
  <2>1. Live(a)' <=> Live(a)
    BY <1>2 DEF Live
  <2>2. Opens(a)'
    BY <1>2, <2>1 DEF Talk, Opens, Holders
  <2>3. Asks(a)'
    BY <1>2, <2>1 DEF Talk, Asks, Busy, IsOp
  <2>4. ASSUME NEW i PROVE (Ends(a, i) => Ends(a, i)') /\ (Fits(a, i) => Fits(a, i)')
    BY DEF Ends, Fits, Answer, Frame, Written
  <2>5. Told(a)'
    BY <1>2, <2>1, <2>4 DEF Talk, Told, Holders
  <2>6. Saw(a)'
    BY DEF Talk, Saw, Written
  <2> QED BY <2>2, <2>3, <2>5, <2>6 DEF Talk
<1> QED BY <1>1, <1>2

LEMMA BreakMoves ==
    ASSUME Types, NEW a \in Attachment, NEW c \in ClientRecord, Becomes(a, Breaks(a, c)) \/ Becomes(a, Over(c))
    PROVE  /\ client'[a].ops = c.ops /\ client'[a].acked = c.acked /\ client'[a].garbled = c.garbled
           /\ \/ client'[a].pc = "over" /\ ~client'[a].full
              \/ client'[a].pc = c.pc /\ client'[a].full = c.full /\ Becomes(a, Breaks(a, c))
PROOF
<1>1. client \in [Attachment -> ClientRecord]
  BY DEF Types, ClientTypes
<1>2. DOMAIN c = {"pc", "ops", "acked", "full", "reported", "garbled"}
  BY DEF ClientRecord
<1>3. CASE Becomes(a, Over(c))
  <2>1. client'[a] = [c EXCEPT !.pc = "over", !.full = FALSE, !.reported = FALSE]
    BY <1>1, <1>3 DEF Becomes, Over
  <2> QED BY <1>2, <2>1
<1>4. CASE Becomes(a, [c EXCEPT !.reported = TRUE]) /\ Becomes(a, Breaks(a, c))
  <2>1. client'[a] = [c EXCEPT !.reported = TRUE]
    BY <1>1, <1>4 DEF Becomes
  <2> QED BY <1>2, <1>4, <2>1
<1> QED BY <1>3, <1>4 DEF Breaks

(* An operation is sent: it takes the next number. *)
LEMMA SendTalk ==
    ASSUME Types, NEW a \in Attachment, Talk(a), NEW kind \in {"data", "resize"},
           client[a].pc = "ready",
           Sends(a, <<Frame(kind, Len(client[a].ops) + 1)>>),
           Becomes(a, [client[a] EXCEPT !.ops = Append(@, kind), !.full = FALSE]),
           UNCHANGED <<handler, child, pump, down, cut>>
    PROVE  Talk(a)'
PROOF
<1> DEFINE ops == client[a].ops
           l == Len(ops)
           u == Len(up[a])
           frame == Frame(kind, l + 1)
<1>1. /\ client[a] \in ClientRecord /\ ops \in Seq({"data", "resize"}) /\ up[a] \in Seq(AnyFrame)
      /\ client[a].acked \in Nat /\ handler[a].expected \in Nat
      /\ client \in [Attachment -> ClientRecord] /\ up \in [Attachment -> Seq(AnyFrame)]
  BY Fields DEF Types, ClientTypes
<1>2. /\ client'[a].pc = "ready" /\ client'[a].ops = Append(ops, kind) /\ client'[a].acked = client[a].acked
      /\ client'[a].garbled = client[a].garbled
  <2>1. client'[a] = [client[a] EXCEPT !.ops = Append(ops, kind), !.full = FALSE]
    BY <1>1 DEF Becomes
  <2> QED BY <2>1, Fields
<1>3. /\ l \in Nat /\ Len(client'[a].ops) = l + 1 /\ client'[a].ops[l + 1] = kind
      /\ \A n \in 1..l : client'[a].ops[n] = ops[n]
      /\ client[a].acked <= l /\ u \in Nat
  <2>1. client[a].acked <= l
    BY SMTT(40), <1>1, InputAssumption DEF Types, ClientTypes, Pending
  <2> QED BY <1>1, <1>2, <2>1
<1>4. Live(a)' <=> Live(a)
  BY <1>2 DEF Live
<1>5. Opens(a)'
  BY <1>2, <1>4 DEF Talk, Opens
<1>6. Saw(a)'
  <2>1. \A n \in 1..client[a].acked : n \in 1..l
    BY <1>1, <1>3
  <2> QED BY <1>2, <1>3, <2>1 DEF Talk, Saw, Written
<1>7. ASSUME Live(a) PROVE Told(a)'
  <2>1. ASSUME NEW i \in 1..Len(down[a]) PROVE (Ends(a, i) => Ends(a, i)') /\ (Fits(a, i) => Fits(a, i)')
    <3>1. ASSUME Fits(a, i) PROVE Fits(a, i)'
      <4> DEFINE n == client[a].acked + i
      <4>1. n \in 1..l
        <5>1. n <= l /\ i \in Nat /\ i >= 1 /\ client[a].acked \in Nat
          BY <1>1, <3>1 DEF Fits
        <5> HIDE DEF l
        <5> QED BY <1>3, <5>1
      <4>2. client'[a].ops[n] = ops[n] /\ n <= l + 1
        <5> HIDE DEF n, l
        <5>1. n <= l + 1
          BY <1>3, <4>1
        <5> QED BY <1>3, <4>1, <5>1
      <4> QED BY <1>2, <1>3, <3>1, <4>2 DEF Fits, Answer, Frame, Written
    <3> QED BY <3>1 DEF Ends
  <2> QED BY <1>2, <1>7, <2>1 DEF Talk, Told, Holders
<1>8. ASSUME Live(a), handler[a].pc \in {"loop", "offer", "await"} PROVE Asks(a)'
  <2>1. up'[a] = Append(up[a], frame)
    BY <1>1, <1>8 DEF Sends, Live
  <2>2. /\ Len(up'[a]) = u + 1 /\ up'[a][u + 1] = frame
        /\ \A i \in 1..u : up'[a][i] = up[a][i]
    BY <1>1, <2>1
  <2>3. Busy(a)' = Busy(a) /\ Busy(a) \in {0, 1}
    BY DEF Busy
  <2>4. l = handler[a].expected - 1 + Busy(a) + u
    BY <1>8 DEF Talk, Asks
  <2>5. frame.n = l + 1 /\ frame.kind = kind
    BY DEF Frame
  <2> HIDE DEF frame, l, u
  <2>6. l + 1 = handler[a].expected - 1 + Busy(a) + (u + 1) /\ l + 1 = handler[a].expected + Busy(a) + (u + 1) - 1
    <3>1. u \in Nat /\ l \in Nat /\ handler[a].expected \in Nat /\ Busy(a) \in Nat
      BY <1>1, <1>3, <2>3
    <3> HIDE DEF Busy
    <3> QED BY SMTT(40), <2>4, <3>1
  <2>7. \A n : IsOp(a, n, "data") => n \in 1..Len(client'[a].ops) /\ client'[a].ops[n] = "data"
    BY <1>3 DEF IsOp, l
  <2>8. \A n : IsOp(a, n, "resize") => n \in 1..Len(client'[a].ops) /\ client'[a].ops[n] = "resize"
    BY <1>3 DEF IsOp, l
  <2>9. ASSUME NEW i \in 1..Len(up'[a]), up'[a][i].kind \in {"data", "resize"}
        PROVE  /\ up'[a][i].n = handler[a].expected + Busy(a) + i - 1
               /\ up'[a][i].n \in 1..Len(client'[a].ops) /\ client'[a].ops[up'[a][i].n] = up'[a][i].kind
    <3>1. CASE i \in 1..u
      BY <1>8, <2>2, <2>7, <2>8, <2>9, <3>1 DEF Talk, Asks, u
    <3>2. CASE i = u + 1
      BY SMTT(40), <1>3, <2>2, <2>5, <2>6, <3>2
    <3> QED BY <1>3, <2>2, <3>1, <3>2 DEF u
  <2>10. Len(client'[a].ops) = handler[a].expected - 1 + Busy(a) + Len(up'[a])
    BY <1>3, <2>2, <2>6
  <2>11. \/ handler[a].pc = "offer" /\ handler[a].op.kind = "data"
         \/ handler[a].pc = "await" /\ handler[a].result = "none" /\ pump.op.kind = "data"
         \/ handler[a].pc = "await" /\ handler[a].result = "written"
         => handler[a].expected \in 1..Len(client'[a].ops) /\ client'[a].ops[handler[a].expected] = "data"
    BY <1>8, <2>7 DEF Talk, Asks
  <2> HIDE DEF Busy
  <2> QED BY <2>3, <2>9, <2>10, <2>11 DEF Asks, IsOp
<1>9. Asks(a)' /\ Told(a)'
  BY <1>4, <1>7, <1>8 DEF Asks, Told
<1> QED BY <1>5, <1>6, <1>9 DEF Talk

(* The client is done and says so. *)
LEMMA FinishTalk ==
    ASSUME Types, NEW a \in Attachment, Talk(a), NEW kind \in {"detach", "close"},
           client[a].pc = "ready", ~client[a].full,
           Sends(a, <<Frame(kind, 0)>>), Becomes(a, [client[a] EXCEPT !.pc = "finishing"]),
           UNCHANGED <<handler, child, pump, down, cut>>
    PROVE  Talk(a)'
PROOF
<1> DEFINE u == Len(up[a])
           frame == Frame(kind, 0)
<1>1. /\ up[a] \in Seq(AnyFrame) /\ client \in [Attachment -> ClientRecord] /\ up \in [Attachment -> Seq(AnyFrame)]
  BY Fields DEF Types, ClientTypes
<1>2. /\ client'[a].pc = "finishing" /\ client'[a].ops = client[a].ops /\ client'[a].acked = client[a].acked
      /\ client'[a].garbled = client[a].garbled /\ client'[a].full = client[a].full
  <2>1. client'[a] = [client[a] EXCEPT !.pc = "finishing"]
    BY <1>1 DEF Becomes
  <2> QED BY <2>1, Fields
<1>3. Live(a)' <=> Live(a)
  BY <1>2 DEF Live
<1>4. Opens(a)'
  BY <1>2, <1>3 DEF Talk, Opens
<1>5. Saw(a)'
  BY <1>2 DEF Talk, Saw, Written
<1>6. Told(a)'
  <2>1. ASSUME NEW i PROVE (Ends(a, i) => Ends(a, i)') /\ (Fits(a, i) => Fits(a, i)')
    BY <1>2 DEF Ends, Fits, Answer, Frame, Written
  <2> QED BY <1>2, <1>3, <2>1 DEF Talk, Told, Holders
<1>7. ASSUME Live(a), handler[a].pc \in {"loop", "offer", "await"} PROVE Asks(a)'
  <2>1. up'[a] = Append(up[a], frame)
    BY <1>1, <1>7 DEF Sends, Live
  <2>2. /\ Len(up'[a]) = u + 1 /\ up'[a][u + 1] = frame
        /\ \A i \in 1..u : up'[a][i] = up[a][i]
        /\ u \in Nat
    BY <1>1, <2>1
  <2>3. frame.kind \notin {"data", "resize"}
    BY DEF Frame
  <2> HIDE DEF frame
  <2>4. ASSUME NEW i \in 1..Len(up'[a]), up'[a][i].kind \in {"data", "resize"}
        PROVE  i \in 1..u /\ up'[a][i] = up[a][i]
    BY <2>2, <2>3, <2>4
  <2> QED BY <1>2, <1>7, <2>4 DEF Talk, Asks, Busy, IsOp
<1>8. Asks(a)'
  BY <1>3, <1>7 DEF Asks
<1> QED BY <1>4, <1>5, <1>6, <1>8 DEF Talk

(* The client asks for the input. *)
LEMMA OpenTalk ==
    ASSUME Types, NEW a \in Attachment, Talk(a), OpenStream(a)
    PROVE  Talk(a)'
PROOF
<1>1. client \in [Attachment -> ClientRecord] /\ up \in [Attachment -> Seq(AnyFrame)]
  BY DEF Types, ClientTypes
<1>2. /\ client'[a].pc = "opening" /\ client'[a].ops = client[a].ops /\ client'[a].acked = client[a].acked
      /\ client'[a].garbled = client[a].garbled /\ client'[a].full = client[a].full
  <2>1. client'[a] = [client[a] EXCEPT !.pc = "opening"]
    BY <1>1 DEF OpenStream, Becomes
  <2> QED BY <2>1, Fields
<1>3. client[a].pc = "new" /\ UNCHANGED <<handler, child, pump, down, cut>>
  BY DEF OpenStream, Mine, server
<1>4. up[a] = <<>> /\ handler[a].pc = "none" /\ client[a].ops = <<>> /\ client[a].acked = 0 /\ ~client[a].full
  BY <1>3, Fields DEF Talk, Opens
<1>5. Live(a)' <=> Live(a)
  BY <1>2, <1>3 DEF Live
<1>6. Len(up'[a]) <= 1
  <2>1. up'[a] = <<>> \/ up'[a] = up[a] \o <<Frame("open", 0)>>
    BY <1>1, <1>4 DEF OpenStream, Sends
  <2>2. Frame("open", 0) \in AnyFrame
    BY FrameType DEF Kind
  <2> HIDE DEF Frame
  <2>3. ASSUME NEW f \in AnyFrame PROVE Len(up[a] \o <<f>>) = 1
    BY <1>4
  <2>4. Len(up[a]) = 0
    BY <1>4
  <2>5. Len(up'[a]) = 0 \/ Len(up'[a]) = 1
    BY <1>4, <2>1, <2>2, <2>3, <2>4
  <2>6. \A k \in {0, 1} : k <= 1
    OBVIOUS
  <2> QED BY <2>5, <2>6
<1>7. Opens(a)'
  BY <1>2, <1>3, <1>4, <1>5, <1>6 DEF Talk, Opens, Holders
<1>8. Asks(a)'
  BY <1>3, <1>4 DEF Asks
<1>9. Told(a)'
  <2>1. Live(a) => down'[a] = <<>>
    BY <1>3, <1>4 DEF Talk, Opens
  <2> QED BY <1>2, <1>5, <2>1 DEF Told
<1>10. Saw(a)'
  BY <1>2, <1>3, <1>4 DEF Talk, Saw, Written
<1> QED BY <1>7, <1>8, <1>9, <1>10 DEF Talk

(* The input is the client's. *)
LEMMA OpenedTalk ==
    ASSUME Types, NEW a \in Attachment, Talk(a), Opened(a)
    PROVE  Talk(a)'
PROOF
<1>1. client \in [Attachment -> ClientRecord] /\ down \in [Attachment -> Seq(AnyFrame)]
      /\ cut \in [Attachment -> BOOLEAN] /\ client[a] \in ClientRecord
  BY DEF Types, ClientTypes
<1>2. client[a].pc = "opening" /\ UNCHANGED <<handler, child, pump>>
  BY DEF Opened, Mine, server
<1>3. CASE Becomes(a, Over(client[a]))
  <2>1. /\ client'[a].ops = client[a].ops /\ client'[a].acked = client[a].acked
        /\ client'[a].garbled = client[a].garbled /\ client'[a].pc \in {"over", "opening"}
        /\ client'[a].full = FALSE
    BY <1>1, <1>3, Fields DEF Becomes, Over
  <2>2. client'[a].pc = "over"
    BY <1>1, <1>3, Fields DEF Becomes, Over
  <2> QED BY <1>2, <2>1, <2>2, DeafTalk
<1>4. CASE /\ down[a] # <<>> /\ Head(down[a]).kind = "opened" /\ ~cut[a]
           /\ down' = [down EXCEPT ![a] = Tail(@)]
           /\ Becomes(a, [client[a] EXCEPT !.pc = "ready"])
           /\ UNCHANGED <<up, cut>>
  <2>1. /\ client'[a].pc = "ready" /\ client'[a].ops = client[a].ops /\ client'[a].acked = client[a].acked
        /\ client'[a].garbled = client[a].garbled /\ client'[a].full = client[a].full
    <3>1. client'[a] = [client[a] EXCEPT !.pc = "ready"]
      BY <1>1, <1>4 DEF Becomes
    <3> QED BY <3>1, Fields
  <2>2. Live(a) /\ client[a].ops = <<>> /\ client[a].acked = 0
    BY <1>2, <1>4, Fields DEF Live, Talk, Opens
  <2>3. handler[a].pc # "none"
    BY <1>4, <2>2 DEF Talk, Opens
  <2>4. Opens(a)'
    BY <1>2, <2>1, <2>3 DEF Talk, Opens
  <2>5. Asks(a)'
    BY <1>2, <1>4, <2>1, <2>2 DEF Talk, Asks, Busy, IsOp
  <2>6. Saw(a)'
    BY <1>2, <2>1 DEF Talk, Saw, Written
  <2>7. /\ Len(down[a]) \in Nat /\ Len(down'[a]) = Len(down[a]) - 1
        /\ \A i \in 1..Len(down'[a]) : i + 1 \in 1..Len(down[a]) /\ i + 1 # 1 /\ down'[a][i] = down[a][i + 1]
    <3>1. down[a] \in Seq(AnyFrame) /\ down[a] # <<>> /\ down'[a] = Tail(down[a])
      BY <1>1, <1>4
    <3> QED BY <3>1
  <2>8. ASSUME NEW i \in 1..Len(down'[a]) PROVE Ends(a, i)'
    <3>1. Ends(a, i + 1)
      BY <1>2, <2>2, <2>7 DEF Talk, Told
    <3> QED BY <1>2, <2>7, <3>1 DEF Ends
  <2>9. a \in Holders => handler[a].expected = 1 /\ Len(down[a]) = 1
    BY <1>2, <2>2 DEF Talk, Opens
  <2>10. a \in Holders' => handler'[a].expected = client'[a].acked + Len(down'[a]) + 1
    BY <1>2, <2>1, <2>2, <2>7, <2>9 DEF Holders
  <2> QED BY <2>4, <2>5, <2>6, <2>8, <2>10 DEF Talk, Told
<1> QED BY <1>3, <1>4 DEF Opened

(* A client receives: the end of its stream, or the answer it waits for.   *)
LEMMA ReceiveTalk ==
    ASSUME Types, NEW a \in Attachment, Talk(a), ReceiveAnswer(a)
    PROVE  Talk(a)'
PROOF
<1> DEFINE frame == Head(down[a])
           d == Len(down[a])
<1>1. /\ client \in [Attachment -> ClientRecord] /\ down \in [Attachment -> Seq(AnyFrame)]
      /\ client[a] \in ClientRecord /\ client[a].acked \in Nat /\ client[a].ops \in Seq({"data", "resize"})
      /\ handler[a].expected \in Nat
  BY Fields DEF Types, ClientTypes
<1>2. /\ client[a].pc \in {"ready", "finishing"} /\ Live(a) /\ down[a] # <<>>
      /\ UNCHANGED <<handler, child, pump, up, cut>>
  BY DEF ReceiveAnswer, Listens, Live, Mine, server
<1>3. /\ d \in Nat /\ d >= 1 /\ Len(down'[a]) = d - 1 /\ frame = down[a][1]
      /\ \A i \in 1..Len(down'[a]) : i + 1 \in 1..d /\ down'[a][i] = down[a][i + 1]
  <2>1. down[a] \in Seq(AnyFrame) /\ down[a] # <<>> /\ down'[a] = Tail(down[a])
    BY <1>1, <1>2 DEF ReceiveAnswer
  <2> QED BY <2>1
<1>4. Ends(a, 1) \/ Fits(a, 1)
  <2>1. 1 \in 1..Len(down[a])
    BY <1>3
  <2> QED BY <1>2, <2>1 DEF Talk, Told
<1>5. CASE Ends(a, 1)
  <2>1. frame.kind \in End \cup {"error"} /\ d = 1 /\ handler[a].pc = "over"
    BY <1>3, <1>5 DEF Ends
  <2>2. Becomes(a, client[a]) \/ Becomes(a, Breaks(a, client[a]))
    <3>1. frame # Frame(Expected(a), client[a].acked + 1)
      BY <2>1 DEF Frame, Expected, End
    <3> QED BY <2>1, <3>1 DEF ReceiveAnswer
  <2>3. /\ client'[a].ops = client[a].ops /\ client'[a].acked = client[a].acked
        /\ client'[a].garbled = client[a].garbled
        /\ \/ client'[a].pc = "over" /\ ~client'[a].full
           \/ client'[a].pc = client[a].pc /\ client'[a].full = client[a].full
    BY <1>1, <2>2, BreakMoves DEF Becomes
  <2>4. CASE client'[a].pc = "over"
    BY <1>2, <2>3, <2>4, DeafTalk
  <2>5. CASE client'[a].pc = client[a].pc /\ client'[a].full = client[a].full
    <3>1. Opens(a)'
      BY <1>2, <2>1, <2>3, <2>5 DEF Talk, Opens, Live
    <3>2. Asks(a)'
      BY <1>2, <2>1 DEF Asks
    <3>3. Told(a)'
      BY <1>2, <1>3, <2>1 DEF Told, Holders
    <3>4. Saw(a)'
      BY <1>2, <2>3 DEF Talk, Saw, Written
    <3> QED BY <3>1, <3>2, <3>3, <3>4 DEF Talk
  <2> QED BY <2>3, <2>4, <2>5
<1>6. CASE Fits(a, 1)
  <2>1. /\ client[a].acked + 1 <= Len(client[a].ops)
        /\ frame = Frame(Expected(a), client[a].acked + 1)
        /\ child.alive /\ client[a].ops[client[a].acked + 1] = "data" => Written(a, client[a].acked + 1)
    BY <1>3, <1>6 DEF Fits, Answer, Expected
  <2>2. frame.kind \notin End \cup {"error"}
    BY <2>1 DEF Frame, Expected, End
  <2>3. Pending(a) > 0
    BY <1>1, <2>1 DEF Pending
  <2>4. Becomes(a, [client[a] EXCEPT !.acked = @ + 1])
    BY <2>1, <2>2, <2>3 DEF ReceiveAnswer
  <2>5. /\ client'[a].ops = client[a].ops /\ client'[a].acked = client[a].acked + 1
        /\ client'[a].garbled = client[a].garbled /\ client'[a].pc = client[a].pc
        /\ client'[a].full = client[a].full
    <3>1. client'[a] = [client[a] EXCEPT !.acked = client[a].acked + 1]
      BY <1>1, <2>4 DEF Becomes
    <3> QED BY <3>1, Fields
  <2>6. Live(a)'
    BY <1>2, <2>5 DEF Live
  <2>7. Opens(a)'
    BY <1>2, <2>5 DEF Talk, Opens, Live
  <2>8. Asks(a)'
    BY <1>2, <2>5 DEF Talk, Asks, Busy, IsOp
  <2>9. Saw(a)'
    <3>1. \A n \in 1..(client[a].acked + 1) : n \in 1..client[a].acked \/ n = client[a].acked + 1
      BY <1>1
    <3> QED BY <1>2, <2>1, <2>5, <3>1 DEF Talk, Saw, Written
  <2>10. ASSUME NEW i \in 1..Len(down'[a]) PROVE Ends(a, i)' \/ Fits(a, i)'
    <3>1. Ends(a, i + 1) \/ Fits(a, i + 1)
      BY <1>2, <1>3 DEF Talk, Told
    <3>2. client'[a].acked + i = client[a].acked + (i + 1) /\ (i + 1 = d => i = Len(down'[a]))
      <4>1. client[a].acked \in Nat /\ i \in Nat /\ d \in Nat /\ Len(down'[a]) = d - 1
        BY <1>1, <1>3
      <4> HIDE DEF d
      <4> QED BY <2>5, <4>1
    <3>3. Ends(a, i + 1) => Ends(a, i)'
      BY <1>2, <1>3, <3>2 DEF Ends
    <3>4. Fits(a, i + 1) => Fits(a, i)'
      BY <1>2, <1>3, <2>5, <3>2 DEF Fits, Answer, Frame, Written
    <3> QED BY <3>1, <3>3, <3>4
  <2>11. a \in Holders' => handler'[a].expected = client'[a].acked + Len(down'[a]) + 1
    <3>1. a \in Holders => handler[a].expected = client[a].acked + d + 1
      BY <1>2 DEF Talk, Told
    <3>2. a \in Holders' => a \in Holders
      BY <1>2 DEF Holders
    <3>3. client[a].acked + d + 1 = (client[a].acked + 1) + (d - 1) + 1
      BY <1>1, <1>3
    <3> QED BY <1>2, <1>3, <2>5, <3>1, <3>2, <3>3
  <2> QED BY <1>2, <2>5, <2>7, <2>8, <2>9, <2>10, <2>11 DEF Talk, Told
<1> QED BY <1>4, <1>5, <1>6

LEMMA ClientTalk ==
    ASSUME Types, NEW a \in Attachment, Talk(a), Hear(a) \/ Call(a) \/ Lose(a)
    PROVE  Talk(a)'
PROOF
<1> DEFINE c == client[a]
<1>1. /\ client \in [Attachment -> ClientRecord] /\ c \in ClientRecord /\ cut \in [Attachment -> BOOLEAN]
      /\ DOMAIN c = {"pc", "ops", "acked", "full", "reported", "garbled"}
  BY Fields DEF Types, ClientTypes
<1>2. UNCHANGED <<handler, child, pump>>
  BY ClientMoves
<1>3. c.full => c.pc = "ready"
  BY DEF Talk, Opens
<1>4. /\ [c EXCEPT !.full = FALSE] \in ClientRecord /\ [c EXCEPT !.full = TRUE] \in ClientRecord
      /\ [c EXCEPT !.pc = "finishing"] \in ClientRecord
  BY <1>1 DEF ClientRecord
<1>5. ASSUME NEW d \in ClientRecord, d.ops = c.ops, d.acked = c.acked, d.garbled = c.garbled,
             d.pc = c.pc \/ (c.pc = "ready" /\ d.pc = "finishing"),
             d.full => d.pc = "ready",
             Becomes(a, d) \/ Becomes(a, Breaks(a, d)),
             UNCHANGED <<up[a], down[a], cut[a]>>
      PROVE  Talk(a)'
  <2>1. /\ client'[a].ops = c.ops /\ client'[a].acked = c.acked /\ client'[a].garbled = c.garbled
        /\ \/ client'[a].pc = "over" /\ ~client'[a].full
           \/ client'[a].pc = d.pc /\ client'[a].full = d.full
    <3>1. CASE Becomes(a, d)
      BY <1>1, <1>5, <3>1 DEF Becomes
    <3>2. CASE Becomes(a, Breaks(a, d))
      BY <1>5, <3>2, BreakMoves
    <3> QED BY <1>5, <3>1, <3>2
  <2> QED BY <1>2, <1>5, <2>1, StillTalk
<1>6. CASE OpenStream(a) \/ Opened(a) \/ ReceiveAnswer(a)
  BY <1>6, OpenTalk, OpenedTalk, ReceiveTalk
<1>7. /\ [c EXCEPT !.full = FALSE].ops = c.ops /\ [c EXCEPT !.full = FALSE].acked = c.acked
      /\ [c EXCEPT !.full = FALSE].garbled = c.garbled /\ [c EXCEPT !.full = FALSE].pc = c.pc
      /\ ~[c EXCEPT !.full = FALSE].full
  BY <1>1
<1>8. ASSUME NEW kind \in Kinds(a), Operates(a, kind), c.pc = "ready", UNCHANGED <<down, cut>> PROVE Talk(a)'
  <2>1. kind \in {"data", "resize"}
    BY DEF Kinds
  <2>2. CASE /\ Sends(a, <<Frame(kind, Len(client[a].ops) + 1)>>)
             /\ Becomes(a, [client[a] EXCEPT !.ops = Append(@, kind), !.full = FALSE])
    BY <1>2, <1>8, <2>1, <2>2, SendTalk
  <2>3. CASE Becomes(a, Breaks(a, [c EXCEPT !.full = FALSE])) /\ UNCHANGED up
    BY <1>4, <1>5, <1>7, <1>8, <2>3
  <2> QED BY <1>8, <2>2, <2>3 DEF Operates
<1>9. ASSUME NEW kind \in Kinds(a), Operate(a, kind) PROVE Talk(a)'
  <2>1. c.pc = "ready" /\ UNCHANGED <<down, cut>>
    BY <1>9 DEF Operate
  <2>2. CASE Becomes(a, [c EXCEPT !.full = TRUE]) /\ UNCHANGED up
    <3>1. /\ [c EXCEPT !.full = TRUE].ops = c.ops /\ [c EXCEPT !.full = TRUE].acked = c.acked
          /\ [c EXCEPT !.full = TRUE].garbled = c.garbled /\ [c EXCEPT !.full = TRUE].pc = c.pc
      BY <1>1
    <3> QED BY <1>4, <1>5, <2>1, <2>2, <3>1
  <2> QED BY <1>8, <1>9, <2>1, <2>2 DEF Operate
<1>10. ASSUME NEW kind \in Kinds(a), Resume(a, kind) PROVE Talk(a)'
  BY <1>3, <1>8, <1>10 DEF Resume
<1>11. CASE LoseHope(a)
  BY <1>4, <1>5, <1>7, <1>11 DEF LoseHope
<1>12. ASSUME NEW kind \in {"detach", "close"}, Finish(a, kind) PROVE Talk(a)'
  <2>1. c.pc = "ready" /\ ~c.full /\ UNCHANGED <<down, cut>>
    BY <1>12 DEF Finish
  <2>2. CASE Sends(a, <<Frame(kind, 0)>>) /\ Becomes(a, [c EXCEPT !.pc = "finishing"])
    BY <1>2, <2>1, <2>2, FinishTalk
  <2>3. CASE Becomes(a, Breaks(a, [c EXCEPT !.pc = "finishing"])) /\ UNCHANGED up
    <3>1. /\ [c EXCEPT !.pc = "finishing"].ops = c.ops /\ [c EXCEPT !.pc = "finishing"].acked = c.acked
          /\ [c EXCEPT !.pc = "finishing"].garbled = c.garbled
          /\ [c EXCEPT !.pc = "finishing"].pc = "finishing" /\ [c EXCEPT !.pc = "finishing"].full = c.full
      BY <1>1
    <3> QED BY <1>4, <1>5, <2>1, <2>3, <3>1
  <2> QED BY <1>12, <2>2, <2>3 DEF Finish
<1>13. CASE ReceiveFails(a) \/ ReceiveLogs(a)
  <2>1. Becomes(a, Breaks(a, c)) /\ UNCHANGED <<up, down, cut>>
    BY <1>13 DEF ReceiveFails, ReceiveLogs
  <2> QED BY <1>1, <1>3, <1>5, <2>1
<1>14. CASE Conclude(a)
  <2>1. Becomes(a, Over(c)) /\ cut'[a] = TRUE
    BY <1>1, <1>14 DEF Conclude, Cuts
  <2>2. client'[a] = [c EXCEPT !.pc = "over", !.full = FALSE, !.reported = FALSE]
    BY <1>1, <2>1 DEF Becomes, Over
  <2>3. /\ client'[a].ops = c.ops /\ client'[a].acked = c.acked /\ client'[a].garbled = c.garbled
        /\ client'[a].pc = "over" /\ ~client'[a].full
    BY <1>1, <2>2
  <2> QED BY <1>2, <2>1, <2>3, DeafTalk
<1>15. CASE Lose(a)
  <2>1. cut'[a] = TRUE /\ client' = client /\ c.pc # "new"
    BY <1>1, <1>15 DEF Lose, Cuts
  <2> QED BY <1>2, <1>3, <2>1, DeafTalk
<1> QED BY <1>6, <1>9, <1>10, <1>11, <1>12, <1>13, <1>14, <1>15 DEF Hear, Call

LEMMA TalksStep == Types /\ Serves /\ Talks /\ [Next]_vars => Talks'
PROOF
<1> SUFFICES ASSUME Types, Serves, Talks, [Next]_vars, NEW a \in Attachment
             PROVE  Talk(a)'
  BY DEF Talks
<1>1. Talk(a)
  BY DEF Talks
<1>2. ASSUME NEW b \in Attachment, Handle(b) \/ Leave(b) PROVE Talk(a)'
  <2>1. CASE b = a
    BY <1>1, <1>2, <2>1, HandlerTalk
  <2>2. CASE b # a
    <3>1. /\ UNCHANGED <<handler[a], up[a], down[a]>>
          /\ UNCHANGED <<child, pump, cut, client>>
      BY <1>2, <2>2, HandlerMoves
    <3> QED BY <1>1, <3>1, TalkKept
  <2> QED BY <2>1, <2>2
<1>3. ASSUME NEW b \in Attachment, Hear(b) \/ Call(b) \/ Lose(b) PROVE Talk(a)'
  <2>1. CASE b = a
    BY <1>1, <1>3, <2>1, ClientTalk
  <2>2. CASE b # a
    <3>1. /\ UNCHANGED <<handler, child, pump>>
          /\ UNCHANGED <<up[a], down[a], client[a], cut[a]>>
      BY <1>3, <2>2, ClientMoves
    <3> QED BY <1>1, <3>1, TalkKept
  <2> QED BY <2>1, <2>2
<1>4. CASE UNCHANGED vars
  <2>1. UNCHANGED <<handler, child, pump, up, down, client, cut>>
    BY <1>4 DEF vars, server
  <2> QED BY <1>1, <2>1, TalkKept
<1>5. CASE Run \/ Reap \/ Read \/ Exit
  BY <1>1, <1>5, PumpTalk
<1> QED BY <1>2, <1>3, <1>4, <1>5 DEF Next

-----------------------------------------------------------------------------
(* The theorems. *)

LEMMA InvInit == Init => IInv
BY TypesInit, HeldInit, ServesInit, PiecesInit, OrderInit, TalksInit DEF IInv

LEMMA InvStep == IInv /\ [Next]_vars => IInv'
BY TypesStep, HeldStep, ServesStep, PiecesStep, OrderStep, TalksStep DEF IInv

(* Every part of the invariant holds at every step. *)
THEOREM InputInductive == FairSpec => []IInv
PROOF
<1>1. Init => IInv
  BY InvInit
<1>2. IInv /\ [Next]_vars => IInv'
  BY InvStep
<1> QED BY <1>1, <1>2, PTL DEF FairSpec

(* One writer: at most one attachment holds the input of a process, and    *)
(* the record and the state a client is shown agree with it                *)
(* (acquireProcessInput, releaseProcessInput, reap).                       *)
THEOREM OneWriterAtATime == FairSpec => []OneWriter
PROOF
<1>1. IInv => OneWriter
  <2> SUFFICES ASSUME IInv PROVE OneWriter
    OBVIOUS
  <2>1. Types /\ Held
    BY DEF IInv
  <2>2. TypeOK
    <3>1. /\ mode \in {"PIPE", "PTY"} /\ closed \in BOOLEAN
          /\ child.alive \in BOOLEAN /\ child.unread \in 0..PipeSize
          /\ reaper \in {"wait", "closing", "exited"}
          /\ pump.pc \in {"select", "working", "done"} /\ pump.at \in 0..(Parts - 1)
          /\ input \in [attached : BOOLEAN, state : {"OPEN", "ATTACHED", "CLOSED"}]
      BY <2>1 DEF Types
    <3>2. ASSUME NEW a \in Attachment
          PROVE  /\ handler[a].pc \in {"none", "loop", "offer", "await", "stuck", "over"}
                 /\ handler[a].expected \in Nat \ {0}
                 /\ client[a].pc \in {"new", "opening", "ready", "finishing", "over"}
                 /\ Pending(a) \in 0..Window
      <4>1. handler[a] \in HandlerRecord /\ client[a] \in ClientRecord /\ Pending(a) \in 0..Window
        BY <2>1 DEF Types, ClientTypes
      <4> QED BY <4>1 DEF HandlerRecord, ClientRecord
    <3> QED BY <3>1, <3>2 DEF TypeOK
  <2>3. Cardinality(Holders) <= 1
    <3>1. CASE Holders = {}
      <4>1. Cardinality(Holders) = 0
        BY <3>1, FS_EmptySet
      <4> QED BY <4>1
    <3>2. ASSUME NEW a \in Holders PROVE Cardinality(Holders) <= 1
      <4>1. Holders = {a}
        BY <2>1 DEF Held
      <4>2. Cardinality(Holders) = 1
        BY <4>1, FS_Singleton
      <4> QED BY <4>2
    <3> QED BY <3>1, <3>2
  <2> QED BY <2>1, <2>2, <2>3 DEF OneWriter, Held
<1> QED BY <1>1, InputInductive, PTL

(* The bytes a client is told of are the bytes the child gets, in order:   *)
(* whole chunks, of one writer after the other, and nothing acknowledged   *)
(* that was not written (processInput.run and submit, the loop of          *)
(* StreamProcessInput, the receivers of both clients).                     *)
THEOREM InputKeepsOrder == FairSpec => []InputInOrder
PROOF
<1>1. IInv => InputInOrder
  <2> SUFFICES ASSUME IInv PROVE InputInOrder
    OBVIOUS
  <2>1. \A i \in 1..Len(child.given) : child.given[i] \in Piece
    BY DEF IInv, Types
  <2>2. ASSUME NEW i \in 1..Len(child.given), NEW j \in 1..Len(child.given), NEW k \in 1..Len(child.given),
               i < j, j < k, child.given[i].by = child.given[k].by
        PROVE  child.given[j].by = child.given[i].by /\ child.given[i].n <= child.given[j].n
    <3>1. child.given[j].by = child.given[i].by
      BY <2>2 DEF IInv, Order
    <3> QED BY <2>2, <3>1 DEF IInv, Order
  <2>3. ChunksInOrder
    BY <2>2 DEF IInv, Pieces, ChunksInOrder
  <2>4. AcksTell
    BY DEF IInv, Talks, Talk, Saw, Written, AcksTell
  <2> QED BY <2>3, <2>4 DEF InputInOrder
<1> QED BY <1>1, InputInductive, PTL
===============================================================================
