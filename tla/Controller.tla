----------------------------- MODULE Controller -----------------------------
(***************************************************************************)
(* The controller as a whole: how a boot constructs its services, serves,  *)
(* and shuts down (cmd/controller/main.go, internal/server/server.go), and *)
(* the runtime log it keeps and lets clients follow                        *)
(* (internal/controllerlog).  Boots of one runtime directory may overlap:  *)
(* a second controller is started while the first one serves or still      *)
(* closes.                                                                 *)
(*                                                                         *)
(* Abstractions.  An event of the log is the boot that wrote it; segments  *)
(* and their files are those of module ProcessLog.  Services count as      *)
(* constructed, stopped or closed; what they do then is in the modules of  *)
(* their own.  A crash is one of the process: what it wrote stays, what it *)
(* locked is free.  Clients read what they are sent.                       *)
(***************************************************************************)
EXTENDS Integers, FiniteSets, Sequences

CONSTANTS
    Boot,           \* bound: controllers started on the runtime directory
    Called,         \* bound: those that clients call and whose services write events
    Client,         \* bound: calls made of them
    Kind,           \* bound: kinds of those calls
    MaxObservers,   \* ControllerLogs.MaxObservers
    MaxEvents       \* bound: events when a service writes one more

ASSUME CalledAssumption == Called \subseteq Boot

VARIABLES
    dir,    \* log and metadata in the runtime directory
    ctl,    \* each boot: main, Server and Logger
    rpc     \* each call and its handler

vars == <<dir, ctl, rpc>>

Free == [pc |-> "off", open |-> {}, finalized |-> FALSE, bad |-> FALSE,
         expired |-> FALSE, stopped |-> FALSE]
NoCall == [pc |-> "idle", boot |-> 0, kind |-> "none", start |-> 0, end |-> 0, reason |-> "none"]

Pc(b) == ctl[b].pc
Has(b, what) == what \in ctl[b].open
Others(b, what) == \E other \in Boot \ {b} : Has(other, what)
Down(b) == [ctl EXCEPT ![b] = [Free EXCEPT !.pc = "down"]]
To(b, pc) == [ctl EXCEPT ![b].pc = pc]

Ends == Len(dir.events)
Active(c) == rpc[c].pc \notin {"idle", "done"}
CallsOf(b) == {c \in Client : Active(c) /\ rpc[c].boot = b}
RpcsOf(b) == {c \in CallsOf(b) : rpc[c].kind # "mcp"}
Observers(b) == {c \in CallsOf(b) : rpc[c].kind \in {"snapshot", "follow"}}
Broken(b) == [c \in Client |-> IF c \in CallsOf(b)
                               THEN [NoCall EXCEPT !.pc = "done", !.reason = "broken"] ELSE rpc[c]]

-----------------------------------------------------------------------------
(***************************************************************************)
(* The runtime log: controllerlog.Logger.                                  *)
(***************************************************************************)
\* The logger holds its lock as "lock"; it is closed when "metadata" is.
Writable(b) == Has(b, "metadata") /\ ~ctl[b].finalized
Store(b) == Has(b, "metadata") /\ ~ctl[b].bad

\* Emit: one event more, if there is a log to take it.
emitted(b) == IF Writable(b) THEN [dir EXCEPT !.events = Append(@, b)] ELSE dir

\* The outcome of RuntimeLog.Finalize.
finalized(log, ok) == IF ok THEN log ELSE [log EXCEPT !.complete = FALSE]

\* A service writes an event; a failed write closes the log to wake followers.
Emit(b) ==
    /\ Writable(b) /\ Ends < MaxEvents /\ UNCHANGED rpc
    /\ \/ dir' = emitted(b) /\ UNCHANGED ctl
       \/ /\ dir' = finalized(dir, FALSE)
          /\ ctl' = [ctl EXCEPT ![b].finalized = TRUE, ![b].bad = TRUE]

\* Retention, which waits for observers.
Retain(b) ==
    /\ Has(b, "metadata") /\ Observers(b) = {}
    /\ \E first \in dir.first + 1 .. Ends : dir' = [dir EXCEPT !.first = first]
    /\ UNCHANGED <<ctl, rpc>>

\* mutant: nobody asks for the lock of the log.
OpenUnlocked(b) ==
    /\ Pc(b) = "off" /\ UNCHANGED rpc
    /\ ctl' = [ctl EXCEPT ![b].pc = "prepare", ![b].open = {"lock", "metadata"}]
    /\ dir' = [dir EXCEPT !.boot = b, !.over = FALSE]

\* Open, or NewFallback when it fails.  History goes with the retention after a
\* restart, which counts from the shutdown of the boot before.
Open(b) ==
    /\ Pc(b) = "off" /\ UNCHANGED rpc
    /\ \/ /\ ~Others(b, "lock")
          /\ ctl' = [ctl EXCEPT ![b].pc = "prepare", ![b].open = {"lock", "metadata"}]
          /\ \E first \in {dir.first} \cup IF dir.over THEN {Ends} ELSE {},
                complete \in {dir.complete, TRUE} :
                dir' = [dir EXCEPT !.boot = b, !.over = FALSE, !.first = first,
                                     !.complete = complete]
       \/ ctl' = To(b, "prepare") /\ UNCHANGED dir

-----------------------------------------------------------------------------
(***************************************************************************)
(* runController and NewPreparedWithLogger.                                *)
(***************************************************************************)
afterService == [prepare |-> "files", files |-> "processes", processes |-> "agent",
                 agent |-> "workflows", workflows |-> "listener", listener |-> "mcp",
                 mcp |-> "serving"]

\* The transfer store locks its directory, and a port has one listener.
Exclusive == {"files", "listener"}

\* The next service; a failure closes what was opened before.
Construct(b) ==
    /\ Pc(b) \in DOMAIN afterService /\ UNCHANGED rpc
    /\ \/ /\ Pc(b) \in Exclusive => ~Others(b, Pc(b))
          /\ ctl' = [ctl EXCEPT ![b].open = @ \cup {Pc(b)}, ![b].pc = afterService[Pc(b)]]
          /\ dir' = IF Pc(b) = "mcp" THEN emitted(b) ELSE dir
       \/ ctl' = To(b, "closing") /\ UNCHANGED dir

\* mutants: the files go before the processes, the lock before the metadata.
filesBeforeProcesses == <<"listener", "workflows", "files", "processes", "metadata", "lock">>
lockBeforeMetadata == <<"listener", "workflows", "processes", "files", "lock", "metadata">>

\* The order in which a failed construction and Shutdown close.
closeOrder == <<"listener", "workflows", "processes", "files", "metadata", "lock">>

\* One service is closed; Logger.Close ends the log, notes the time and unlocks.
Close(b) ==
    LET left == {i \in DOMAIN closeOrder : Has(b, closeOrder[i])}
        next == closeOrder[CHOOSE i \in left : \A j \in left : i <= j]
    IN  /\ Pc(b) = "closing"
        /\ IF left = {}
           THEN ctl' = Down(b) /\ rpc' = Broken(b) /\ UNCHANGED dir
           ELSE /\ UNCHANGED rpc
                /\ ctl' = [ctl EXCEPT ![b].open = @ \ {next},
                                      ![b].finalized = @ \/ next = "metadata"]
                /\ IF next # "metadata" THEN UNCHANGED dir
                   ELSE \E ok \in {ctl[b].finalized, TRUE} :
                            dir' = [finalized(dir, ok) EXCEPT !.boot = b, !.over = TRUE]

\* The process dies.
Crash(b) ==
    /\ Pc(b) \notin {"off", "down"}
    /\ ctl' = Down(b) /\ rpc' = Broken(b) /\ UNCHANGED dir

-----------------------------------------------------------------------------
(***************************************************************************)
(* Server.Shutdown.                                                        *)
(***************************************************************************)
\* A signal, or a listener that failed; no process starts any more.
Begin(b) ==
    /\ Pc(b) = "serving"
    /\ ctl' = To(b, "mcpDown") /\ dir' = emitted(b) /\ UNCHANGED rpc

\* The deadline of the shutdown.
Expire(b) ==
    /\ Pc(b) \in {"mcpDown", "agentDown", "processesDown", "finalize", "drain", "draining"}
    /\ ~ctl[b].expired
    /\ ctl' = [ctl EXCEPT ![b].expired = TRUE] /\ UNCHANGED <<dir, rpc>>

\* The MCP server waits for its requests.
mcpDown(b) ==
    /\ Pc(b) = "mcpDown" /\ (CallsOf(b) = RpcsOf(b) \/ ctl[b].expired)
    /\ ctl' = [ctl EXCEPT ![b].pc = "agentDown", ![b].open = @ \ {"mcp"}]
    /\ UNCHANGED <<dir, rpc>>

agentDown(b) ==
    /\ Pc(b) = "agentDown"
    /\ ctl' = [ctl EXCEPT ![b].pc = "processesDown", ![b].open = @ \ {"agent"}]
    /\ UNCHANGED <<dir, rpc>>

\* Processes.Shutdown says so in the log and ends every process.
processesDown(b) ==
    /\ Pc(b) = "processesDown"
    /\ ctl' = To(b, "finalize") /\ dir' = emitted(b) /\ UNCHANGED rpc

\* mutant: the log is ended only when it is closed.
FinalizeLater(b) ==
    /\ Pc(b) = "finalize"
    /\ ctl' = To(b, "drain") /\ dir' = emitted(b) /\ UNCHANGED rpc

\* The last event, and the end of the log.
Finalize(b) ==
    /\ Pc(b) = "finalize" /\ UNCHANGED rpc
    /\ \E ok \in {~Writable(b), TRUE} :
            /\ ctl' = [ctl EXCEPT ![b].pc = "drain", ![b].finalized = TRUE,
                                  ![b].bad = @ \/ (Writable(b) /\ ~ok)]
            /\ dir' = finalized(emitted(b), ~Writable(b) \/ ok)

\* GracefulStop takes no more calls and waits for those there are.
GracefulStop(b) ==
    /\ Pc(b) = "drain"
    /\ ctl' = [ctl EXCEPT ![b].pc = "draining", ![b].open = @ \ {"listener"}]
    /\ UNCHANGED <<dir, rpc>>

\* The deadline cuts the connections of the calls that are left.
Stop(b) ==
    /\ Pc(b) = "draining" /\ ctl[b].expired /\ ~ctl[b].stopped
    /\ ctl' = [ctl EXCEPT ![b].stopped = TRUE] /\ UNCHANGED <<dir, rpc>>

\* mutant: nothing waits after the connections were cut.
DrainedOrStopped(b) ==
    /\ Pc(b) = "draining" /\ (RpcsOf(b) = {} \/ ctl[b].stopped)
    /\ ctl' = To(b, "closing") /\ UNCHANGED <<dir, rpc>>

Drained(b) ==
    /\ Pc(b) = "draining" /\ RpcsOf(b) = {}
    /\ ctl' = To(b, "closing") /\ UNCHANGED <<dir, rpc>>

-----------------------------------------------------------------------------
(***************************************************************************)
(* Calls: ObserveControllerLogs, and others by what ends them.             *)
(***************************************************************************)
Accepts(b, kind) ==
    IF kind = "mcp" THEN Pc(b) = "serving"
    ELSE Pc(b) \in {"serving", "mcpDown", "agentDown", "processesDown", "finalize", "drain"}

Finish(c, reason) == [rpc EXCEPT ![c] = [@ EXCEPT !.pc = "done", !.reason = reason, !.start = 0]]
Step(c, pc) == rpc[c].pc = pc /\ UNCHANGED <<dir, ctl>>

Begins(c, b, kind) ==
    /\ rpc[c].pc = "idle" /\ Accepts(b, kind) /\ UNCHANGED <<dir, ctl>>
    /\ kind = "process" => Pc(b) = "serving"
    /\ rpc' = [rpc EXCEPT ![c] = [NoCall EXCEPT !.pc = "busy", !.boot = b, !.kind = kind]]

\* An observer is admitted and its range is fixed.
Observe(c, b, kind) ==
    /\ rpc[c].pc = "idle" /\ Accepts(b, kind) /\ UNCHANGED <<dir, ctl>>
    /\ IF ~Store(b) THEN rpc' = Finish(c, "unavailable")
       ELSE IF Cardinality(Observers(b)) >= MaxObservers THEN rpc' = Finish(c, "exhausted")
       ELSE \E start \in dir.first .. Ends :
                rpc' = [rpc EXCEPT ![c] = [NoCall EXCEPT !.pc = "replay", !.boot = b,
                            !.kind = kind, !.start = start, !.end = Ends]]

\* The range was sent, the checkpoint that follows as well.
Replay(c) ==
    /\ Step(c, "replay")
    /\ rpc' = IF rpc[c].kind = "snapshot" THEN Finish(c, "snapshot")
               ELSE [rpc EXCEPT ![c].pc = "current"]

\* mutant: the end of the log is looked at before what it holds.
FollowEndFirst(c) ==
    LET b == rpc[c].boot
    IN  /\ Step(c, "current")
        /\ rpc' = IF ctl[b].finalized
                   THEN Finish(c, IF dir.complete THEN "shutdown" ELSE "log unavailable")
                   ELSE IF Ends > rpc[c].end
                        THEN [rpc EXCEPT ![c].pc = "range", ![c].end = Ends]
                        ELSE [rpc EXCEPT ![c].pc = "wait"]

\* One look at the log: more to send, its end, or a wait for either.
Follow(c) ==
    LET b == rpc[c].boot
    IN  /\ Step(c, "current")
        /\ rpc' = IF rpc[c].end < dir.first THEN Finish(c, "expired")
                   ELSE IF Ends > rpc[c].end
                        THEN [rpc EXCEPT ![c].pc = "range", ![c].end = Ends]
                   ELSE IF ctl[b].finalized
                        THEN Finish(c, IF dir.complete THEN "shutdown" ELSE "log unavailable")
                   ELSE [rpc EXCEPT ![c].pc = "wait"]

SendRange(c) == Step(c, "range") /\ rpc' = [rpc EXCEPT ![c].pc = "current"]

Wake(c) ==
    /\ Step(c, "wait") /\ (Ends > rpc[c].end \/ ctl[rpc[c].boot].finalized)
    /\ rpc' = [rpc EXCEPT ![c].pc = "current"]

\* A call about a process ends with the process.
ProcessEnds(c) ==
    /\ Step(c, "busy") /\ rpc[c].kind = "process"
    /\ Pc(rpc[c].boot) \in {"finalize", "drain", "draining"}
    /\ rpc' = Finish(c, "ok")

\* The client of any call ends it or leaves.
Leave(c) == Active(c) /\ rpc' = Finish(c, "left") /\ UNCHANGED <<dir, ctl>>

\* A connection was cut: the context of the call ends.
Cut(c) ==
    /\ Active(c) /\ rpc[c].kind # "mcp" /\ ctl[rpc[c].boot].stopped
    /\ rpc' = Finish(c, "cut") /\ UNCHANGED <<dir, ctl>>

-----------------------------------------------------------------------------
Init ==
    /\ dir = [events |-> <<>>, first |-> 0, complete |-> TRUE, boot |-> 0, over |-> FALSE]
    /\ ctl = [b \in Boot |-> Free]
    /\ rpc = [c \in Client |-> NoCall]

\* What a boot does by itself once it runs.
Boots(b) ==
    \/ Construct(b) \/ Close(b) \/ mcpDown(b) \/ agentDown(b) \/ processesDown(b)
    \/ Finalize(b) \/ GracefulStop(b) \/ Stop(b) \/ Drained(b)

Handler(c) ==
    Replay(c) \/ Follow(c) \/ SendRange(c) \/ Wake(c) \/ ProcessEnds(c) \/ Cut(c)

Next ==
    \/ \E b \in Boot :
        \/ Open(b) \/ Boots(b) \/ Begin(b) \/ Expire(b) \/ Crash(b)
    \/ \E b \in Called :
        \/ Emit(b) \/ Retain(b)
        \/ \E c \in Client, kind \in Kind \cap {"snapshot", "follow"} : Observe(c, b, kind)
        \/ \E c \in Client, kind \in Kind \ {"snapshot", "follow"} : Begins(c, b, kind)
    \/ \E c \in Client : Handler(c) \/ Leave(c)

Spec == Init /\ [][Next]_vars

-----------------------------------------------------------------------------
(***************************************************************************)
(* Properties.                                                             *)
(***************************************************************************)
\* However boots overlap, fail and end, one at a time has the processes of the
\* runtime directory: the locks outlive what they guard.
OneOwner == \A b \in Boot : Has(b, "processes") => ~Others(b, "processes")

\* No boot writes into the log of another, and the metadata, by which the next
\* one decides what history may go, are those of the boot that has the log.
BootsApart ==
    /\ \A i, j, k \in DOMAIN dir.events :
            i < j /\ j < k /\ dir.events[i] = dir.events[k] => dir.events[j] = dir.events[i]
    /\ \A b \in Boot : Has(b, "lock") /\ Has(b, "metadata") => dir.boot = b /\ ~dir.over

\* A follower told that the controller shut down was sent every event of that
\* boot from where it started; nothing was removed under an observer.
FollowersTold ==
    \A c \in Client :
        /\ rpc[c].reason = "shutdown" =>
                \A i \in rpc[c].end + 1 .. Ends : dir.events[i] # rpc[c].boot
        /\ rpc[c].pc \in {"replay", "range"} => rpc[c].start >= dir.first
        /\ rpc[c].reason # "expired"

\* Services are closed when no call can use them any more, but for MCP requests
\* that outlast the deadline.
CallsOver ==
    \A b \in Boot : Pc(b) \notin {"closing", "down"} \/
        (RpcsOf(b) = {} /\ (CallsOf(b) # {} => ctl[b].expired))

\* Followers of the log do not hold up a server that drains: none of them waits
\* for a record that cannot come any more.
DrainsGoOn ==
    \A b \in Boot : Pc(b) = "draining" =>
        \A c \in Observers(b) : rpc[c].pc = "wait" => ctl[b].finalized

\* The controller starts, serves and ends in order.
BootsOrdered == OneOwner /\ BootsApart /\ FollowersTold /\ CallsOver /\ DrainsGoOn
=============================================================================
