--------------------------- MODULE ProcessRegistry ---------------------------
(***************************************************************************)
(* The registry of managed processes: internal/process/service.go and the  *)
(* status half of internal/process/record.go.                              *)
(*                                                                         *)
(* One UUID is one launchProcess call and, if the call starts a child, the *)
(* reap goroutine that follows it; pc[i] says where that goroutine is.     *)
(* Everything done under Service.mu between a Lock and its Unlock is one   *)
(* action; file writes, fork, wait and kill happen outside the lock and    *)
(* are actions of their own, so they interleave with everything else and   *)
(* the controller may die between any two of them.                         *)
(*                                                                         *)
(* Simplifications:                                                        *)
(*  - the slice Service.order is the set registered together with the      *)
(*    position at which each record was appended; timestamps and positions *)
(*    come from one clock, which does not run backwards;                   *)
(*  - a log observer is membership in observed (the log itself is module   *)
(*    ProcessLog); the only facts about a log kept here are the ones the   *)
(*    registry depends on: is it observed, can it be opened at start-up;   *)
(*  - request validation, templates, working directories and input are     *)
(*    not represented; a request that fails them never reaches the lock;   *)
(*  - signalRecords' loop over the records is a single step;               *)
(*  - BatchDeleteProcesses expands its selectors without changing anything *)
(*    and then calls deleteProcessByID, that is DeleteProcess below.       *)
(***************************************************************************)
EXTENDS Integers, FiniteSets

CONSTANTS
    Id,            \* process UUIDs; every launch draws a new one
    Name,          \* logical process names
    Pid,           \* operating system process ids
    Caller,        \* concurrent SignalProcess calls
    Observable,    \* bound: records whose logs are ever observed
    NoId, NoPid,   \* "" and 0
    MaxProcesses,  \* Config.MaxProcesses
    MaxTracked,    \* maxTrackedProcesses
    MaxBoots,      \* bound: controller starts
    MaxFaults      \* bound: failing file operations

ASSUME RegistryAssumption ==
    /\ IsFiniteSet(Id)             \* UUIDs are 128-bit numbers
    /\ NoId \notin Id
    /\ NoPid \notin Pid
    /\ Name # {}
    /\ MaxProcesses \in Nat \ {0}
    /\ MaxTracked \in Nat \ {0}
    /\ MaxProcesses <= MaxTracked
    /\ MaxBoots \in Nat
    /\ MaxFaults \in Nat

VARIABLES
    up,           \* the controller: "serving", "loading" (in New) or "down"
    boots,        \* number of controller starts so far
    faults,       \* number of failed file operations so far
    clock,
    \* Service
    closing, active, registered, activeNames, byName, byPID, position,
    \* managedProcess
    name, created, info, command, done, observed,
    \* goroutines
    pc,           \* launchProcess, then reap, of each UUID
    reply,        \* the state StartProcess returned
    sig,          \* SignalProcess calls
    shut, shutting, \* Shutdown and the records it waits for
    \* runtime directory
    disk, torn,
    \* operating system
    child, cpid,
    \* history variables
    stale,        \* records whose state on disk is old because a write failed
    deleted,      \* records whose deletion was acknowledged
    stray,        \* some signal reached a group other than the one asked for
    bootFailed    \* New returned an error

service == <<closing, active, registered, activeNames, byName, byPID, position>>
record  == <<name, created, info, command, done, observed>>
calls   == <<reply, sig, shut, shutting>>
store   == <<disk, torn>>
os      == <<child, cpid>>
ghost   == <<stale, deleted, stray, bootFailed>>
control == <<up, boots, faults, clock>>
vars    == <<control, service, record, pc, calls, store, os, ghost>>

State    == {"STARTING", "RUNNING", "EXITED", "FAILED", "LOST"}
isActiveState(s) == s \in {"STARTING", "RUNNING"}

(* Program counters, named after what the goroutine does next.             *)
Launching == {"create", "status", "spawn", "saveFailed", "settleFailed",
              "saveRunning", "publish", "killUnsaved"}
Reaping   == {"wait", "drain", "saveExited", "settleExited"}
PC        == {"unused", "request", "over"} \cup Launching \cup Reaping

Info       == [state : State, pid : Pid \cup {NoPid}]
DiskRecord == [stage : {"none", "partial", "full"}, status : Info]
Blank      == [state |-> "STARTING", pid |-> NoPid]

ControlTypes ==
    /\ up \in {"serving", "loading", "down"}
    /\ boots \in Nat /\ faults \in Nat /\ clock \in Nat

ServiceTypes ==
    /\ closing \in BOOLEAN
    /\ active \in Int
    /\ registered \in SUBSET Id
    /\ activeNames \in [Name -> Id \cup {NoId}]
    /\ byName \in [Name -> Id \cup {NoId}]
    /\ byPID \in [Pid -> Id \cup {NoId}]
    /\ position \in [Id -> Nat]

RecordTypes ==
    /\ name \in [Id -> Name]
    /\ created \in [Id -> Nat]
    /\ info \in [Id -> Info]
    /\ command \in [Id -> BOOLEAN]
    /\ done \in [Id -> BOOLEAN]
    /\ observed \in SUBSET Id

CallTypes ==
    /\ reply \in [Id -> {"none", "owed"} \cup State]
    /\ sig \in [Caller -> [at : {"idle", "kill", "wait"},
                           id : Id \cup {NoId}, pid : Pid \cup {NoPid}]]
    /\ shut \in {"no", "starts", "term", "kill", "clean", "forced", "abandoned"}
    /\ shutting \in SUBSET Id

StoreTypes == disk \in [Id -> DiskRecord] /\ torn \in SUBSET Id

OsTypes ==
    /\ child \in [Id -> {"none", "alive", "zombie", "gone"}]
    /\ cpid \in [Id -> Pid \cup {NoPid}]

GhostTypes ==
    /\ stale \in SUBSET Id /\ deleted \in SUBSET Id
    /\ stray \in BOOLEAN /\ bootFailed \in BOOLEAN

TypeOK ==
    /\ ControlTypes /\ ServiceTypes /\ RecordTypes /\ pc \in [Id -> PC]
    /\ CallTypes /\ StoreTypes /\ OsTypes /\ GhostTypes

-----------------------------------------------------------------------------
(* Helpers. *)

ActiveIds   == {i \in registered : isActiveState(info[i].state)}
TerminalIds == registered \ ActiveIds
runningLocked == {i \in registered : info[i].state = "RUNNING" /\ command[i]}

(* The last (first) element of S in the order given by at, or NoId.        *)
Newest(S, at) == IF S = {} THEN NoId
                 ELSE CHOOSE i \in S : \A j \in S : at[j] <= at[i]
Oldest(S, at) == CHOOSE i \in S : \A j \in S : at[i] <= at[j]

(* removeLocked for every record in the set gone: the indexes fall back to *)
(* the last remaining record of the same name or pid.                      *)
activeNamesWithout(gone) ==
    [n \in Name |-> IF activeNames[n] \in gone THEN NoId ELSE activeNames[n]]
byNameForgotten(gone) ==  \* mutant: no fallback
    [n \in Name |-> IF byName[n] \in gone THEN NoId ELSE byName[n]]
byNameWithout(gone) ==
    [n \in Name |-> IF byName[n] \in gone
                    THEN Newest({j \in registered \ gone : name[j] = n}, position)
                    ELSE byName[n]]
byPIDPurged(gone) ==  \* mutant: the entry goes with any record of that pid
    [p \in Pid |-> IF \E g \in gone : info[g].pid = p THEN NoId ELSE byPID[p]]
byPIDWithout(gone) ==
    [p \in Pid |-> IF byPID[p] \in gone
                   THEN Newest({j \in registered \ gone : info[j].pid = p}, position)
                   ELSE byPID[p]]

(* makeHistorySpaceLocked: the records it evicts, the oldest terminal one  *)
(* when the index is full.                                                 *)
evictedLate ==  \* mutant: one too many before it evicts
    IF Cardinality(registered) > MaxTracked THEN {Oldest(TerminalIds, position)} ELSE {}
evicted == IF Cardinality(registered) >= MaxTracked
           THEN {Oldest(TerminalIds, position)} ELSE {}

(* signalProcessGroup: the children whose process group answers to pid p.  *)
Group(p) == {v \in Id : cpid[v] = p /\ child[v] \in {"alive", "zombie"}}
Killed(S) == [v \in Id |-> IF v \in S /\ child[v] = "alive" THEN "zombie" ELSE child[v]]

Serving == up = "serving"
Fault   == faults < MaxFaults /\ faults' = faults + 1
Goto(i, p) == pc' = [pc EXCEPT ![i] = p]
Write(i, s, p) == disk' = [disk EXCEPT ![i].status = [state |-> s, pid |-> p]]

-----------------------------------------------------------------------------
(* launchProcess *)

(* StartProcess: the request is validated, gets a UUID and its creation    *)
(* time, and goes on to wait for Service.mu.                               *)
StartRequest(i, n) ==
    /\ Serving /\ pc[i] = "unused"
    /\ name' = [name EXCEPT ![i] = n]
    /\ clock' = clock + 1
    /\ created' = [created EXCEPT ![i] = clock']
    /\ Goto(i, "request")
    /\ UNCHANGED <<up, boots, faults, service, info, command, done, observed,
                   calls, store, os, ghost>>

(* What admits a start under the lock; the alternative is an early return. *)
AdmittedTwice(i) ==  \* mutant: an active name is admitted again
    ~closing /\ active < MaxProcesses
Admitted(i) ==
    /\ ~closing
    /\ active < MaxProcesses
    /\ activeNames[name[i]] = NoId
    /\ Cardinality(registered) >= MaxTracked => TerminalIds # {}

RefuseStart(i) ==
    /\ Serving /\ pc[i] = "request"
    /\ ~Admitted(i)
    /\ Goto(i, "over")
    /\ UNCHANGED <<control, service, record, calls, store, os, ghost>>

(* The reservation: index entries, an active slot, starts.Add(1). *)
Register(i) ==
    /\ Serving /\ pc[i] = "request"
    /\ Admitted(i)
    /\ registered' = (registered \ evicted) \cup {i}
    /\ activeNames' = [activeNamesWithout(evicted) EXCEPT ![name[i]] = i]
    /\ byName' = [byNameWithout(evicted) EXCEPT ![name[i]] = i]
    /\ byPID' = byPIDWithout(evicted)
    /\ clock' = clock + 1
    /\ position' = [position EXCEPT ![i] = clock']
    /\ active' = active + 1
    /\ info' = [info EXCEPT ![i] = Blank]
    /\ Goto(i, "create")
    /\ UNCHANGED <<up, boots, faults, closing, name, created, command, done,
                   observed, calls, store, os, ghost>>

(* recordStore.create up to and including metadata.json. *)
CreateMetadata(i) ==
    /\ Serving /\ pc[i] = "create"
    /\ disk' = [disk EXCEPT ![i].stage = "partial"]
    /\ Goto(i, "status")
    /\ UNCHANGED <<control, service, record, calls, torn, os, ghost>>

(* The rest of recordStore.create: status.json and the log directory. *)
CreateStatus(i) ==
    /\ Serving /\ pc[i] = "status"
    /\ disk' = [disk EXCEPT ![i] = [stage |-> "full", status |-> Blank]]
    /\ Goto(i, "spawn")
    /\ UNCHANGED <<control, service, record, calls, torn, os, ghost>>

(* recordStore.create fails and its deferred cleanup removes the directory *)
(* or, its error being ignored, does not; the reservation is withdrawn.    *)
CreateFails(i) ==
    /\ Serving /\ pc[i] \in {"create", "status"} /\ Fault
    /\ \E s \in {"none", "partial"} \cup IF pc[i] = "status" THEN {"full"} ELSE {} :
        /\ disk' = [disk EXCEPT ![i] = [stage |-> s, status |-> Blank]]
        /\ stale' = IF s = "full" THEN stale \cup {i} ELSE stale
    /\ registered' = registered \ {i}
    /\ activeNames' = activeNamesWithout({i})
    /\ byName' = byNameWithout({i})
    /\ byPID' = byPIDWithout({i})
    /\ active' = active - 1
    /\ Goto(i, "over")
    /\ UNCHANGED <<up, boots, clock, closing, position, record, calls, torn, os,
                   deleted, stray, bootFailed>>

(* startCommand succeeds: the kernel picks a free pid. *)
Spawn(i) ==
    /\ Serving /\ pc[i] = "spawn"
    /\ \E p \in Pid :
        /\ Group(p) = {}
        /\ cpid' = [cpid EXCEPT ![i] = p]
    /\ child' = [child EXCEPT ![i] = "alive"]
    /\ command' = [command EXCEPT ![i] = TRUE]
    /\ Goto(i, "saveRunning")
    /\ UNCHANGED <<control, service, name, created, info, done, observed,
                   calls, store, ghost>>

SpawnFails(i) ==
    /\ Serving /\ pc[i] = "spawn"
    /\ Goto(i, "saveFailed")
    /\ UNCHANGED <<control, service, record, calls, store, os, ghost>>

(* writeStatus(FAILED); its error is ignored. *)
SaveFailed(i) ==
    /\ Serving /\ pc[i] = "saveFailed"
    /\ \/ /\ Write(i, "FAILED", info[i].pid)
          /\ UNCHANGED <<faults, stale>>
       \/ /\ Fault
          /\ stale' = stale \cup {i}
          /\ UNCHANGED disk
    /\ Goto(i, "settleFailed")
    /\ UNCHANGED <<up, boots, clock, service, record, calls, torn, os,
                   deleted, stray, bootFailed>>

Unreleased == active  \* mutant: the slot is never given back
Released == IF active > 0 THEN active - 1 ELSE active

(* What both ends of a process do under the lock: publish the terminal     *)
(* state, give back the slot and the name, close done.                     *)
Settle(i, s) ==
    /\ info' = [info EXCEPT ![i].state = s]
    /\ active' = Released
    /\ activeNames' = [activeNames EXCEPT ![name[i]] = IF @ = i THEN NoId ELSE @]
    /\ done' = [done EXCEPT ![i] = TRUE]
    /\ Goto(i, "over")
    /\ UNCHANGED <<control, closing, registered, byName, byPID, position,
                   name, created, command, observed, calls, store, os, ghost>>

SettleFailedWhileOpen(i) ==  \* mutant: skipped once the service is closing
    Serving /\ ~closing /\ pc[i] = "settleFailed" /\ Settle(i, "FAILED")
SettleFailed(i) == Serving /\ pc[i] = "settleFailed" /\ Settle(i, "FAILED")

(* writeStatus(RUNNING), before any reader can see RUNNING in memory. *)
SaveRunning(i) ==
    /\ Serving /\ pc[i] = "saveRunning"
    /\ Write(i, "RUNNING", cpid[i])
    /\ Goto(i, "publish")
    /\ UNCHANGED <<control, service, record, calls, torn, os, ghost>>

(* record.info becomes RUNNING and the pid is indexed. *)
Publish(i) ==
    /\ info' = [info EXCEPT ![i] = [state |-> "RUNNING", pid |-> cpid[i]]]
    /\ byPID' = [byPID EXCEPT ![cpid[i]] = i]
    /\ UNCHANGED <<closing, active, registered, activeNames, byName, position,
                   name, created, command, done, observed>>

(* writeStatus(RUNNING) fails: the record is RUNNING all the same, ... *)
SaveRunningFails(i) ==
    /\ Serving /\ pc[i] = "saveRunning" /\ Fault
    /\ Publish(i)
    /\ Goto(i, "killUnsaved")
    /\ UNCHANGED <<up, boots, clock, calls, store, os, ghost>>

(* ... its group is killed and the reaper started. *)
KillUnreaped(i) ==  \* mutant: takes the killed child for collected
    /\ Serving /\ pc[i] = "killUnsaved"
    /\ child' = Killed(Group(info[i].pid))
    /\ Goto(i, "saveExited")
    /\ UNCHANGED <<control, service, record, calls, store, cpid, ghost>>
KillUnsaved(i) ==
    /\ Serving /\ pc[i] = "killUnsaved"
    /\ child' = Killed(Group(info[i].pid))
    /\ Goto(i, "wait")
    /\ UNCHANGED <<control, service, record, calls, store, cpid, ghost>>

(* The start is published, reap begins and StartProcess is about to answer.*)
PublishRunning(i) ==
    /\ Serving /\ pc[i] = "publish"
    /\ Publish(i)
    /\ Goto(i, "wait")
    /\ reply' = [reply EXCEPT ![i] = "owed"]
    /\ UNCHANGED <<control, sig, shut, shutting, store, os, ghost>>

(* StartProcess answers with snapshot(record), taken after go reap. *)
StartReply(i) ==
    /\ Serving /\ reply[i] = "owed"
    /\ reply' = [reply EXCEPT ![i] = info[i].state]
    /\ UNCHANGED <<control, service, record, pc, sig, shut, shutting, store, os, ghost>>

-----------------------------------------------------------------------------
(* reap *)

(* cmd.Wait collects the child: from here on the kernel may reuse its pid. *)
Reap(i) ==
    /\ Serving /\ pc[i] = "wait" /\ child[i] = "zombie"
    /\ child' = [child EXCEPT ![i] = "gone"]
    /\ Goto(i, "drain")
    /\ UNCHANGED <<control, service, record, calls, store, cpid, ghost>>

(* The copiers reach end of file once no descendant holds the pipe; then   *)
(* input and log are closed.                                               *)
DrainUnsaved(i) ==  \* mutant: publishes before it saves
    /\ Serving /\ pc[i] = "drain"
    /\ Goto(i, "settleExited")
    /\ UNCHANGED <<control, service, record, calls, store, os, ghost>>
Drain(i) ==
    /\ Serving /\ pc[i] = "drain"
    /\ Goto(i, "saveExited")
    /\ UNCHANGED <<control, service, record, calls, store, os, ghost>>

(* writeStatus(EXITED); its error is ignored. *)
SaveExited(i) ==
    /\ Serving /\ pc[i] = "saveExited"
    /\ \/ /\ Write(i, "EXITED", info[i].pid)
          /\ UNCHANGED <<faults, stale>>
       \/ /\ Fault
          /\ stale' = stale \cup {i}
          /\ UNCHANGED disk
    /\ Goto(i, "settleExited")
    /\ UNCHANGED <<up, boots, clock, service, record, calls, torn, os,
                   deleted, stray, bootFailed>>

SettleWhileOpen(i) ==  \* mutant: skipped once the service is closing
    Serving /\ ~closing /\ pc[i] = "settleExited" /\ Settle(i, "EXITED")
SettleExited(i) == Serving /\ pc[i] = "settleExited" /\ Settle(i, "EXITED")

-----------------------------------------------------------------------------
(* DeleteProcess, and each item of BatchDeleteProcesses *)

DeletableObserved(i) == Serving /\ i \in TerminalIds  \* mutant: no lockForDeletion
DeletableActive(i) == Serving /\ i \in registered \ observed  \* mutant: no state check
Deletable(i) ==
    /\ Serving /\ i \in TerminalIds
    /\ i \notin observed             \* lockForDeletion

DeleteProcess(i) ==
    /\ Deletable(i)
    /\ disk' = [disk EXCEPT ![i].stage = "none"]
    /\ torn' = torn \ {i}
    /\ registered' = registered \ {i}
    /\ activeNames' = activeNamesWithout({i})
    /\ byName' = byNameWithout({i})
    /\ byPID' = byPIDWithout({i})
    /\ deleted' = deleted \cup {i}
    /\ UNCHANGED <<control, closing, active, position, record, pc, calls, os,
                   stale, stray, bootFailed>>

(* recordStore.remove fails after removing nothing, something or all. *)
DeleteFails(i) ==
    /\ Deletable(i) /\ Fault
    /\ disk[i].stage # "none"        \* a missing directory is not an error
    /\ \E s \in {"none", "partial"} : disk' = [disk EXCEPT ![i].stage = s]
    /\ UNCHANGED <<up, boots, clock, service, record, pc, calls, torn, os, ghost>>

(* ObserveProcessLogs looks the record up and registers as an observer,    *)
(* under Service.mu; record.logs exists once recordStore.create returned.  *)
ObserveLogs(i) ==
    /\ Serving /\ i \in (registered \cap Observable) \ observed
    /\ pc[i] \notin {"create", "status"}
    /\ observed' = observed \cup {i}
    /\ UNCHANGED <<control, service, name, created, info, command, done, pc,
                   calls, store, os, ghost>>

ReleaseLogs(i) ==
    /\ Serving /\ i \in observed
    /\ observed' = observed \ {i}
    /\ UNCHANGED <<control, service, name, created, info, command, done, pc,
                   calls, store, os, ghost>>

-----------------------------------------------------------------------------
(* SignalProcess *)

Idle == [at |-> "idle", id |-> NoId, pid |-> NoPid]

(* The lookup and the state check, under the lock. *)
SignalLookup(c, i) ==
    /\ Serving /\ sig[c].at = "idle"
    /\ i \in runningLocked
    /\ sig' = [sig EXCEPT ![c] = [at |-> "kill", id |-> i, pid |-> info[i].pid]]
    /\ UNCHANGED <<control, service, record, pc, reply, shut, shutting, store, os, ghost>>

(* kill(-pid) after the lock was released.  What the signal does to its    *)
(* receiver is ChildExits; ESRCH ends the call.  wait asks for done.       *)
SignalDeliver(c, wait) ==
    /\ Serving /\ sig[c].at = "kill"
    /\ LET hit == Group(sig[c].pid) IN
        /\ stray' = (stray \/ hit \ {sig[c].id} # {})
        /\ sig' = [sig EXCEPT ![c] =
                     IF hit # {} /\ wait THEN [@ EXCEPT !.at = "wait"] ELSE Idle]
    /\ UNCHANGED <<control, service, record, pc, reply, shut, shutting, store, os,
                   stale, deleted, bootFailed>>

(* wait=true: the caller's context ends first. *)
SignalAbandoned(c) ==
    /\ Serving /\ sig[c].at = "wait"
    /\ sig' = [sig EXCEPT ![c] = Idle]
    /\ UNCHANGED <<control, service, record, pc, reply, shut, shutting, store, os, ghost>>

(* The answer to wait=true. *)
SignalWaited(c) ==
    /\ Serving /\ sig[c].at = "wait"
    /\ done[sig[c].id]
    /\ sig' = [sig EXCEPT ![c] = Idle]
    /\ UNCHANGED <<control, service, record, pc, reply, shut, shutting, store, os, ghost>>

-----------------------------------------------------------------------------
(* Shutdown *)

BeginShutdown ==
    /\ Serving /\ shut = "no"
    /\ closing' = TRUE
    /\ shut' = "starts"
    /\ UNCHANGED <<control, active, registered, activeNames, byName, byPID,
                   position, record, pc, reply, sig, shutting, store, os, ghost>>

(* signalRecords: the groups reached by signalling the running records.    *)
Struck == UNION {Group(info[i].pid) : i \in runningLocked}
Misses == \E i \in runningLocked : Group(info[i].pid) \ {i} # {}

(* starts.Wait returns; TERM goes to every running record. *)
ShutdownHasty ==  \* mutant: does not wait for the starts under way
    /\ Serving /\ shut = "starts"
    /\ shutting' = runningLocked
    /\ stray' = (stray \/ Misses)
    /\ shut' = "term"
    /\ UNCHANGED <<control, service, record, pc, reply, sig, store, os,
                   stale, deleted, bootFailed>>
ShutdownTerm ==
    /\ Serving /\ shut = "starts"
    /\ \A i \in Id : pc[i] \notin Launching
    /\ shutting' = runningLocked
    /\ stray' = (stray \/ Misses)
    /\ shut' = "term"
    /\ UNCHANGED <<control, service, record, pc, reply, sig, store, os,
                   stale, deleted, bootFailed>>

ShutdownDrained ==
    /\ Serving /\ shut \in {"term", "kill"}
    /\ \A i \in shutting : done[i]
    /\ shut' = IF shut = "term" THEN "clean" ELSE "forced"
    /\ UNCHANGED <<control, service, record, pc, reply, sig, shutting, store, os, ghost>>

(* The caller's deadline passes: KILL to what is still running. *)
ShutdownExpires ==
    /\ Serving /\ shut = "term"
    /\ shutting' = runningLocked
    /\ stray' = (stray \/ Misses)
    /\ child' = Killed(Struck)
    /\ shut' = "kill"
    /\ UNCHANGED <<control, service, record, pc, reply, sig, store, cpid,
                   stale, deleted, bootFailed>>

(* forcedShutdownWait passes: Shutdown returns whatever is left. *)
ShutdownInsists ==  \* mutant: the wait after KILL has no bound
    /\ Serving /\ shut = "kill"
    /\ \A i \in shutting : done[i]
    /\ shut' = "abandoned"
    /\ UNCHANGED <<control, service, record, pc, reply, sig, shutting, store, os, ghost>>
ShutdownGivesUp ==
    /\ Serving /\ shut = "kill"
    /\ shut' = "abandoned"
    /\ UNCHANGED <<control, service, record, pc, reply, sig, shutting, store, os, ghost>>

-----------------------------------------------------------------------------
(* The controller process: exit, crash and recovery *)

(* What is gone with the process; children keep running. *)
Lose ==
    /\ up' = "down"
    /\ closing' = FALSE /\ active' = 0 /\ registered' = {}
    /\ activeNames' = [n \in Name |-> NoId]
    /\ byName' = [n \in Name |-> NoId]
    /\ byPID' = [p \in Pid |-> NoId]
    /\ position' = [i \in Id |-> 0]
    /\ info' = [i \in Id |-> Blank]
    /\ command' = [i \in Id |-> FALSE]
    /\ done' = [i \in Id |-> FALSE]
    /\ observed' = {}
    /\ pc' = [i \in Id |-> IF pc[i] = "unused" THEN "unused" ELSE "over"]
    /\ reply' = [i \in Id |-> "none"]
    /\ sig' = [c \in Caller |-> Idle]
    /\ shut' = "no" /\ shutting' = {}
    /\ UNCHANGED <<boots, clock, name, created, os>>

(* The process exits after Shutdown returned. *)
Exit ==
    /\ Serving /\ shut \in {"clean", "forced", "abandoned"}
    /\ Lose
    /\ UNCHANGED <<faults, store, ghost>>

Crash ==
    /\ up # "down" /\ boots < MaxBoots
    /\ Lose
    /\ UNCHANGED <<faults, store, ghost>>

Restart ==
    /\ up = "down" /\ boots < MaxBoots
    /\ up' = "loading"
    /\ boots' = boots + 1
    /\ UNCHANGED <<faults, clock, service, record, pc, calls, store, os, ghost>>

(* store.load: a record left STARTING or RUNNING becomes LOST on disk. *)
MarkAllLost(i) ==  \* mutant: no state check
    /\ up = "loading"
    /\ disk[i].stage = "full"
    /\ Write(i, "LOST", disk[i].status.pid)
    /\ UNCHANGED <<control, service, record, pc, calls, torn, os, ghost>>
MarkLost(i) ==
    /\ up = "loading"
    /\ disk[i].stage = "full" /\ isActiveState(disk[i].status.state)
    /\ Write(i, "LOST", disk[i].status.pid)
    /\ UNCHANGED <<control, service, record, pc, calls, torn, os, ghost>>

Loadable == {i \in Id : disk[i].stage = "full"}
(* Only the newest maxTrackedProcesses records are indexed. *)
Kept == {i \in Loadable :
            Cardinality({j \in Loadable : created[j] > created[i]}) < MaxTracked}

LoadDone == /\ up = "loading"
            /\ \A i \in Loadable : ~isActiveState(disk[i].status.state)

(* New rebuilds the indexes in the order of creation; pid 0 is left out.   *)
byNameEarliest ==  \* mutant: the first record of a name wins
    [n \in Name |-> Newest({i \in Kept : name[i] = n}, [i \in Id |-> 0 - created[i]])]
byNameLoaded == [n \in Name |-> Newest({i \in Kept : name[i] = n}, created)]
byPIDWithZero ==  \* mutant: pid 0 is indexed
    [p \in Pid \cup {NoPid} |-> Newest({i \in Kept : disk[i].status.pid = p}, created)]
byPIDLoaded ==
    [p \in Pid |-> Newest({i \in Kept : disk[i].status.pid = p}, created)]

(* New returns and the controller serves. *)
Load ==
    /\ LoadDone
    /\ Kept \cap torn = {}
    /\ up' = "serving"
    /\ registered' = Kept
    /\ position' = [i \in Id |-> IF i \in Kept THEN created[i] ELSE 0]
    /\ info' = [i \in Id |-> IF i \in Kept THEN disk[i].status ELSE Blank]
    /\ done' = [i \in Id |-> i \in Kept]
    /\ byName' = byNameLoaded
    /\ byPID' = byPIDLoaded
    /\ UNCHANGED <<boots, faults, clock, closing, active, activeNames, name, created,
                   command, observed, pc, calls, store, os, ghost>>

(* New: openLog fails for one record and so does New. *)
LoadFails ==
    /\ LoadDone
    /\ Kept \cap torn # {}
    /\ up' = "down"
    /\ bootFailed' = TRUE
    /\ UNCHANGED <<boots, faults, clock, service, record, pc, calls, store, os,
                   stale, deleted, stray>>

(* New: LOST cannot be written; the process ends with an error. *)
MarkLostFails ==
    /\ up = "loading" /\ ~LoadDone /\ Fault
    /\ up' = "down"
    /\ UNCHANGED <<boots, clock, service, record, pc, calls, store, os, ghost>>

-----------------------------------------------------------------------------
(* The operating system *)

(* A child ends; one the controller will not wait for is collected by init.*)
ChildExits(i) ==
    /\ child[i] = "alive"
    /\ child' = [child EXCEPT ![i] = IF pc[i] = "over" THEN "gone" ELSE "zombie"]
    /\ UNCHANGED <<control, service, record, pc, calls, store, cpid, ghost>>

(* init collects a child that had already ended when the controller died.  *)
InitReaps(i) ==
    /\ child[i] = "zombie" /\ pc[i] = "over"
    /\ child' = [child EXCEPT ![i] = "gone"]
    /\ UNCHANGED <<control, service, record, pc, calls, store, cpid, ghost>>

(* createProcessLogSegment creates the .log file for the child's output    *)
(* and cannot write its header (the disk is full).                         *)
TearLog(i) ==
    /\ Serving /\ Fault
    /\ pc[i] \in {"saveRunning", "publish", "wait", "drain"}
    /\ i \notin torn
    /\ torn' = torn \cup {i}
    /\ UNCHANGED <<up, boots, clock, service, record, pc, calls, disk, os, ghost>>

-----------------------------------------------------------------------------
Init ==
    /\ up = "serving" /\ boots = 1 /\ faults = 0 /\ clock = 0
    /\ closing = FALSE /\ active = 0 /\ registered = {}
    /\ activeNames = [n \in Name |-> NoId]
    /\ byName = [n \in Name |-> NoId]
    /\ byPID = [p \in Pid |-> NoId]
    /\ position = [i \in Id |-> 0]
    /\ name = [i \in Id |-> CHOOSE n \in Name : TRUE]
    /\ created = [i \in Id |-> 0]
    /\ info = [i \in Id |-> Blank]
    /\ command = [i \in Id |-> FALSE]
    /\ done = [i \in Id |-> FALSE]
    /\ observed = {}
    /\ pc = [i \in Id |-> "unused"]
    /\ reply = [i \in Id |-> "none"]
    /\ sig = [c \in Caller |-> Idle]
    /\ shut = "no" /\ shutting = {}
    /\ disk = [i \in Id |-> [stage |-> "none", status |-> Blank]]
    /\ torn = {}
    /\ child = [i \in Id |-> "none"]
    /\ cpid = [i \in Id |-> NoPid]
    /\ stale = {} /\ deleted = {}
    /\ stray = FALSE /\ bootFailed = FALSE

Launch(i) ==
    \/ \E n \in Name : StartRequest(i, n)
    \/ RefuseStart(i) \/ Register(i)
    \/ CreateMetadata(i) \/ CreateStatus(i) \/ CreateFails(i)
    \/ Spawn(i) \/ SpawnFails(i) \/ SaveFailed(i) \/ SettleFailed(i)
    \/ SaveRunning(i) \/ SaveRunningFails(i) \/ KillUnsaved(i)
    \/ PublishRunning(i) \/ StartReply(i)

Finish(i) == Reap(i) \/ Drain(i) \/ SaveExited(i) \/ SettleExited(i)

History(i) == DeleteProcess(i) \/ DeleteFails(i) \/ ObserveLogs(i) \/ ReleaseLogs(i)

Signal(c) ==
    \/ \E i \in Id : SignalLookup(c, i)
    \/ \E wait \in BOOLEAN : SignalDeliver(c, wait)
    \/ SignalAbandoned(c) \/ SignalWaited(c)

Shutdown ==
    \/ BeginShutdown \/ ShutdownTerm \/ ShutdownDrained
    \/ ShutdownExpires \/ ShutdownGivesUp

Controller ==
    \/ Exit \/ Crash \/ Restart
    \/ \E i \in Id : MarkLost(i)
    \/ Load \/ LoadFails \/ MarkLostFails

System(i) == ChildExits(i) \/ InitReaps(i) \/ TearLog(i)

Next ==
    \/ \E i \in Id : Launch(i) \/ Finish(i) \/ History(i) \/ System(i)
    \/ \E c \in Caller : Signal(c)
    \/ Shutdown
    \/ Controller

Spec == Init /\ [][Next]_vars

(* Goroutines that can run do run, and both deadlines of Shutdown pass.    *)
(* Nothing is assumed of the children (they may run for ever), of their    *)
(* descendants that keep a pipe open (Drain), of callers, or of the disk.  *)
Fairness ==
    /\ \A i \in Id : WF_vars(RefuseStart(i) \/ Register(i)
                            \/ CreateMetadata(i) \/ CreateStatus(i)
                            \/ Spawn(i) \/ SpawnFails(i)
                            \/ SaveFailed(i) \/ SettleFailed(i)
                            \/ SaveRunning(i) \/ KillUnsaved(i) \/ PublishRunning(i))
    /\ \A i \in Id : WF_vars(Reap(i) \/ SaveExited(i) \/ SettleExited(i))
    /\ WF_vars(ShutdownTerm)
    /\ WF_vars(ShutdownDrained)
    /\ WF_vars(ShutdownExpires)
    /\ WF_vars(ShutdownGivesUp)

FairSpec == Spec /\ Fairness

-----------------------------------------------------------------------------
(* Properties *)

(* The active counter is exactly the number of STARTING and RUNNING        *)
(* records and never exceeds the limit, however starts, failed starts,     *)
(* exits, evictions and deletions interleave (service.go:273-290, 305,     *)
(* 338, 909): a slot that leaks is lost until the controller restarts.     *)
ActiveCount ==
    /\ active = Cardinality(ActiveIds)
    /\ active <= MaxProcesses

(* A name is reserved exactly while one registered record of that name is  *)
(* active, so active names are unique and no name stays blocked.           *)
ActiveNames ==
    /\ \A i \in ActiveIds : activeNames[name[i]] = i
    /\ \A n \in Name : activeNames[n] # NoId =>
            activeNames[n] \in ActiveIds /\ name[activeNames[n]] = n

(* With a free slot the history can always make room: the error            *)
(* ProcessHistoryLimitReached (service.go:997) cannot be returned.         *)
HistoryMakesRoom ==
    /\ Cardinality(registered) <= MaxTracked
    /\ active < MaxProcesses /\ Cardinality(registered) >= MaxTracked => TerminalIds # {}

(* Slots, names and places in the history are given to processes, and given *)
(* back by them, exactly once.                                             *)
SlotsAndNames == TypeOK /\ ActiveCount /\ ActiveNames /\ HistoryMakesRoom

(* A name resolves to the last registered record of that name, through     *)
(* evictions, deletions and restarts; hence to the active one if there is  *)
(* one (removeLocked's fallback and the order of load agree).              *)
NameIndex ==
    /\ \A n \in Name : byName[n] = Newest({i \in registered : name[i] = n}, position)
    /\ \A i \in ActiveIds : byName[name[i]] = i

(* While the kernel has not reused it, the pid of a running child resolves *)
(* to that child's record, even with older records of the same pid around. *)
PidIndex ==
    /\ \A i \in registered :
          info[i].state = "RUNNING" /\ child[i] \in {"alive", "zombie"}
             => byPID[info[i].pid] = i
    /\ \A p \in Pid : byPID[p] # NoId =>
          byPID[p] \in registered /\ info[byPID[p]].pid = p

(* Both indexes lead to the record that a caller means. *)
Indexes == NameIndex /\ PidIndex

(* What a caller saw as terminal is what a restart will find, unless the   *)
(* write was reported to fail: reap publishes only after it has saved.     *)
TerminalDurable ==
    \A i \in registered :
        /\ i \notin stale /\ disk[i].stage = "full" /\ ~isActiveState(info[i].state)
        => disk[i].status = info[i]

(* An acknowledged deletion is for good: no writer that was still on its   *)
(* way and no restart brings the record back.                              *)
DeletedForGood ==
    \A i \in deleted : i \notin registered /\ disk[i].stage = "none"

(* The directory of a log that is being observed is never removed under    *)
(* the observer, not even when the record was evicted from the index or a  *)
(* batch selected it before the observer came (lockForDeletion, log_v2.go  *)
(* 633); an earlier failed deletion may have left it incomplete.           *)
ObservedLogStays ==
    [][\A i \in observed : disk'[i].stage = disk[i].stage]_vars

(* done is closed only after the child was collected: what wait=true, the  *)
(* log followers and Shutdown wait for (requirements 187).                 *)
DoneIsReaped == \A i \in Id : done[i] /\ command[i] => child[i] = "gone"

(* How a process ended is known once and for good: durable before it is    *)
(* seen, collected before it is done, gone once it is deleted.             *)
EndsHold == TerminalDurable /\ DoneIsReaped /\ DeletedForGood

(* When Shutdown has returned no child of this run is left running, and    *)
(* unless it gave up no record is left to be found LOST at the next start. *)
ShutdownComplete ==
    /\ shut \in {"clean", "forced", "abandoned"} =>
          \A i \in Id : child[i] = "alive" => pc[i] = "over"
    /\ shut \in {"clean", "forced"} =>
          \A i \in Loadable : isActiveState(disk[i].status.state) => i \in stale

(* The transitions of requirements 102-106, in memory and on disk; a       *)
(* terminal state is never left.  (STARTING -> EXITED appears on disk when *)
(* RUNNING could not be written.)                                          *)
MemorySteps == {<<"STARTING", "RUNNING">>, <<"STARTING", "FAILED">>, <<"RUNNING", "EXITED">>}
DiskSteps   == MemorySteps \cup {<<"STARTING", "EXITED">>, <<"STARTING", "LOST">>, <<"RUNNING", "LOST">>}
Lifecycle ==
    [][/\ Serving /\ up' = "serving" =>
            \A i \in registered \cap registered' :
                info'[i].state # info[i].state => <<info[i].state, info'[i].state>> \in MemorySteps
       /\ \A i \in Loadable : LET s == disk[i].status.state IN
            disk'[i].stage = "full" /\ disk'[i].status.state # s
                => <<s, disk'[i].status.state>> \in DiskSteps]_vars

(* Shutdown returns within its two deadlines even if a child ignores TERM  *)
(* or a descendant keeps the pipe of a dead one open.                      *)
ShutdownReturns == shut = "starts" ~> shut \in {"clean", "forced", "abandoned", "no"}

(* An admitted start never hangs: it ends up published, failed or undone.  *)
StartSettles == \A i \in Id : pc[i] \in Launching ~> pc[i] \in Reaping \cup {"over"}

(* Once its output is drained, the exit of a child is recorded and its     *)
(* slot and name are free again.                                           *)
ExitRecorded == \A i \in Id : pc[i] = "saveExited" ~> pc[i] = "over"

(* Starts, exits and shutdown come to their end. *)
EverythingSettles == StartSettles /\ ExitRecorded /\ ShutdownReturns

(* Claims of the documentation that the code does not keep. *)

(* requirements 52: when the RPC succeeds the state must be RUNNING.       *)
StartReturnsRunning == \A i \in Id : reply[i] \in {"none", "owed", "RUNNING"}

(* requirements 70-71: only running processes of this controller run can   *)
(* be signalled, so that a reused pid is never killed by mistake.          *)
SignalNeverStrays == ~stray

(* design 117: a record that becomes LOST has its pid cleared.             *)
LostHasNoPid == \A i \in registered : info[i].state = "LOST" => info[i].pid = NoPid

(* requirements 60: ListProcesses, in the order of registration, is sorted *)
(* by creation time.                                                       *)
ListedByCreation ==
    \A i, j \in registered : position[i] < position[j] => created[i] < created[j]

(* design 115-116: a damaged record does not prevent others from being     *)
(* recovered, so New does not fail because of one.                         *)
StartsDespiteDamage == ~bootFailed
=============================================================================
