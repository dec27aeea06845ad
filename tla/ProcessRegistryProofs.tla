------------------------ MODULE ProcessRegistryProofs ------------------------
(***************************************************************************)
(* Proofs about ProcessRegistry for every value of its constants: the type *)
(* invariant, the accounting of active slots and names, the room in the    *)
(* history, the permanence of deletions and the meaning of done; then how  *)
(* a process ends.                                                         *)
(*                                                                         *)
(* The properties are not inductive by themselves: that a slot is given    *)
(* back exactly once depends on where the goroutine of each record is.     *)
(* Structure ties the program counters to the registry, the state in       *)
(* memory, the disk and the child, and is inductive together with TypeOK.  *)
(***************************************************************************)
EXTENDS ProcessRegistry, FiniteSetTheorems, TLAPS

Starting == {"create", "status", "spawn", "saveFailed", "settleFailed",
             "saveRunning", "publish"}
Running  == {"killUnsaved"} \cup Reaping

(* While the controller is not serving, nothing is registered. *)
Offline ==
    up # "serving" =>
        /\ registered = {} /\ active = 0
        /\ \A n \in Name : activeNames[n] = NoId
        /\ \A i \in Id : pc[i] \in {"unused", "over"} /\ ~done[i] /\ ~command[i]

(* Where the goroutine of a record is determines the state in memory ... *)
Stages ==
    /\ \A i \in Id : pc[i] \in Starting => info[i].state = "STARTING"
    /\ \A i \in Id : pc[i] \in Running => info[i].state = "RUNNING"
    /\ \A i \in Id : pc[i] \in Starting \cup Running => i \in registered
    /\ \A i \in registered : isActiveState(info[i].state) => pc[i] \in Starting \cup Running
    /\ \A i \in Id : pc[i] \in {"unused", "request"} =>
           i \notin registered /\ disk[i].stage = "none" /\ ~done[i] /\ ~command[i]

(* ... and whether there is a child to wait for. *)
Children ==
    /\ \A i \in Id : pc[i] \in {"create", "status", "spawn", "saveFailed", "settleFailed"}
           => ~command[i]
    /\ \A i \in Id : pc[i] \in {"drain", "saveExited", "settleExited"} => child[i] = "gone"
    /\ \A i \in Id : done[i] => pc[i] = "over" /\ (command[i] => child[i] = "gone")

(* Creation times are distinct, so "the newest MaxTracked" is well defined.*)
Times ==
    /\ \A i \in Id : created[i] <= clock
    /\ \A i, j \in Id : /\ pc[i] # "unused" /\ pc[j] # "unused"
                        /\ created[i] = created[j]
                        => i = j

Deletions == \A i \in deleted : i \notin registered /\ disk[i].stage = "none" /\ pc[i] = "over"

Accounts ==
    /\ active = Cardinality(ActiveIds)
    /\ active <= MaxProcesses
    /\ Cardinality(registered) <= MaxTracked

IInv == TypeOK /\ Offline /\ Stages /\ Children /\ Times /\ Deletions /\ ActiveNames /\ Accounts

-----------------------------------------------------------------------------
(* Finite sets with a numbering. *)

(* A non-empty finite set has a last element in any numbering: the set of  *)
(* elements after i is smallest, in the order of inclusion, for that i.    *)
LEMMA LastExists ==
    ASSUME NEW S, IsFiniteSet(S), S # {}, NEW at, \A i \in S : at[i] \in Int
    PROVE  \E i \in S : \A j \in S : at[j] <= at[i]
PROOF
<1> DEFINE after(i) == {j \in S : at[j] > at[i]}
           T == {after(i) : i \in S}
           R == StrictSubsetOrdering(S)
<1>1. IsWellFoundedOn(R, SUBSET S)
  BY FS_FiniteSubsetsOfFinite, FS_StrictSubsetOrderingWellFounded
<1>2. T \subseteq SUBSET S /\ T # {}
  OBVIOUS
<1>3. PICK U \in T : \A V \in T : <<V, U>> \notin R
  <2> HIDE DEF T, R
  <2> QED BY <1>1, <1>2, WFMin
<1>4. PICK i \in S : U = after(i)
  BY <1>3
<1>5. ASSUME NEW j \in S, ~(at[j] <= at[i]) PROVE FALSE
  <2>1. after(j) \subseteq after(i) /\ j \in after(i) /\ j \notin after(j)
    BY <1>5
  <2>2. <<after(j), after(i)>> \in R
    BY <2>1 DEF StrictSubsetOrdering
  <2> QED BY <2>2, <1>3, <1>4
<1> QED BY <1>5

LEMMA FirstExists ==
    ASSUME NEW S, IsFiniteSet(S), S # {}, NEW at, \A i \in S : at[i] \in Int
    PROVE  \E i \in S : \A j \in S : at[i] <= at[j]
PROOF
<1> DEFINE back == [i \in S |-> 0 - at[i]]
<1>1. \A i \in S : back[i] \in Int
  OBVIOUS
<1>2. PICK i \in S : \A j \in S : back[j] <= back[i]
  <2> HIDE DEF back
  <2> QED BY <1>1, LastExists
<1> QED BY <1>2

LEMMA NewestType ==
    ASSUME NEW S, IsFiniteSet(S), NEW at, \A i \in S : at[i] \in Int
    PROVE  Newest(S, at) \in S \cup {NoId}
BY LastExists DEF Newest

LEMMA OldestType ==
    ASSUME NEW S, IsFiniteSet(S), S # {}, NEW at, \A i \in S : at[i] \in Int
    PROVE  Oldest(S, at) \in S
BY FirstExists DEF Oldest

(* The "m newest" elements of a finite set are at most m: without the last *)
(* one the bound shrinks by one, and the first of them has all the others  *)
(* after it.                                                               *)
LEMMA NewestAreFew ==
    ASSUME NEW S, IsFiniteSet(S), NEW at, \A i \in S : at[i] \in Int,
           \A i, j \in S : at[i] = at[j] => i = j, NEW m \in Nat
    PROVE  LET K == {i \in S : Cardinality({j \in S : at[j] > at[i]}) < m}
           IN  IsFiniteSet(K) /\ Cardinality(K) <= m
PROOF
<1> DEFINE after(i) == {j \in S : at[j] > at[i]}
           K == {i \in S : Cardinality(after(i)) < m}
<1> SUFFICES IsFiniteSet(K) /\ Cardinality(K) <= m
  OBVIOUS
<1>1. IsFiniteSet(K) /\ Cardinality(K) \in Nat
  <2>1. K \in SUBSET S
    OBVIOUS
  <2> HIDE DEF K
  <2> QED BY <2>1, FS_Subset, FS_CardinalityType
<1>2. CASE K = {}
  <2> HIDE DEF K
  <2> QED BY <1>1, <1>2, FS_EmptySet
<1>3. CASE K # {}
  <2>1. PICK i \in K : \A j \in K : at[i] <= at[j]
    <3> HIDE DEF K
    <3>1. \A j \in K : at[j] \in Int
      BY DEF K
    <3> QED BY <1>1, <1>3, <3>1, FirstExists
  <2>2. K \ {i} \subseteq after(i)
    BY <2>1
  <2>3. IsFiniteSet(after(i)) /\ Cardinality(after(i)) \in Nat
    <3>1. after(i) \in SUBSET S
      OBVIOUS
    <3> HIDE DEF after
    <3> QED BY <3>1, FS_Subset, FS_CardinalityType
  <2>4. Cardinality(K \ {i}) <= Cardinality(after(i))
    <3> HIDE DEF K, after
    <3> QED BY <2>2, <2>3, FS_Subset
  <2>5. Cardinality(K \ {i}) = Cardinality(K) - 1
    <3> HIDE DEF K
    <3> QED BY <2>1, <1>1, FS_RemoveElement
  <2>6. Cardinality(after(i)) < m
    BY <2>1
  <2> HIDE DEF K, after
  <2> QED BY <2>3, <2>4, <2>5, <2>6, <1>1
<1> QED BY <1>1, <1>2, <1>3

-----------------------------------------------------------------------------
(* Type correctness. *)

LEMMA RegisteredFinite ==
    ASSUME TypeOK
    PROVE  /\ IsFiniteSet(registered) /\ Cardinality(registered) \in Nat
           /\ \A S \in SUBSET registered : IsFiniteSet(S)
           /\ IsFiniteSet(ActiveIds) /\ IsFiniteSet(TerminalIds)
BY FS_Subset, FS_CardinalityType, RegistryAssumption
   DEF TypeOK, ServiceTypes, ActiveIds, TerminalIds

(* The indexes that removeLocked leaves behind, and the record it evicts.  *)
LEMMA IndexTypes ==
    ASSUME TypeOK, NEW gone
    PROVE  /\ activeNamesWithout(gone) \in [Name -> Id \cup {NoId}]
           /\ byNameWithout(gone) \in [Name -> Id \cup {NoId}]
           /\ byPIDWithout(gone) \in [Pid -> Id \cup {NoId}]
PROOF
<1>1. ASSUME NEW S \in SUBSET registered
      PROVE  Newest(S, position) \in Id \cup {NoId}
  <2>1. IsFiniteSet(S) /\ \A j \in S : position[j] \in Int
    BY RegisteredFinite DEF TypeOK, ServiceTypes
  <2> QED BY <2>1, NewestType DEF TypeOK, ServiceTypes
<1>2. \A n \in Name : {j \in registered \ gone : name[j] = n} \in SUBSET registered
  OBVIOUS
<1>3. \A p \in Pid : {j \in registered \ gone : info[j].pid = p} \in SUBSET registered
  OBVIOUS
<1> QED BY <1>1, <1>2, <1>3
          DEF TypeOK, ServiceTypes, activeNamesWithout, byNameWithout, byPIDWithout

LEMMA EvictedType ==
    ASSUME TypeOK, Cardinality(registered) >= MaxTracked => TerminalIds # {}
    PROVE  \/ evicted = {} /\ Cardinality(registered) < MaxTracked
           \/ \E o \in TerminalIds : evicted = {o} /\ Cardinality(registered) >= MaxTracked
PROOF
<1>1. \A j \in TerminalIds : position[j] \in Int
  BY DEF TypeOK, ServiceTypes, TerminalIds
<1>2. TerminalIds # {} => Oldest(TerminalIds, position) \in TerminalIds
  BY <1>1, RegisteredFinite, OldestType
<1> QED BY <1>2, RegisteredFinite, RegistryAssumption DEF evicted

LEMMA TypesUnchanged ==
    /\ ControlTypes /\ UNCHANGED control => ControlTypes'
    /\ ServiceTypes /\ UNCHANGED service => ServiceTypes'
    /\ RecordTypes /\ UNCHANGED record => RecordTypes'
    /\ CallTypes /\ UNCHANGED calls => CallTypes'
    /\ StoreTypes /\ UNCHANGED store => StoreTypes'
    /\ OsTypes /\ UNCHANGED os => OsTypes'
    /\ GhostTypes /\ UNCHANGED ghost => GhostTypes'
PROOF
<1>1. ControlTypes /\ UNCHANGED control => ControlTypes'
  BY DEF control, ControlTypes
<1>2. ServiceTypes /\ UNCHANGED service => ServiceTypes'
  BY DEF service, ServiceTypes
<1>3. RecordTypes /\ UNCHANGED record => RecordTypes'
  BY DEF record, RecordTypes
<1>4. CallTypes /\ UNCHANGED calls => CallTypes'
  BY DEF calls, CallTypes
<1>5. StoreTypes /\ UNCHANGED store => StoreTypes'
  BY DEF store, StoreTypes
<1>6. OsTypes /\ UNCHANGED os => OsTypes'
  BY DEF os, OsTypes
<1>7. GhostTypes /\ UNCHANGED ghost => GhostTypes'
  BY DEF ghost, GhostTypes
<1> QED BY <1>1, <1>2, <1>3, <1>4, <1>5, <1>6, <1>7

LEMMA Words ==
    /\ {"STARTING", "RUNNING", "EXITED", "FAILED", "LOST"} = State
    /\ PC = {"unused", "request", "over", "create", "status", "spawn", "saveFailed",
             "settleFailed", "saveRunning", "publish", "killUnsaved", "wait", "drain",
             "saveExited", "settleExited"}
BY DEF State, PC, Launching, Reaping

(* A status is written with a known state and the pid on record. *)
LEMMA WriteTypes ==
    ASSUME StoreTypes, NEW i \in Id, NEW s \in State, NEW p \in Pid \cup {NoPid},
           Write(i, s, p), UNCHANGED torn
    PROVE  StoreTypes'
BY DEF StoreTypes, DiskRecord, Info, Write

LEMMA RecordedPid ==
    ASSUME TypeOK, NEW i \in Id
    PROVE  /\ info[i].pid \in Pid \cup {NoPid} /\ info[i].state \in State
           /\ disk[i].status.pid \in Pid \cup {NoPid} /\ disk[i].status.state \in State
           /\ cpid[i] \in Pid \cup {NoPid}
BY DEF TypeOK, RecordTypes, StoreTypes, OsTypes, Info, DiskRecord

LEMMA SettleTypes ==
    ASSUME TypeOK, NEW i \in Id, NEW s \in State, Settle(i, s)
    PROVE  TypeOK'
PROOF
<1>1. ControlTypes' /\ CallTypes' /\ StoreTypes' /\ OsTypes' /\ GhostTypes'
  BY TypesUnchanged DEF TypeOK, Settle
<1>2. ServiceTypes'
  <2>1. activeNames' \in [Name -> Id \cup {NoId}]
    BY DEF TypeOK, ServiceTypes, Settle
  <2>2. active' \in Int
    BY DEF TypeOK, ServiceTypes, Settle, Released
  <2> QED BY <2>1, <2>2 DEF TypeOK, ServiceTypes, Settle
<1>3. RecordTypes'
  BY DEF TypeOK, RecordTypes, Settle, Info
<1>4. pc' \in [Id -> PC]
  BY Words DEF TypeOK, Settle, Goto
<1> QED BY <1>1, <1>2, <1>3, <1>4 DEF TypeOK

LEMMA PublishTypes ==
    ASSUME TypeOK, NEW i \in Id, Publish(i)
    PROVE  ServiceTypes' /\ RecordTypes'
PROOF
<1>1. ServiceTypes'
  BY DEF TypeOK, ServiceTypes, Publish
<1>2. RecordTypes'
  BY Words, RecordedPid DEF TypeOK, RecordTypes, Publish, Info
<1> QED BY <1>1, <1>2

LEMMA LoseTypes ==
    ASSUME TypeOK, Lose, UNCHANGED <<faults, store, ghost>>
    PROVE  TypeOK'
PROOF
<1>1. ControlTypes' /\ StoreTypes' /\ OsTypes' /\ GhostTypes'
  BY TypesUnchanged DEF TypeOK, Lose, ControlTypes
<1>2. ServiceTypes'
  <2>1. activeNames' \in [Name -> Id \cup {NoId}] /\ byName' \in [Name -> Id \cup {NoId}]
    BY DEF Lose
  <2>2. byPID' \in [Pid -> Id \cup {NoId}]
    BY DEF Lose
  <2>3. position' \in [Id -> Nat]
    BY DEF Lose
  <2>4. closing' \in BOOLEAN
    BY DEF Lose
  <2>5. active' \in Int /\ registered' \in SUBSET Id
    BY DEF Lose
  <2> QED BY <2>1, <2>2, <2>3, <2>4, <2>5 DEF ServiceTypes
<1>3. RecordTypes'
  BY Words DEF TypeOK, RecordTypes, Lose, Info, Blank
<1>4. pc' \in [Id -> PC]
  BY Words DEF TypeOK, Lose
<1>5. CallTypes'
  BY DEF Lose, CallTypes, Idle
<1> QED BY <1>1, <1>2, <1>3, <1>4, <1>5 DEF TypeOK

LEMMA TypeStep == TypeOK /\ [Next]_vars => TypeOK'
PROOF
<1> SUFFICES ASSUME TypeOK, [Next]_vars PROVE TypeOK'
  OBVIOUS
<1> USE TypesUnchanged, Words DEF TypeOK, Goto
<1>1. ASSUME NEW i \in Id, Launch(i) PROVE TypeOK'
  <2>1. ASSUME NEW n \in Name, StartRequest(i, n) PROVE TypeOK'
    BY <2>1 DEF StartRequest, ControlTypes, RecordTypes
  <2>2. CASE RefuseStart(i)
    BY <2>2 DEF RefuseStart
  <2>3. CASE Register(i)
    <3>1. ServiceTypes'
      <4>1. /\ activeNames' \in [Name -> Id \cup {NoId}]
            /\ byName' \in [Name -> Id \cup {NoId}]
            /\ byPID' \in [Pid -> Id \cup {NoId}]
        BY <2>3, IndexTypes DEF Register, Admitted
      <4>2. registered' \in SUBSET Id
        BY <2>3 DEF Register, ServiceTypes
      <4>3. position' \in [Id -> Nat] /\ active' \in Int /\ closing' \in BOOLEAN
        BY <2>3 DEF Register, ServiceTypes, ControlTypes
      <4> QED BY <4>1, <4>2, <4>3 DEF ServiceTypes
    <3>2. ControlTypes' /\ RecordTypes'
      BY <2>3 DEF Register, ControlTypes, RecordTypes, Info, Blank
    <3> QED BY <2>3, <3>1, <3>2 DEF Register
  <2>4. CASE CreateMetadata(i)
    BY <2>4 DEF CreateMetadata, StoreTypes, DiskRecord
  <2>5. CASE CreateStatus(i)
    BY <2>5 DEF CreateStatus, StoreTypes, DiskRecord, Info, Blank
  <2>6. CASE CreateFails(i)
    <3>1. ServiceTypes'
      BY <2>6, IndexTypes DEF CreateFails, ServiceTypes
    <3>2. ControlTypes' /\ StoreTypes' /\ GhostTypes'
      BY <2>6 DEF CreateFails, Fault, ControlTypes, StoreTypes, GhostTypes, DiskRecord, Info,
                  Blank
    <3> QED BY <2>6, <3>1, <3>2 DEF CreateFails
  <2>7. CASE Spawn(i)
    BY <2>7 DEF Spawn, RecordTypes, OsTypes
  <2>8. CASE SpawnFails(i)
    BY <2>8 DEF SpawnFails
  <2>9. CASE SaveFailed(i)
    <3>1. CASE Write(i, "FAILED", info[i].pid) /\ UNCHANGED <<faults, stale>>
      BY <2>9, <3>1, RecordedPid, WriteTypes DEF SaveFailed, ControlTypes, GhostTypes
    <3>2. CASE Fault /\ stale' = stale \cup {i} /\ UNCHANGED disk
      BY <2>9, <3>2 DEF SaveFailed, Fault, ControlTypes, GhostTypes, StoreTypes
    <3> QED BY <2>9, <3>1, <3>2 DEF SaveFailed
  <2>10. CASE SettleFailed(i)
    BY <2>10, SettleTypes DEF SettleFailed
  <2>11. CASE SaveRunning(i)
    BY <2>11, RecordedPid, WriteTypes DEF SaveRunning
  <2>12. CASE SaveRunningFails(i)
    BY <2>12, PublishTypes DEF SaveRunningFails, Fault, ControlTypes
  <2>13. CASE KillUnsaved(i)
    BY <2>13 DEF KillUnsaved, Killed, OsTypes
  <2>14. CASE PublishRunning(i)
    BY <2>14, PublishTypes DEF PublishRunning, CallTypes
  <2>15. CASE StartReply(i)
    BY <2>15, RecordedPid DEF StartReply, CallTypes
  <2> QED BY <1>1, <2>1, <2>2, <2>3, <2>4, <2>5, <2>6, <2>7, <2>8, <2>9, <2>10,
             <2>11, <2>12, <2>13, <2>14, <2>15 DEF Launch
<1>2. ASSUME NEW i \in Id, Finish(i) PROVE TypeOK'
  <2>1. CASE Reap(i)
    BY <2>1 DEF Reap, OsTypes
  <2>2. CASE Drain(i)
    BY <2>2 DEF Drain
  <2>3. CASE SaveExited(i)
    <3>1. CASE Write(i, "EXITED", info[i].pid) /\ UNCHANGED <<faults, stale>>
      BY <2>3, <3>1, RecordedPid, WriteTypes DEF SaveExited, ControlTypes, GhostTypes
    <3>2. CASE Fault /\ stale' = stale \cup {i} /\ UNCHANGED disk
      BY <2>3, <3>2 DEF SaveExited, Fault, ControlTypes, GhostTypes, StoreTypes
    <3> QED BY <2>3, <3>1, <3>2 DEF SaveExited
  <2>4. CASE SettleExited(i)
    BY <2>4, SettleTypes DEF SettleExited
  <2> QED BY <1>2, <2>1, <2>2, <2>3, <2>4 DEF Finish
<1>3. ASSUME NEW i \in Id, History(i) PROVE TypeOK'
  <2>1. CASE DeleteProcess(i)
    <3>1. ServiceTypes'
      BY <2>1, IndexTypes DEF DeleteProcess, ServiceTypes
    <3>2. StoreTypes' /\ GhostTypes'
      BY <2>1 DEF DeleteProcess, StoreTypes, GhostTypes, DiskRecord
    <3> QED BY <2>1, <3>1, <3>2 DEF DeleteProcess
  <2>2. CASE DeleteFails(i)
    BY <2>2 DEF DeleteFails, Fault, ControlTypes, StoreTypes, DiskRecord
  <2>3. CASE ObserveLogs(i) \/ ReleaseLogs(i)
    BY <2>3 DEF ObserveLogs, ReleaseLogs, RecordTypes
  <2> QED BY <1>3, <2>1, <2>2, <2>3 DEF History
<1>4. ASSUME NEW i \in Id, System(i) PROVE TypeOK'
  <2>1. CASE ChildExits(i) \/ InitReaps(i)
    BY <2>1 DEF ChildExits, InitReaps, OsTypes
  <2>2. CASE TearLog(i)
    BY <2>2 DEF TearLog, Fault, ControlTypes, StoreTypes
  <2> QED BY <1>4, <2>1, <2>2 DEF System
<1>5. ASSUME NEW c \in Caller, Signal(c) PROVE TypeOK'
  <2>1. ASSUME NEW i \in Id, SignalLookup(c, i) PROVE TypeOK'
    BY <2>1, RecordedPid DEF SignalLookup, CallTypes
  <2>2. ASSUME NEW wait \in BOOLEAN, SignalDeliver(c, wait) PROVE TypeOK'
    <3>1. CallTypes'
      BY <2>2 DEF SignalDeliver, CallTypes, Idle
    <3>2. GhostTypes'
      BY <2>2 DEF SignalDeliver, GhostTypes
    <3> QED BY <2>2, <3>1, <3>2 DEF SignalDeliver
  <2>3. CASE SignalAbandoned(c) \/ SignalWaited(c)
    BY <2>3 DEF SignalAbandoned, SignalWaited, CallTypes, Idle
  <2> QED BY <1>5, <2>1, <2>2, <2>3 DEF Signal
<1>6. CASE Shutdown
  <2> USE DEF CallTypes
  <2>1. CASE BeginShutdown
    BY <2>1 DEF BeginShutdown, ServiceTypes
  <2>2. CASE ShutdownTerm
    BY <2>2 DEF ShutdownTerm, runningLocked, GhostTypes, Misses, ServiceTypes
  <2>3. CASE ShutdownDrained \/ ShutdownGivesUp
    BY <2>3 DEF ShutdownDrained, ShutdownGivesUp
  <2>4. CASE ShutdownExpires
    BY <2>4 DEF ShutdownExpires, runningLocked, GhostTypes, Misses, ServiceTypes, OsTypes,
                Killed
  <2> QED BY <1>6, <2>1, <2>2, <2>3, <2>4 DEF Shutdown
<1>7. CASE Controller
  <2>1. CASE Exit \/ Crash
    BY <2>1, LoseTypes DEF Exit, Crash
  <2>2. CASE Restart \/ LoadFails \/ MarkLostFails
    <3>1. ControlTypes'
      BY <2>2 DEF Restart, LoadFails, MarkLostFails, ControlTypes, Fault
    <3>2. GhostTypes'
      BY <2>2 DEF Restart, LoadFails, MarkLostFails, GhostTypes, ghost
    <3> QED BY <2>2, <3>1, <3>2 DEF Restart, LoadFails, MarkLostFails
  <2>3. ASSUME NEW i \in Id, MarkLost(i) PROVE TypeOK'
    BY <2>3, RecordedPid, WriteTypes DEF MarkLost
  <2>4. CASE Load
    <3>1. Kept \subseteq Id /\ \A S \in SUBSET Kept : IsFiniteSet(S)
      BY FS_Subset, RegistryAssumption DEF Kept, Loadable
    <3>2. ASSUME NEW S \in SUBSET Kept PROVE Newest(S, created) \in Id \cup {NoId}
      <4>1. \A i \in S : created[i] \in Int
        BY <3>1 DEF RecordTypes
      <4> QED BY <3>1, <4>1, NewestType
    <3>3. byName' \in [Name -> Id \cup {NoId}] /\ byPID' \in [Pid -> Id \cup {NoId}]
      <4>1. \A n \in Name : Newest({i \in Kept : name[i] = n}, created) \in Id \cup {NoId}
        BY <3>2
      <4>2. \A p \in Pid : Newest({i \in Kept : disk[i].status.pid = p}, created)
                               \in Id \cup {NoId}
        BY <3>2
      <4> QED BY <2>4, <4>1, <4>2 DEF Load, byNameLoaded, byPIDLoaded
    <3>4. ServiceTypes'
      BY <2>4, <3>1, <3>3 DEF Load, ServiceTypes, RecordTypes
    <3>5. RecordTypes'
      BY <2>4 DEF Load, RecordTypes, StoreTypes, DiskRecord, Info, Blank
    <3> QED BY <2>4, <3>4, <3>5 DEF Load, ControlTypes
  <2> QED BY <1>7, <2>1, <2>2, <2>3, <2>4 DEF Controller
<1>8. CASE UNCHANGED vars
  BY <1>8 DEF vars
<1> QED BY <1>1, <1>2, <1>3, <1>4, <1>5, <1>6, <1>7, <1>8 DEF Next

LEMMA TypeInit == Init => TypeOK
PROOF
<1> SUFFICES ASSUME Init PROVE TypeOK
  OBVIOUS
<1> USE RegistryAssumption, Words DEF Init
<1>1. ControlTypes /\ pc \in [Id -> PC]
  BY DEF ControlTypes
<1>2. ServiceTypes
  <2>1. activeNames \in [Name -> Id \cup {NoId}] /\ byName \in [Name -> Id \cup {NoId}]
    OBVIOUS
  <2>2. byPID \in [Pid -> Id \cup {NoId}] /\ position \in [Id -> Nat]
    OBVIOUS
  <2>3. closing \in BOOLEAN
    OBVIOUS
  <2>4. active \in Int /\ registered \in SUBSET Id
    OBVIOUS
  <2> HIDE DEF Init
  <2> QED BY <2>1, <2>2, <2>3, <2>4 DEF ServiceTypes
<1>3. RecordTypes /\ StoreTypes
  BY DEF RecordTypes, StoreTypes, Info, DiskRecord, Blank
<1>4. CallTypes /\ OsTypes /\ GhostTypes
  BY DEF CallTypes, OsTypes, GhostTypes, Idle
<1> QED BY <1>1, <1>2, <1>3, <1>4 DEF TypeOK

-----------------------------------------------------------------------------
(* The inductive invariant. *)

LEMMA InvInit == Init => IInv
PROOF
<1> SUFFICES ASSUME Init PROVE IInv
  OBVIOUS
<1>1. TypeOK
  BY TypeInit
<1>2. Offline /\ Children /\ Deletions
  BY DEF Init, Offline, Children, Deletions
<1>3. Stages /\ Times
  BY DEF Init, Stages, Times, Starting, Running, Reaping
<1>4. ActiveNames
  BY DEF Init, ActiveNames, ActiveIds
<1>5. Accounts
  <2>1. ActiveIds = {} /\ registered = {} /\ active = 0
    BY DEF Init, ActiveIds
  <2> QED BY <2>1, FS_EmptySet, RegistryAssumption DEF Accounts
<1> QED BY <1>1, <1>2, <1>3, <1>4, <1>5 DEF IInv

(* What the invariant says of a single record. *)
LEMMA StageFacts ==
    ASSUME IInv, NEW i \in Id
    PROVE  /\ pc[i] \in Starting => i \in ActiveIds /\ info[i].state = "STARTING"
           /\ pc[i] \in Running => i \in ActiveIds /\ info[i].state = "RUNNING"
           /\ i \in ActiveIds => pc[i] \in Starting \cup Running
           /\ i \in TerminalIds => pc[i] \notin Starting \cup Running
                                   /\ pc[i] \notin {"unused", "request"}
           /\ i \in deleted => pc[i] = "over" /\ i \notin registered
BY DEF IInv, Stages, Deletions, ActiveIds, TerminalIds, isActiveState

(* Steps that leave the registry and the goroutines alone. *)
LEMMA QuietStep ==
    ASSUME IInv, TypeOK',
           UNCHANGED <<up, clock, registered, active, activeNames, name, created, info,
                       command, done, pc, disk, deleted>>,
           \A i \in Id : child[i] = "gone" => child'[i] = "gone"
    PROVE  IInv'
PROOF
<1>1. Offline' /\ Stages' /\ Times' /\ Deletions'
  BY DEF IInv, Offline, Stages, Times, Deletions
<1>2. Children'
  BY DEF IInv, Children
<1>3. ActiveNames' /\ Accounts'
  BY DEF IInv, ActiveNames, Accounts, ActiveIds
<1> QED BY <1>1, <1>2, <1>3 DEF IInv

(* Steps of the goroutine of i that stay within a stage. *)
LEMMA ForwardStep ==
    ASSUME IInv, TypeOK', up = "serving", NEW i \in Id, NEW p, Goto(i, p),
           UNCHANGED <<up, clock, registered, active, activeNames, name, created, info,
                       command, done, deleted>>,
           \/ pc[i] = "request" /\ p = "over"
           \/ pc[i] \in Starting /\ p \in Starting
           \/ pc[i] \in Running /\ p \in Running,
           ~command[i] \/ p \notin {"create", "status", "spawn", "saveFailed", "settleFailed"},
           p \in {"drain", "saveExited", "settleExited"} => child'[i] = "gone",
           \A j \in Id : child[j] = "gone" => child'[j] = "gone",
           \A j \in Id \ {i} : disk'[j] = disk[j]
    PROVE  IInv'
PROOF
<1> USE DEF IInv
<1>1. /\ pc' \in [Id -> PC] /\ pc'[i] = p /\ \A j \in Id \ {i} : pc'[j] = pc[j]
      /\ p \notin {"unused", "request"}
  BY DEF TypeOK, Goto, Starting, Running, Reaping
<1>2. pc[i] \notin {"unused", "over"} /\ i \notin deleted /\ ~done[i]
  BY DEF Starting, Running, Reaping, Deletions, Children
<1>3. Offline'
  BY DEF Offline
<1>4. Stages'
  <2>1. registered \subseteq Id
    BY DEF TypeOK, ServiceTypes
  <2>2. /\ \A j \in Id : pc'[j] \in Starting => info'[j].state = "STARTING" /\ j \in registered'
        /\ \A j \in Id : pc'[j] \in Running => info'[j].state = "RUNNING" /\ j \in registered'
    BY <1>1 DEF Stages, Starting, Running, Reaping
  <2>3. \A j \in registered' : isActiveState(info'[j].state) => pc'[j] \in Starting \cup Running
    BY <1>1, <2>1 DEF Stages
  <2>4. \A j \in Id : pc'[j] \in {"unused", "request"} =>
           j \notin registered' /\ disk'[j].stage = "none" /\ ~done'[j] /\ ~command'[j]
    BY <1>1 DEF Stages
  <2> QED BY <2>2, <2>3, <2>4 DEF Stages
<1>5. Children'
  BY <1>1, <1>2 DEF Children
<1>6. Times'
  BY <1>1, <1>2 DEF Times
<1>7. Deletions'
  BY <1>1, <1>2 DEF Deletions, TypeOK, GhostTypes
<1>8. ActiveNames' /\ Accounts'
  BY DEF ActiveNames, Accounts, ActiveIds
<1> QED BY <1>3, <1>4, <1>5, <1>6, <1>7, <1>8

LEMMA StartRequestStep ==
    ASSUME IInv, TypeOK', NEW i \in Id, NEW n \in Name, StartRequest(i, n)
    PROVE  IInv'
PROOF
<1> USE DEF IInv, StartRequest, service, record, store, os, ghost, Goto, Serving
<1>1. /\ pc[i] = "unused" /\ pc'[i] = "request" /\ \A j \in Id \ {i} : pc'[j] = pc[j]
      /\ i \notin registered /\ i \notin ActiveIds
  BY DEF TypeOK, Stages, ActiveIds
<1>2. name'[i] = n /\ \A j \in Id \ {i} : name'[j] = name[j] /\ created'[j] = created[j]
  BY DEF TypeOK, RecordTypes
<1>3. created'[i] = clock + 1 /\ clock' = clock + 1 /\ clock \in Nat
      /\ \A j \in Id : created[j] \in Nat
  BY DEF TypeOK, RecordTypes, ControlTypes
<1>4. Offline' /\ Deletions'
  BY <1>1 DEF Offline, Deletions
<1>5. Stages' /\ Children'
  BY <1>1 DEF Stages, Children, Starting, Running, Reaping
<1>6. Times'
  BY <1>1, <1>2, <1>3 DEF Times
<1>7. ActiveIds' = ActiveIds
  BY DEF ActiveIds
<1>8. ActiveNames'
  <2>1. \A j \in ActiveIds : name'[j] = name[j] /\ j # i /\ j \in Id
    BY <1>1, <1>2 DEF ActiveIds, TypeOK, ServiceTypes
  <2> QED BY <1>7, <2>1 DEF ActiveNames
<1>9. Accounts'
  BY <1>7 DEF Accounts
<1> QED BY <1>4, <1>5, <1>6, <1>8, <1>9

LEMMA RegisterStep ==
    ASSUME IInv, TypeOK', NEW i \in Id, Register(i)
    PROVE  IInv'
PROOF
<1> USE DEF IInv, Register, Admitted, record, store, os, ghost, Goto, Serving
<1>1. /\ pc[i] = "request" /\ pc'[i] = "create" /\ \A j \in Id \ {i} : pc'[j] = pc[j]
      /\ i \notin registered /\ i \notin ActiveIds
  BY DEF TypeOK, Stages, ActiveIds
<1>2. info'[i].state = "STARTING" /\ \A j \in Id \ {i} : info'[j] = info[j]
  BY DEF TypeOK, RecordTypes, Info, Blank
<1>3. evicted \subseteq TerminalIds
  BY EvictedType
<1>4. ActiveIds' = ActiveIds \cup {i}
  BY <1>1, <1>2, <1>3 DEF ActiveIds, TerminalIds, isActiveState, TypeOK, ServiceTypes
<1>5. Offline' /\ Deletions'
  BY <1>1 DEF Offline, Deletions
<1>6. Stages'
  <2>1. \A j \in evicted : pc[j] \notin Starting \cup Running /\ j \in Id
    BY <1>3, StageFacts DEF TerminalIds, TypeOK, ServiceTypes
  <2> QED BY <1>1, <1>2, <2>1 DEF Stages, Starting, Running, Reaping, isActiveState
<1>7. Children'
  BY <1>1 DEF Children, Stages
<1>8. Times'
  BY <1>1 DEF Times, TypeOK, ControlTypes, RecordTypes
<1>9. ActiveNames'
  <2>1. activeNamesWithout(evicted) = activeNames
    <3>1. \A n \in Name : activeNames[n] \notin evicted
      BY <1>3, RegistryAssumption DEF ActiveNames, TerminalIds, TypeOK, ServiceTypes
    <3> QED BY <3>1 DEF activeNamesWithout, TypeOK, ServiceTypes
  <2>2. activeNames'[name[i]] = i /\ \A n \in Name \ {name[i]} : activeNames'[n] = activeNames[n]
    BY <2>1 DEF TypeOK, ServiceTypes, RecordTypes
  <2>3. ActiveIds \subseteq Id /\ \A j \in ActiveIds : name[j] # name[i]
    BY RegistryAssumption DEF ActiveNames, ActiveIds, TypeOK, ServiceTypes
  <2>4. \A j \in Id : name[j] \in Name
    BY DEF TypeOK, RecordTypes
  <2>5. name' = name
    OBVIOUS
  <2> HIDE DEF Register
  <2> QED BY <1>4, <2>2, <2>3, <2>4, <2>5 DEF ActiveNames
<1>10. Accounts'
  <2>1. Cardinality(ActiveIds') = Cardinality(ActiveIds) + 1
    BY <1>1, <1>4, FS_AddElement, RegisteredFinite
  <2>2. Cardinality(registered') <= MaxTracked
    <3>1. CASE evicted = {} /\ Cardinality(registered) < MaxTracked
      <4>1. registered' = registered \cup {i}
        BY <3>1
      <4>2. Cardinality(registered') = Cardinality(registered) + 1
        BY <4>1, <1>1, FS_AddElement, RegisteredFinite
      <4> QED BY <3>1, <4>2, RegisteredFinite, RegistryAssumption
    <3>2. ASSUME NEW o \in TerminalIds, evicted = {o} PROVE Cardinality(registered') <= MaxTracked
      <4>1. registered' = (registered \ {o}) \cup {i} /\ o \in registered
        BY <3>2 DEF TerminalIds
      <4>2. IsFiniteSet(registered \ {o})
            /\ Cardinality(registered \ {o}) = Cardinality(registered) - 1
        BY <4>1, FS_RemoveElement, RegisteredFinite
      <4>3. Cardinality(registered') = Cardinality(registered)
        <5>1. Cardinality(registered') = Cardinality(registered \ {o}) + 1
          BY <4>1, <4>2, <1>1, FS_AddElement
        <5> QED BY <4>2, <5>1, RegisteredFinite
      <4> QED BY <4>3 DEF Accounts
    <3> QED BY <3>1, <3>2, EvictedType
  <2>3. active' <= MaxProcesses
    BY RegistryAssumption DEF TypeOK, ServiceTypes
  <2> QED BY <2>1, <2>2, <2>3 DEF Accounts
<1> QED BY <1>5, <1>6, <1>7, <1>8, <1>9, <1>10

(* Taking an active or a terminal record out of the registry. *)
LEMMA RemovedNames ==
    ASSUME TypeOK, ActiveNames, NEW i \in Id,
           name' = name, ActiveIds' = ActiveIds \ {i},
           \A n \in Name : activeNames'[n] = IF activeNames[n] = i THEN NoId ELSE activeNames[n]
    PROVE  ActiveNames'
PROOF
<1>1. ActiveIds \subseteq Id /\ \A j \in Id : name[j] \in Name
  BY DEF ActiveIds, TypeOK, ServiceTypes, RecordTypes
<1> QED BY <1>1, RegistryAssumption DEF ActiveNames

LEMMA CreateFailsStep ==
    ASSUME IInv, TypeOK', NEW i \in Id, CreateFails(i)
    PROVE  IInv'
PROOF
<1> USE DEF IInv, CreateFails, record, Goto, Serving
<1>1. /\ pc[i] \in {"create", "status"} /\ pc'[i] = "over" /\ \A j \in Id \ {i} : pc'[j] = pc[j]
      /\ i \in ActiveIds /\ i \in registered /\ ~done[i] /\ i \notin deleted
  BY StageFacts DEF TypeOK, Stages, ActiveIds, Starting, Children
<1>2. ActiveIds' = ActiveIds \ {i}
  BY DEF ActiveIds
<1>3. \A j \in Id \ {i} : disk'[j] = disk[j]
  BY DEF TypeOK, StoreTypes
<1>4. Offline' /\ Deletions' /\ Times'
  BY <1>1, <1>3 DEF Offline, Deletions, Times
<1>5. Stages'
  BY <1>1, <1>3 DEF Stages, Starting, Running, Reaping
<1>6. Children'
  BY <1>1 DEF Children, os
<1>7. ActiveNames'
  BY <1>2, RemovedNames DEF activeNamesWithout, TypeOK, ServiceTypes
<1>8. Accounts'
  <2>1. Cardinality(ActiveIds') = Cardinality(ActiveIds) - 1
    BY <1>1, <1>2, FS_RemoveElement, RegisteredFinite
  <2>2. Cardinality(registered') = Cardinality(registered) - 1
    BY <1>1, FS_RemoveElement, RegisteredFinite
  <2> QED BY <2>1, <2>2, RegisteredFinite, RegistryAssumption
             DEF Accounts, TypeOK, ServiceTypes
<1> QED BY <1>4, <1>5, <1>6, <1>7, <1>8

LEMMA SpawnStep ==
    ASSUME IInv, TypeOK', NEW i \in Id, Spawn(i)
    PROVE  IInv'
PROOF
<1> USE DEF IInv, Spawn, control, service, store, ghost, Goto, Serving
<1>1. /\ pc[i] = "spawn" /\ pc'[i] = "saveRunning" /\ \A j \in Id \ {i} : pc'[j] = pc[j]
      /\ i \in ActiveIds /\ ~done[i] /\ i \notin deleted
  BY StageFacts DEF TypeOK, Starting, Children
<1>2. \A j \in Id \ {i} : child'[j] = child[j] /\ command'[j] = command[j]
  BY DEF TypeOK, OsTypes, RecordTypes
<1>3. Offline' /\ Deletions' /\ Times'
  BY <1>1 DEF Offline, Deletions, Times
<1>4. Stages'
  BY <1>1, <1>2 DEF Stages, Starting, Running, Reaping
<1>5. Children'
  BY <1>1, <1>2 DEF Children
<1>6. ActiveNames' /\ Accounts'
  BY DEF ActiveNames, Accounts, ActiveIds
<1> QED BY <1>3, <1>4, <1>5, <1>6

(* A started child becomes visible as RUNNING. *)
LEMMA PublishStep ==
    ASSUME IInv, TypeOK', up = "serving", NEW i \in Id, NEW p \in {"killUnsaved", "wait"},
           pc[i] \in {"saveRunning", "publish"}, Publish(i), Goto(i, p),
           UNCHANGED <<up, clock, disk, os, deleted>>
    PROVE  IInv'
PROOF
<1> USE DEF IInv, Publish, os, Goto
<1>1. /\ pc'[i] = p /\ \A j \in Id \ {i} : pc'[j] = pc[j]
      /\ i \in ActiveIds /\ ~done[i] /\ i \notin deleted
  BY StageFacts DEF TypeOK, Starting, Children
<1>2. info'[i].state = "RUNNING" /\ \A j \in Id \ {i} : info'[j] = info[j]
  BY DEF TypeOK, RecordTypes, Info
<1>3. Offline' /\ Deletions' /\ Times'
  BY <1>1 DEF Offline, Deletions, Times
<1>4. Stages'
  BY <1>1, <1>2 DEF Stages, ActiveIds, Starting, Running, Reaping, isActiveState
<1>5. Children'
  BY <1>1 DEF Children
<1>6. ActiveIds' = ActiveIds
  BY <1>1, <1>2 DEF ActiveIds, isActiveState, TypeOK, ServiceTypes
<1>7. ActiveNames' /\ Accounts'
  BY <1>6 DEF ActiveNames, Accounts
<1> QED BY <1>3, <1>4, <1>5, <1>7

LEMMA SettleStep ==
    ASSUME IInv, TypeOK', up = "serving", NEW i \in Id, NEW s \in {"FAILED", "EXITED"},
           pc[i] \in {"settleFailed", "settleExited"}, Settle(i, s)
    PROVE  IInv'
PROOF
<1> USE DEF IInv, Settle, Released, control, store, os, ghost, Goto
<1>1. /\ pc'[i] = "over" /\ \A j \in Id \ {i} : pc'[j] = pc[j]
      /\ i \in ActiveIds /\ i \in registered /\ i \notin deleted
      /\ command[i] => child[i] = "gone"
  BY StageFacts DEF TypeOK, Starting, Running, Reaping, Children, ActiveIds
<1>2. info'[i].state = s /\ \A j \in Id \ {i} : info'[j] = info[j]
  BY DEF TypeOK, RecordTypes, Info
<1>3. done'[i] /\ \A j \in Id \ {i} : done'[j] = done[j]
  BY DEF TypeOK, RecordTypes
<1>4. Offline' /\ Deletions' /\ Times'
  BY <1>1 DEF Offline, Deletions, Times
<1>5. Stages'
  BY <1>1, <1>2, <1>3 DEF Stages, Starting, Running, Reaping, isActiveState
<1>6. Children'
  BY <1>1, <1>3 DEF Children
<1>7. ActiveIds' = ActiveIds \ {i}
  BY <1>1, <1>2 DEF ActiveIds, isActiveState, TypeOK, ServiceTypes
<1>8. ActiveNames'
  <2>1. name[i] \in Name /\ activeNames[name[i]] = i
        /\ \A n \in Name : activeNames[n] = i => n = name[i]
    BY <1>1, RegistryAssumption DEF ActiveNames, TypeOK, RecordTypes
  <2>2. \A n \in Name : activeNames'[n] = IF activeNames[n] = i THEN NoId ELSE activeNames[n]
    BY <2>1 DEF TypeOK, ServiceTypes
  <2> QED BY <1>7, <2>2, RemovedNames
<1>9. Accounts'
  <2>1. Cardinality(ActiveIds') = Cardinality(ActiveIds) - 1 /\ Cardinality(ActiveIds) > 0
    <3>1. IsFiniteSet(ActiveIds) /\ Cardinality(ActiveIds) \in Nat /\ Cardinality(ActiveIds) # 0
      BY <1>1, FS_EmptySet, FS_CardinalityType, RegisteredFinite
    <3>2. Cardinality(ActiveIds') = Cardinality(ActiveIds) - 1
      BY <3>1, <1>1, <1>7, FS_RemoveElement
    <3> QED BY <3>1, <3>2
  <2> QED BY <2>1, RegistryAssumption DEF Accounts, TypeOK, ServiceTypes
<1> QED BY <1>4, <1>5, <1>6, <1>8, <1>9

LEMMA DeleteStep ==
    ASSUME IInv, TypeOK', NEW i \in Id, DeleteProcess(i)
    PROVE  IInv'
PROOF
<1> USE DEF IInv, DeleteProcess, Deletable, control, record, os, Serving
<1>1. /\ pc[i] \notin Starting \cup Running /\ pc[i] = "over" /\ i \in registered
      /\ i \notin ActiveIds
  BY StageFacts DEF TypeOK, PC, Launching, Reaping, Starting, Running, TerminalIds
<1>2. disk'[i].stage = "none" /\ \A j \in Id \ {i} : disk'[j] = disk[j]
  BY DEF TypeOK, StoreTypes, DiskRecord
<1>3. Offline' /\ Times' /\ Children'
  BY DEF Offline, Times, Children
<1>4. Deletions'
  BY <1>1, <1>2 DEF Deletions
<1>5. Stages'
  BY <1>1, <1>2 DEF Stages
<1>6. ActiveIds' = ActiveIds \ {i}
  BY DEF ActiveIds
<1>7. ActiveNames'
  BY <1>6, RemovedNames DEF activeNamesWithout, TypeOK, ServiceTypes
<1>8. Accounts'
  <2>1. ActiveIds' = ActiveIds
    BY <1>1, <1>6
  <2>2. Cardinality(registered') = Cardinality(registered) - 1
    BY <1>1, FS_RemoveElement, RegisteredFinite
  <2> QED BY <2>1, <2>2, RegisteredFinite, RegistryAssumption
             DEF Accounts, TypeOK, ServiceTypes
<1> QED BY <1>3, <1>4, <1>5, <1>7, <1>8

(* A failed removal takes files away from a registered record only. *)
LEMMA DeleteFailsStep ==
    ASSUME IInv, TypeOK', NEW i \in Id, DeleteFails(i)
    PROVE  IInv'
PROOF
<1> USE DEF IInv, DeleteFails, Deletable, Fault, service, record, os, ghost
<1>1. \A j \in Id \ {i} : disk'[j] = disk[j]
  BY DEF TypeOK, StoreTypes
<1>2. pc[i] \notin {"unused", "request"} /\ i \notin deleted
  BY StageFacts DEF TerminalIds
<1>3. Offline' /\ Times' /\ Children'
  BY DEF Offline, Times, Children
<1>4. Stages' /\ Deletions'
  BY <1>1, <1>2 DEF Stages, Deletions
<1>5. ActiveNames' /\ Accounts'
  BY DEF ActiveNames, Accounts, ActiveIds
<1> QED BY <1>3, <1>4, <1>5

LEMMA LoseStep ==
    ASSUME IInv, TypeOK', Lose, UNCHANGED <<faults, store, ghost>>
    PROVE  IInv'
PROOF
<1> USE DEF IInv, Lose, store, ghost, os
<1>1. \A i \in Id : pc'[i] = IF pc[i] = "unused" THEN "unused" ELSE "over"
  OBVIOUS
<1>2. \A i \in Id : ~done'[i] /\ ~command'[i]
  OBVIOUS
<1>3. registered' = {} /\ active' = 0 /\ ActiveIds' = {}
  BY DEF ActiveIds
<1>4. Offline'
  BY <1>1, <1>2, <1>3 DEF Offline
<1>5. Stages'
  BY <1>1, <1>2, <1>3 DEF Stages, Starting, Running, Reaping
<1>6. Children'
  BY <1>1, <1>2 DEF Children
<1>7. Times'
  BY <1>1 DEF Times
<1>8. Deletions'
  BY <1>1, <1>3 DEF Deletions, TypeOK, GhostTypes
<1>9. ActiveNames'
  BY <1>3 DEF ActiveNames
<1>10. Accounts'
  BY <1>3, FS_EmptySet, RegistryAssumption DEF Accounts
<1> QED BY <1>4, <1>5, <1>6, <1>7, <1>8, <1>9, <1>10

(* Steps of the controller while it starts, other than the last of them. *)
LEMMA BootStep ==
    ASSUME IInv, TypeOK', up # "serving", up' # "serving",
           UNCHANGED <<clock, service, record, pc, os, deleted>>,
           \A i \in Id : disk'[i].stage = disk[i].stage
    PROVE  IInv'
PROOF
<1> USE DEF IInv, service, record, os
<1>1. Offline' /\ Children' /\ Times'
  BY DEF Offline, Children, Times
<1>2. Stages' /\ Deletions'
  BY DEF Stages, Deletions, TypeOK, GhostTypes
<1>3. ActiveNames' /\ Accounts'
  BY DEF ActiveNames, Accounts, ActiveIds
<1> QED BY <1>1, <1>2, <1>3

LEMMA LoadStep ==
    ASSUME IInv, TypeOK', Load
    PROVE  IInv'
PROOF
<1> USE DEF IInv, Load, LoadDone, store, ghost, os
<1>1. up = "loading" /\ Offline /\ \A i \in Id : pc[i] \in {"unused", "over"} /\ ~command[i]
  BY DEF Offline
<1>2. Kept \subseteq Loadable /\ Loadable \subseteq Id
  BY DEF Kept, Loadable
<1>3. \A i \in Loadable : pc[i] = "over" /\ i \notin deleted /\ ~isActiveState(disk[i].status.state)
  BY <1>1, <1>2 DEF Stages, Deletions, Loadable
<1>4. \A i \in Id : done'[i] = (i \in Kept) /\ (i \in Kept => info'[i] = disk[i].status)
  OBVIOUS
<1>5. ActiveIds' = {}
  BY <1>2, <1>3, <1>4 DEF ActiveIds
<1>6. Offline' /\ Times' /\ Deletions'
  BY <1>2, <1>3 DEF Offline, Times, Deletions
<1>7. Stages'
  BY <1>1, <1>2, <1>3, <1>4 DEF Stages, Starting, Running, Reaping
<1>8. Children'
  BY <1>1, <1>2, <1>3, <1>4 DEF Children
<1>9. ActiveNames'
  BY <1>1, <1>5 DEF ActiveNames, Offline
<1>10. Accounts'
  <2>1. active' = 0 /\ Cardinality(ActiveIds') = 0
    BY <1>1, <1>5, FS_EmptySet DEF Offline
  <2>2. \A i, j \in Loadable : created[i] = created[j] => i = j
    BY <1>2, <1>3 DEF Times
  <2>3. Cardinality(Kept) <= MaxTracked
    <3>1. IsFiniteSet(Loadable)
      BY <1>2, FS_Subset, RegistryAssumption
    <3>2. \A i \in Loadable : created[i] \in Int
      BY <1>2 DEF TypeOK, RecordTypes
    <3> QED BY <2>2, <3>1, <3>2, NewestAreFew, RegistryAssumption DEF Kept
  <2> QED BY <2>1, <2>3, RegistryAssumption DEF Accounts
<1> QED BY <1>6, <1>7, <1>8, <1>9, <1>10

LEMMA InvStep == IInv /\ [Next]_vars => IInv'
PROOF
<1> SUFFICES ASSUME IInv, [Next]_vars PROVE IInv'
  OBVIOUS
<1>0. TypeOK /\ TypeOK'
  BY TypeStep DEF IInv
<1> USE <1>0 DEF Serving
<1>1. ASSUME NEW i \in Id, Launch(i) PROVE IInv'
  <2>1. ASSUME NEW n \in Name, StartRequest(i, n) PROVE IInv'
    BY <2>1, StartRequestStep
  <2>2. CASE Register(i)
    BY <2>2, RegisterStep
  <2>3. CASE RefuseStart(i) \/ CreateMetadata(i) \/ CreateStatus(i) \/ SpawnFails(i)
    <3>1. \A j \in Id \ {i} : disk'[j] = disk[j]
      BY <2>3 DEF RefuseStart, CreateMetadata, CreateStatus, SpawnFails, store,
                  TypeOK, StoreTypes
    <3>2. PICK p : /\ Goto(i, p)
                   /\ \/ pc[i] = "request" /\ p = "over"
                      \/ /\ pc[i] \in {"create", "status", "spawn"}
                         /\ p \in {"status", "spawn", "saveFailed"}
      BY <2>3 DEF RefuseStart, CreateMetadata, CreateStatus, SpawnFails
    <3>3. ~command[i]
      BY <3>2 DEF IInv, Children, Stages
    <3>4. /\ \/ pc[i] = "request" /\ p = "over"
             \/ pc[i] \in Starting /\ p \in Starting
          /\ p \notin {"drain", "saveExited", "settleExited"}
      BY <3>2 DEF Starting
    <3>5. up = "serving" /\ UNCHANGED <<control, service, record, os, ghost>>
      BY <2>3 DEF RefuseStart, CreateMetadata, CreateStatus, SpawnFails
    <3> QED BY <3>1, <3>2, <3>3, <3>4, <3>5, ForwardStep
            DEF control, service, record, os, ghost
  <2>4. CASE CreateFails(i)
    BY <2>4, CreateFailsStep
  <2>5. CASE Spawn(i)
    BY <2>5, SpawnStep
  <2>6. CASE SaveFailed(i)
    <3>1. \A j \in Id \ {i} : disk'[j] = disk[j]
      BY <2>6 DEF SaveFailed, Write, TypeOK, StoreTypes
    <3>2. ~command[i] /\ pc[i] \in Starting /\ "settleFailed" \in Starting
      BY <2>6 DEF SaveFailed, IInv, Children, Starting
    <3>3. /\ up = "serving" /\ Goto(i, "settleFailed")
          /\ UNCHANGED <<up, clock, service, record, os, deleted>>
      BY <2>6 DEF SaveFailed
    <3> QED BY <3>1, <3>2, <3>3, ForwardStep DEF service, record, os
  <2>7. CASE SettleFailed(i)
    BY <2>7, SettleStep DEF SettleFailed
  <2>8. CASE SaveRunning(i)
    <3>1. \A j \in Id \ {i} : disk'[j] = disk[j]
      BY <2>8 DEF SaveRunning, Write, TypeOK, StoreTypes
    <3>2. pc[i] \in Starting /\ "publish" \in Starting
      BY <2>8 DEF SaveRunning, Starting
    <3>3. /\ up = "serving" /\ Goto(i, "publish")
          /\ UNCHANGED <<control, service, record, os, ghost>>
      BY <2>8 DEF SaveRunning
    <3> QED BY <3>1, <3>2, <3>3, ForwardStep DEF control, service, record, os, ghost
  <2>9. CASE SaveRunningFails(i) \/ PublishRunning(i)
    <3>1. PICK p \in {"killUnsaved", "wait"} :
            /\ Goto(i, p) /\ Publish(i) /\ pc[i] \in {"saveRunning", "publish"}
            /\ UNCHANGED <<up, clock, store, os, ghost>> /\ up = "serving"
      BY <2>9 DEF SaveRunningFails, PublishRunning, control
    <3> QED BY <3>1, PublishStep DEF store, ghost
  <2>10. CASE KillUnsaved(i)
    <3>1. \A j \in Id : child[j] = "gone" => child'[j] = "gone"
      BY <2>10 DEF KillUnsaved, Killed
    <3>2. pc[i] \in Running /\ "wait" \in Running
      BY <2>10 DEF KillUnsaved, Running, Reaping
    <3>3. /\ up = "serving" /\ Goto(i, "wait")
          /\ UNCHANGED <<control, service, record, store, ghost>>
      BY <2>10 DEF KillUnsaved
    <3> QED BY <3>1, <3>2, <3>3, ForwardStep DEF control, service, record, store, ghost
  <2>11. CASE StartReply(i)
    BY <2>11, QuietStep DEF StartReply, control, service, record, store, os, ghost
  <2> QED BY <1>1, <2>1, <2>2, <2>3, <2>4, <2>5, <2>6, <2>7, <2>8, <2>9, <2>10,
             <2>11 DEF Launch
<1>2. ASSUME NEW i \in Id, Finish(i) PROVE IInv'
  <2>1. CASE Reap(i) \/ Drain(i)
    <3>1. PICK p \in {"drain", "saveExited"} :
            /\ Goto(i, p) /\ pc[i] \in {"wait", "drain"} /\ up = "serving"
            /\ UNCHANGED <<control, service, record, store, ghost>>
      BY <2>1 DEF Reap, Drain
    <3>2. child'[i] = "gone" /\ \A j \in Id : child[j] = "gone" => child'[j] = "gone"
      BY <2>1 DEF Reap, Drain, IInv, Children, TypeOK, OsTypes, os
    <3>3. pc[i] \in Running /\ p \in Running
      BY <3>1 DEF Running, Reaping
    <3> QED BY <3>1, <3>2, <3>3, ForwardStep DEF control, service, record, store, ghost
  <2>2. CASE SaveExited(i)
    <3>1. \A j \in Id \ {i} : disk'[j] = disk[j]
      BY <2>2 DEF SaveExited, Write, TypeOK, StoreTypes
    <3>2. /\ pc[i] \in Running /\ "settleExited" \in Running /\ child[i] = "gone"
      BY <2>2 DEF SaveExited, IInv, Children, Running, Reaping
    <3>3. /\ up = "serving" /\ Goto(i, "settleExited")
          /\ UNCHANGED <<up, clock, service, record, os, deleted>>
      BY <2>2 DEF SaveExited
    <3> QED BY <3>1, <3>2, <3>3, ForwardStep DEF service, record, os
  <2>3. CASE SettleExited(i)
    BY <2>3, SettleStep DEF SettleExited
  <2> QED BY <1>2, <2>1, <2>2, <2>3 DEF Finish
<1>3. ASSUME NEW i \in Id, History(i) PROVE IInv'
  <2>1. CASE ObserveLogs(i) \/ ReleaseLogs(i)
    BY <2>1, QuietStep DEF ObserveLogs, ReleaseLogs, control, service, store, os, ghost
  <2> QED BY <1>3, <2>1, DeleteStep, DeleteFailsStep DEF History
<1>4. ASSUME NEW i \in Id, System(i) PROVE IInv'
  <2>1. CASE ChildExits(i) \/ InitReaps(i)
    <3>1. \A j \in Id : child[j] = "gone" => child'[j] = "gone"
      BY <2>1 DEF ChildExits, InitReaps, TypeOK, OsTypes
    <3> QED BY <2>1, <3>1, QuietStep
            DEF ChildExits, InitReaps, control, service, record, store, ghost
  <2>2. CASE TearLog(i)
    BY <2>2, QuietStep DEF TearLog, service, record, os, ghost
  <2> QED BY <1>4, <2>1, <2>2 DEF System
<1>5. ASSUME NEW c \in Caller, Signal(c) PROVE IInv'
  <2>1. UNCHANGED <<control, service, record, pc, store, os, deleted>>
    BY <1>5 DEF Signal, SignalLookup, SignalDeliver, SignalAbandoned, SignalWaited, ghost
  <2> QED BY <2>1, QuietStep DEF control, service, record, store, os
<1>6. CASE Shutdown
  <2>1. /\ UNCHANGED <<control, active, registered, activeNames, record, pc, store, deleted>>
        /\ \A j \in Id : child[j] = "gone" => child'[j] = "gone"
    BY <1>6 DEF Shutdown, BeginShutdown, ShutdownTerm, ShutdownDrained, ShutdownExpires,
                ShutdownGivesUp, Killed, service, os, ghost
  <2> QED BY <2>1, QuietStep DEF control, record, store
<1>7. CASE Controller
  <2>1. CASE Exit \/ Crash
    BY <2>1, LoseStep DEF Exit, Crash
  <2>2. CASE Restart \/ LoadFails \/ MarkLostFails
    <3>1. UNCHANGED <<clock, service, record, pc, store, os, deleted>>
      BY <2>2 DEF Restart, LoadFails, MarkLostFails, ghost
    <3>2. up # "serving" /\ up' # "serving"
      BY <2>2 DEF Restart, LoadFails, LoadDone, MarkLostFails
    <3> QED BY <3>1, <3>2, BootStep DEF store
  <2>3. ASSUME NEW i \in Id, MarkLost(i) PROVE IInv'
    <3>1. \A j \in Id : disk'[j].stage = disk[j].stage
      BY <2>3 DEF MarkLost, Write, TypeOK, StoreTypes, DiskRecord
    <3>2. up # "serving" /\ UNCHANGED <<control, service, record, pc, os, ghost>>
      BY <2>3 DEF MarkLost
    <3> QED BY <3>1, <3>2, BootStep DEF control, ghost
  <2>4. CASE Load
    BY <2>4, LoadStep
  <2> QED BY <1>7, <2>1, <2>2, <2>3, <2>4 DEF Controller
<1>8. CASE UNCHANGED vars
  BY <1>8, QuietStep DEF vars, control, service, record, store, os, ghost
<1> QED BY <1>1, <1>2, <1>3, <1>4, <1>5, <1>6, <1>7, <1>8 DEF Next

-----------------------------------------------------------------------------
(* The theorems. *)

(* The conjunction of TypeOK and the links between the program counters,   *)
(* the registry, the disk and the children holds in every reachable state. *)
THEOREM Inductive == Spec => []IInv
BY InvInit, InvStep, PTL DEF Spec

(* Every variable keeps its type, with any number of UUIDs, names, pids,   *)
(* callers, boots and faults.                                              *)
THEOREM TypeCorrect == Spec => []TypeOK
<1>1. IInv => TypeOK
  BY DEF IInv
<1> QED BY <1>1, Inductive, PTL

(* The active counter never drifts: it is the number of STARTING and       *)
(* RUNNING records and stays within MaxProcesses.                          *)
THEOREM SlotsAccounted == Spec => []ActiveCount
<1>1. IInv => ActiveCount
  BY DEF IInv, Accounts, ActiveCount
<1> QED BY <1>1, Inductive, PTL

(* A name is reserved exactly while one active record carries it.          *)
THEOREM NamesReserved == Spec => []ActiveNames
<1>1. IInv => ActiveNames
  BY DEF IInv
<1> QED BY <1>1, Inductive, PTL

(* The index never exceeds MaxTracked and, while a slot is free, always    *)
(* holds a terminal record to evict: only MaxProcesses <= MaxTracked is    *)
(* used, which config.Normalize and New enforce.                           *)
THEOREM RoomInHistory == Spec => []HistoryMakesRoom
<1>1. ASSUME IInv PROVE HistoryMakesRoom
  <2>1. TerminalIds = {} => registered = ActiveIds
    BY DEF TerminalIds, ActiveIds
  <2> QED BY <1>1, <2>1, RegistryAssumption DEF IInv, Accounts, HistoryMakesRoom,
             TypeOK, ServiceTypes
<1> QED BY <1>1, Inductive, PTL

(* Slots, names and places in the history balance: together, the results   *)
(* above.                                                                  *)
THEOREM SlotsAndNamesBalance == Spec => []SlotsAndNames
BY TypeCorrect, SlotsAccounted, NamesReserved, RoomInHistory, PTL DEF SlotsAndNames

(* No writer that was still on its way and no restart brings a deleted     *)
(* record back.                                                            *)
THEOREM DeletionsAreFinal == Spec => []DeletedForGood
<1>1. IInv => DeletedForGood
  BY DEF IInv, Deletions, DeletedForGood
<1> QED BY <1>1, Inductive, PTL

(* done implies that the child was collected, so that whoever waits for it *)
(* never continues beside a live child.                                    *)
THEOREM DoneMeansReaped == Spec => []DoneIsReaped
<1>1. IInv => DoneIsReaped
  BY DEF IInv, Children, DoneIsReaped
<1> QED BY <1>1, Inductive, PTL

-----------------------------------------------------------------------------
(***************************************************************************)
(* How a process ends, for every value of the constants: what was seen as  *)
(* terminal is what the disk holds, the indexes lead to the record a       *)
(* caller means, Shutdown leaves no child and no record behind, states     *)
(* follow the transitions of the requirements, and an observed log keeps   *)
(* its directory.                                                          *)
(*                                                                         *)
(* OInv adds to the invariant above what each stage of a record's          *)
(* goroutine knows of the status on disk, of the child and its pid, of the *)
(* order of registration, and what each phase of Shutdown has already      *)
(* excluded.                                                               *)
(***************************************************************************)
Unreaped  == {"alive", "zombie"}
Childless == {"unused", "request", "create", "status", "spawn", "saveFailed", "settleFailed"}
Started   == {"saveRunning", "publish"} \cup Running
Ended     == {"clean", "forced", "abandoned"}

(* The status on disk follows the goroutine of the record, and a write     *)
(* that failed is remembered in stale.                                     *)
OnDisk ==
    /\ \A i \in Id : pc[i] \in {"create", "status"} => disk[i].stage # "full"
    /\ \A i \in Id : pc[i] \in {"spawn", "saveFailed", "saveRunning"} =>
           disk[i].status.state = "STARTING"
    /\ \A i \in Id : pc[i] = "publish" => disk[i].status.state = "RUNNING"
    /\ \A i \in Id : pc[i] \in {"killUnsaved", "wait", "drain", "saveExited"} =>
           disk[i].status.state \in {"STARTING", "RUNNING"}
    /\ \A i \in Id : pc[i] = "settleFailed" /\ i \notin stale =>
           disk[i].status = [state |-> "FAILED", pid |-> info[i].pid]
    /\ \A i \in Id : pc[i] = "settleExited" /\ i \notin stale =>
           disk[i].status = [state |-> "EXITED", pid |-> info[i].pid]

(* While the controller serves, a record whose goroutine has ended is not  *)
(* left STARTING or RUNNING on disk.                                       *)
OverOnDisk ==
    up = "serving" =>
        \A i \in Id : pc[i] = "over" /\ disk[i].stage = "full" /\ i \notin stale
                        => ~isActiveState(disk[i].status.state)

(* A started child is uncollected until cmd.Wait returns, and uncollected  *)
(* children have different pids.                                           *)
Kids ==
    /\ \A i \in Id : pc[i] \in Childless => child[i] = "none"
    /\ \A i \in Id : pc[i] \in Started => command[i]
    /\ \A i \in Id : pc[i] \in {"saveRunning", "publish", "killUnsaved", "wait"} =>
           child[i] \in Unreaped
    /\ \A i \in Id : child[i] \in Unreaped => cpid[i] \in Pid
    /\ \A i, j \in Id : child[i] \in Unreaped /\ child[j] \in Unreaped /\ cpid[i] = cpid[j]
                          => i = j
    /\ \A i \in Id : pc[i] \in Starting => info[i].pid = NoPid
    /\ \A i \in registered : info[i].state = "RUNNING" => info[i].pid = cpid[i]

(* Records are registered one after the other. *)
Positions ==
    /\ \A i \in registered : position[i] <= clock
    /\ \A i, j \in registered : position[i] = position[j] => i = j

(* What a phase of Shutdown has excluded stays excluded. *)
Phases ==
    /\ shut # "no" => closing /\ up = "serving"
    /\ shut \notin {"no", "starts"} => \A i \in Id : pc[i] \notin Launching
    /\ shut \in {"term", "kill"} => \A i \in Id : pc[i] \in Reaping => i \in shutting
    /\ shut \in {"clean", "forced"} => \A i \in Id : pc[i] \notin Reaping
    /\ shut \in {"kill", "forced", "abandoned"} =>
           \A i \in Id : child[i] = "alive" => pc[i] = "over"

(* A log is observed only once its directory is complete. *)
Watched == \A i \in observed : pc[i] \notin {"unused", "request", "create", "status"}

OInv ==
    /\ OnDisk /\ TerminalDurable /\ OverOnDisk /\ Kids /\ Positions
    /\ NameIndex /\ PidIndex /\ Phases /\ Watched

-----------------------------------------------------------------------------
(* The stages of the status on disk. *)

(* A signal changes the call and, through its ghost, nothing else: what it *)
(* does to the child is a step of the child.                               *)
LEMMA SignalFrame ==
    ASSUME NEW c \in Caller, Signal(c)
    PROVE  UNCHANGED <<control, service, record, pc, reply, shut, shutting, store, os,
                       stale, deleted>>
BY DEF Signal, SignalLookup, SignalDeliver, SignalAbandoned, SignalWaited, ghost

LEMMA OnDiskStep ==
    ASSUME IInv, OnDisk, [Next]_vars
    PROVE  OnDisk'
PROOF
<1> USE DEF IInv, TypeOK, StoreTypes, DiskRecord, Goto, Serving
<1>1. ASSUME NEW i \in Id, Launch(i) PROVE OnDisk'
  <2>1. CASE (\E n \in Name : StartRequest(i, n)) \/ RefuseStart(i) \/ SpawnFails(i)
    BY <2>1 DEF StartRequest, RefuseStart, SpawnFails, OnDisk, store, record, ghost
  <2>2. CASE Register(i)
    <3>1. pc[i] = "request" /\ disk[i].stage = "none"
      BY <2>2 DEF Register, Stages
    <3>2. \A j \in Id \ {i} : info'[j] = info[j]
      BY <2>2 DEF Register, RecordTypes
    <3> QED BY <2>2, <3>1, <3>2 DEF Register, OnDisk, store, ghost
  <2>3. CASE CreateMetadata(i) \/ CreateStatus(i)
    BY <2>3 DEF CreateMetadata, CreateStatus, OnDisk, record, ghost, Blank
  <2>4. CASE CreateFails(i)
    BY <2>4 DEF CreateFails, OnDisk, record
  <2>5. CASE Spawn(i)
    BY <2>5 DEF Spawn, OnDisk, store, ghost
  <2>6. CASE SaveFailed(i)
    BY <2>6 DEF SaveFailed, OnDisk, Write, record
  <2>7. CASE SettleFailed(i)
    BY <2>7 DEF SettleFailed, Settle, OnDisk, store, ghost, RecordTypes, Info
  <2>8. CASE SaveRunning(i)
    BY <2>8 DEF SaveRunning, OnDisk, Write, record, ghost
  <2>9. CASE SaveRunningFails(i) \/ PublishRunning(i)
    <3>1. \A j \in Id \ {i} : info'[j] = info[j]
      BY <2>9 DEF SaveRunningFails, PublishRunning, Publish, RecordTypes
    <3> QED BY <2>9, <3>1 DEF SaveRunningFails, PublishRunning, OnDisk, store, ghost
  <2>10. CASE KillUnsaved(i) \/ StartReply(i)
    BY <2>10 DEF KillUnsaved, StartReply, OnDisk, store, record, ghost
  <2> QED BY <1>1, <2>1, <2>2, <2>3, <2>4, <2>5, <2>6, <2>7, <2>8, <2>9, <2>10 DEF Launch
<1>2. ASSUME NEW i \in Id, Finish(i) PROVE OnDisk'
  <2>1. CASE Reap(i) \/ Drain(i)
    BY <2>1 DEF Reap, Drain, OnDisk, store, record, ghost
  <2>2. CASE SaveExited(i)
    BY <2>2 DEF SaveExited, OnDisk, Write, record
  <2>3. CASE SettleExited(i)
    BY <2>3 DEF SettleExited, Settle, OnDisk, store, ghost, RecordTypes, Info
  <2> QED BY <1>2, <2>1, <2>2, <2>3 DEF Finish
<1>3. ASSUME NEW i \in Id, History(i) PROVE OnDisk'
  <2>1. CASE DeleteProcess(i) \/ DeleteFails(i)
    <3>1. i \in TerminalIds
      BY <2>1 DEF DeleteProcess, DeleteFails, Deletable
    <3>2. pc[i] \notin Starting \cup Running
      BY <3>1, StageFacts
    <3> QED BY SMTT(40), <2>1, <3>2 DEF DeleteProcess, DeleteFails, OnDisk, record, ghost,
               Starting, Running, Reaping
  <2>2. CASE ObserveLogs(i) \/ ReleaseLogs(i)
    BY <2>2 DEF ObserveLogs, ReleaseLogs, OnDisk, store, ghost
  <2> QED BY <1>3, <2>1, <2>2 DEF History
<1>4. ASSUME NEW i \in Id, System(i) PROVE OnDisk'
  BY <1>4 DEF System, ChildExits, InitReaps, TearLog, OnDisk, store, record, ghost
<1>5. ASSUME NEW c \in Caller, Signal(c) PROVE OnDisk'
  BY <1>5, SignalFrame DEF OnDisk, store, record
<1>6. CASE Shutdown
  BY <1>6 DEF Shutdown, BeginShutdown, ShutdownTerm, ShutdownDrained, ShutdownExpires,
              ShutdownGivesUp, OnDisk, store, record, ghost
<1>7. CASE Controller
  <2>1. \A i \in Id : pc'[i] \in {"unused", "over"}
    BY <1>7 DEF Controller, Exit, Crash, Lose, Restart, Load, LoadFails, MarkLostFails,
                MarkLost, LoadDone, Offline
  <2> QED BY <2>1 DEF OnDisk
<1>8. CASE UNCHANGED vars
  BY <1>8 DEF vars, OnDisk, store, record, ghost
<1> QED BY <1>1, <1>2, <1>3, <1>4, <1>5, <1>6, <1>7, <1>8 DEF Next

(* The three ways in which a registered record is (or stays) terminal.     *)
LEMMA DurableStep ==
    ASSUME IInv, OnDisk, TerminalDurable, [Next]_vars
    PROVE  TerminalDurable'
PROOF
<1> USE DEF IInv, TypeOK, StoreTypes, DiskRecord, Goto, Serving
<1>0. registered \subseteq Id
  BY DEF ServiceTypes
<1>1. ASSUME NEW i \in Id, Launch(i) PROVE TerminalDurable'
  <2>1. CASE (\E n \in Name : StartRequest(i, n)) \/ RefuseStart(i) \/ SpawnFails(i)
    BY <2>1 DEF StartRequest, RefuseStart, SpawnFails, TerminalDurable, service, store, record, ghost
  <2>2. CASE Register(i)
    <3>1. info'[i].state = "STARTING" /\ \A j \in Id \ {i} : info'[j] = info[j]
      BY <2>2 DEF Register, RecordTypes, Info, Blank
    <3> QED BY <2>2, <3>1, <1>0 DEF Register, TerminalDurable, isActiveState, store, ghost
  <2>3. CASE CreateMetadata(i) \/ CreateStatus(i)
    <3>1. info[i].state = "STARTING"
      BY <2>3 DEF CreateMetadata, CreateStatus, Stages, Starting
    <3> QED BY <2>3, <3>1, <1>0 DEF CreateMetadata, CreateStatus, TerminalDurable, isActiveState,
               service, record, ghost
  <2>4. CASE CreateFails(i)
    BY <2>4, <1>0 DEF CreateFails, TerminalDurable, record
  <2>5. CASE Spawn(i)
    BY <2>5 DEF Spawn, TerminalDurable, service, store, ghost
  <2>6. CASE SaveFailed(i) \/ SaveRunning(i)
    <3>1. info[i].state = "STARTING"
      BY <2>6 DEF SaveFailed, SaveRunning, Stages, Starting
    <3> QED BY <2>6, <3>1, <1>0 DEF SaveFailed, SaveRunning, Write, TerminalDurable,
               isActiveState, service, record, ghost
  <2>7. CASE SettleFailed(i)
    <3>1. info'[i] = [state |-> "FAILED", pid |-> info[i].pid]
          /\ \A j \in Id \ {i} : info'[j] = info[j]
      BY <2>7 DEF SettleFailed, Settle, RecordTypes, Info
    <3>2. i \in stale \/ disk[i].status = [state |-> "FAILED", pid |-> info[i].pid]
      BY <2>7 DEF SettleFailed, OnDisk
    <3> QED BY <2>7, <3>1, <3>2, <1>0 DEF SettleFailed, Settle, TerminalDurable, store, ghost
  <2>8. CASE SaveRunningFails(i) \/ PublishRunning(i)
    <3>1. info'[i].state = "RUNNING" /\ \A j \in Id \ {i} : info'[j] = info[j]
      BY <2>8 DEF SaveRunningFails, PublishRunning, Publish, RecordTypes, Info
    <3> QED BY <2>8, <3>1, <1>0 DEF SaveRunningFails, PublishRunning, Publish, TerminalDurable,
               isActiveState, store, ghost
  <2>9. CASE KillUnsaved(i) \/ StartReply(i)
    BY <2>9 DEF KillUnsaved, StartReply, TerminalDurable, service, store, record, ghost
  <2> QED BY <1>1, <2>1, <2>2, <2>3, <2>4, <2>5, <2>6, <2>7, <2>8, <2>9 DEF Launch
<1>2. ASSUME NEW i \in Id, Finish(i) PROVE TerminalDurable'
  <2>1. CASE Reap(i) \/ Drain(i)
    BY <2>1 DEF Reap, Drain, TerminalDurable, service, store, record, ghost
  <2>2. CASE SaveExited(i)
    <3>1. info[i].state = "RUNNING"
      BY <2>2 DEF SaveExited, Stages, Running, Reaping
    <3> QED BY <2>2, <3>1, <1>0 DEF SaveExited, Write, TerminalDurable, isActiveState,
               service, record
  <2>3. CASE SettleExited(i)
    <3>1. info'[i] = [state |-> "EXITED", pid |-> info[i].pid]
          /\ \A j \in Id \ {i} : info'[j] = info[j]
      BY <2>3 DEF SettleExited, Settle, RecordTypes, Info
    <3>2. i \in stale \/ disk[i].status = [state |-> "EXITED", pid |-> info[i].pid]
      BY <2>3 DEF SettleExited, OnDisk
    <3> QED BY <2>3, <3>1, <3>2, <1>0 DEF SettleExited, Settle, TerminalDurable, store, ghost
  <2> QED BY <1>2, <2>1, <2>2, <2>3 DEF Finish
<1>3. ASSUME NEW i \in Id, History(i) PROVE TerminalDurable'
  <2>1. CASE DeleteProcess(i) \/ DeleteFails(i)
    BY <2>1, <1>0 DEF DeleteProcess, DeleteFails, TerminalDurable, service, record, ghost
  <2>2. CASE ObserveLogs(i) \/ ReleaseLogs(i)
    BY <2>2 DEF ObserveLogs, ReleaseLogs, TerminalDurable, service, store, ghost
  <2> QED BY <1>3, <2>1, <2>2 DEF History
<1>4. ASSUME NEW i \in Id, System(i) PROVE TerminalDurable'
  BY <1>4 DEF System, ChildExits, InitReaps, TearLog, TerminalDurable, service, store, record, ghost
<1>5. ASSUME NEW c \in Caller, Signal(c) PROVE TerminalDurable'
  BY <1>5, SignalFrame DEF TerminalDurable, service, store, record
<1>6. CASE Shutdown
  BY <1>6 DEF Shutdown, BeginShutdown, ShutdownTerm, ShutdownDrained, ShutdownExpires,
              ShutdownGivesUp, TerminalDurable, service, store, record, ghost
<1>7. CASE Controller
  <2>1. CASE Load
    BY <2>1 DEF Load, TerminalDurable, store, Kept, Loadable
  <2>2. CASE ~Load
    <3>1. registered' = {}
      BY <1>7, <2>2 DEF Controller, Exit, Crash, Lose, Restart, LoadFails, MarkLostFails,
                MarkLost, LoadDone, Offline, service
    <3> QED BY <3>1 DEF TerminalDurable
  <2> QED BY <2>1, <2>2
<1>8. CASE UNCHANGED vars
  BY <1>8 DEF vars, TerminalDurable, service, store, record, ghost
<1> QED BY <1>1, <1>2, <1>3, <1>4, <1>5, <1>6, <1>7, <1>8 DEF Next

(* A goroutine ends after it has saved the end, or has noted that it could *)
(* not; a controller that starts serves only when no record is left active.*)
LEMMA OverOnDiskStep ==
    ASSUME IInv, OnDisk, OverOnDisk, [Next]_vars
    PROVE  OverOnDisk'
PROOF
<1> USE DEF IInv, TypeOK, StoreTypes, DiskRecord, Goto, Serving
<1>1. ASSUME NEW i \in Id, Launch(i) PROVE OverOnDisk'
  <2>1. CASE (\E n \in Name : StartRequest(i, n)) \/ SpawnFails(i) \/ Register(i) \/ Spawn(i)
    BY <2>1 DEF StartRequest, SpawnFails, Register, Spawn, OverOnDisk, store, ghost, control
  <2>2. CASE RefuseStart(i)
    <3>1. disk[i].stage = "none"
      BY <2>2 DEF RefuseStart, Stages
    <3> QED BY <2>2, <3>1 DEF RefuseStart, OverOnDisk, store, ghost, control
  <2>3. CASE CreateMetadata(i) \/ CreateStatus(i) \/ SaveFailed(i) \/ SaveRunning(i)
    BY <2>3 DEF CreateMetadata, CreateStatus, SaveFailed, SaveRunning, Write, OverOnDisk, ghost,
                control
  <2>4. CASE CreateFails(i)
    BY <2>4 DEF CreateFails, OverOnDisk, GhostTypes
  <2>5. CASE SettleFailed(i)
    <3>1. i \in stale \/ disk[i].status = [state |-> "FAILED", pid |-> info[i].pid]
      BY <2>5 DEF SettleFailed, OnDisk
    <3> QED BY <2>5, <3>1 DEF SettleFailed, Settle, OverOnDisk, isActiveState, store, ghost, control
  <2>6. CASE SaveRunningFails(i) \/ PublishRunning(i) \/ KillUnsaved(i) \/ StartReply(i)
    BY <2>6 DEF SaveRunningFails, PublishRunning, KillUnsaved, StartReply, OverOnDisk, store,
                ghost, control
  <2> QED BY <1>1, <2>1, <2>2, <2>3, <2>4, <2>5, <2>6 DEF Launch
<1>2. ASSUME NEW i \in Id, Finish(i) PROVE OverOnDisk'
  <2>1. CASE Reap(i) \/ Drain(i)
    BY <2>1 DEF Reap, Drain, OverOnDisk, store, ghost, control
  <2>2. CASE SaveExited(i)
    BY <2>2 DEF SaveExited, Write, OverOnDisk
  <2>3. CASE SettleExited(i)
    <3>1. i \in stale \/ disk[i].status = [state |-> "EXITED", pid |-> info[i].pid]
      BY <2>3 DEF SettleExited, OnDisk
    <3> QED BY <2>3, <3>1 DEF SettleExited, Settle, OverOnDisk, isActiveState, store, ghost, control
  <2> QED BY <1>2, <2>1, <2>2, <2>3 DEF Finish
<1>3. ASSUME NEW i \in Id, History(i) PROVE OverOnDisk'
  BY <1>3 DEF History, DeleteProcess, DeleteFails, ObserveLogs, ReleaseLogs, OverOnDisk,
              store, ghost, control
<1>4. ASSUME NEW i \in Id, System(i) PROVE OverOnDisk'
  BY <1>4 DEF System, ChildExits, InitReaps, TearLog, OverOnDisk, store, ghost, control
<1>5. ASSUME NEW c \in Caller, Signal(c) PROVE OverOnDisk'
  BY <1>5, SignalFrame DEF OverOnDisk, store, control
<1>6. CASE Shutdown
  BY <1>6 DEF Shutdown, BeginShutdown, ShutdownTerm, ShutdownDrained, ShutdownExpires,
              ShutdownGivesUp, OverOnDisk, store, ghost, control
<1>7. CASE Controller
  <2>1. CASE Load
    BY <2>1 DEF Load, LoadDone, OverOnDisk, store, Loadable
  <2>2. CASE ~Load
    <3>1. up' # "serving"
      BY <1>7, <2>2 DEF Controller, Exit, Crash, Lose, Restart, LoadFails, MarkLostFails,
                MarkLost, control
    <3> QED BY <3>1 DEF OverOnDisk
  <2> QED BY <2>1, <2>2
<1>8. CASE UNCHANGED vars
  BY <1>8 DEF vars, OverOnDisk, store, ghost, control
<1> QED BY <1>1, <1>2, <1>3, <1>4, <1>5, <1>6, <1>7, <1>8 DEF Next

-----------------------------------------------------------------------------
(* Children and their pids. *)

(* A step that leaves every child as it is, or collects or kills some that *)
(* no goroutine still takes for uncollected, keeps Kids.                   *)
LEMMA KidsStep ==
    ASSUME IInv, Kids, [Next]_vars
    PROVE  Kids'
PROOF
<1> USE DEF IInv, TypeOK, OsTypes, Goto, Serving, Unreaped, Childless, Started, Starting,
            Running, Reaping
<1>0. registered \subseteq Id
  BY DEF ServiceTypes
<1>1. ASSUME NEW i \in Id, Launch(i) PROVE Kids'
  <2>1. CASE \/ \E n \in Name : StartRequest(i, n)
             \/ RefuseStart(i) \/ SpawnFails(i) \/ CreateMetadata(i) \/ CreateStatus(i)
             \/ SaveFailed(i) \/ StartReply(i)
    BY <2>1 DEF StartRequest, RefuseStart, SpawnFails, CreateMetadata, CreateStatus,
                SaveFailed, StartReply, Kids, service, record, os
  <2>2. CASE Register(i)
    <3>1. /\ info'[i].state = "STARTING" /\ info'[i].pid = NoPid
          /\ \A j \in Id \ {i} : info'[j] = info[j]
      BY <2>2 DEF Register, RecordTypes, Info, Blank
    <3>2. evicted \subseteq registered
      BY <2>2, EvictedType DEF Register, Admitted, TerminalIds
    <3> QED BY <2>2, <3>1, <3>2, <1>0 DEF Register, Kids, record, os
  <2>3. CASE CreateFails(i)
    BY <2>3, <1>0 DEF CreateFails, Kids, record, os
  <2>4. CASE Spawn(i)
    <3>1. i \in registered => info[i].state = "STARTING"
      BY <2>4 DEF Spawn, Stages, Starting
    <3>2. PICK p \in Pid : Group(p) = {} /\ cpid' = [cpid EXCEPT ![i] = p]
      BY <2>4 DEF Spawn
    <3>3. \A j \in Id : child[j] \in Unreaped => cpid[j] # p
      BY <3>2 DEF Group
    <3> QED BY <2>4, <3>1, <3>2, <3>3, <1>0 DEF Spawn, Kids, RecordTypes, service
  <2>5. CASE SettleFailed(i)
    BY <2>5, <1>0 DEF SettleFailed, Settle, Kids, RecordTypes, Info, os
  <2>6. CASE SaveRunning(i)
    BY <2>6, <1>0 DEF SaveRunning, Kids, service, record, os
  <2>7. CASE SaveRunningFails(i) \/ PublishRunning(i)
    <3>1. info'[i].pid = cpid[i] /\ \A j \in Id \ {i} : info'[j] = info[j]
      BY <2>7 DEF SaveRunningFails, PublishRunning, Publish, RecordTypes, Info
    <3> QED BY <2>7, <3>1, <1>0 DEF SaveRunningFails, PublishRunning, Publish, Kids, os
  <2>8. CASE KillUnsaved(i)
    BY <2>8, <1>0 DEF KillUnsaved, Killed, Kids, service, record
  <2> QED BY <1>1, <2>1, <2>2, <2>3, <2>4, <2>5, <2>6, <2>7, <2>8 DEF Launch
<1>2. ASSUME NEW i \in Id, Finish(i) PROVE Kids'
  <2>1. CASE Reap(i)
    BY <2>1, <1>0 DEF Reap, Kids, service, record
  <2>2. CASE Drain(i) \/ SaveExited(i)
    BY <2>2, <1>0 DEF Drain, SaveExited, Kids, service, record, os
  <2>3. CASE SettleExited(i)
    BY <2>3, <1>0 DEF SettleExited, Settle, Kids, RecordTypes, Info, os
  <2> QED BY <1>2, <2>1, <2>2, <2>3 DEF Finish
<1>3. ASSUME NEW i \in Id, History(i) PROVE Kids'
  BY <1>3, <1>0 DEF History, DeleteProcess, DeleteFails, ObserveLogs, ReleaseLogs, Kids,
              service, record, os
<1>4. ASSUME NEW i \in Id, System(i) PROVE Kids'
  BY <1>4, <1>0 DEF System, ChildExits, InitReaps, TearLog, Kids, service, record, os
<1>5. ASSUME NEW c \in Caller, Signal(c) PROVE Kids'
  BY <1>5, SignalFrame DEF Kids, service, record, os
<1>6. CASE Shutdown
  BY <1>6 DEF Shutdown, BeginShutdown, ShutdownTerm, ShutdownDrained, ShutdownExpires,
              ShutdownGivesUp, Killed, Kids, service, record, os
<1>7. CASE Controller
  <2>1. CASE Exit \/ Crash
    BY <2>1 DEF Exit, Crash, Lose, Kids, os
  <2>2. CASE Load
    <3>1. \A i \in Id : pc[i] \in {"unused", "over"} /\ pc'[i] = pc[i]
      BY <2>2 DEF Load, LoadDone, Offline
    <3>2. \A i \in registered' : info'[i].state # "RUNNING"
      BY <2>2 DEF Load, LoadDone, Kept, Loadable, isActiveState
    <3>3. UNCHANGED <<child, cpid, command>>
      BY <2>2 DEF Load, os
    <3> QED BY <3>1, <3>2, <3>3 DEF Kids
  <2>3. CASE Restart \/ LoadFails \/ MarkLostFails \/ \E i \in Id : MarkLost(i)
    BY <2>3 DEF Restart, LoadFails, MarkLostFails, MarkLost, Kids, service, record, os
  <2> QED BY <1>7, <2>1, <2>2, <2>3 DEF Controller
<1>8. CASE UNCHANGED vars
  BY <1>8 DEF vars, Kids, service, record, os
<1> QED BY <1>1, <1>2, <1>3, <1>4, <1>5, <1>6, <1>7, <1>8 DEF Next

-----------------------------------------------------------------------------
(* Shutdown. *)

LEMMA PhasesStep ==
    ASSUME IInv, Kids, Phases, [Next]_vars
    PROVE  Phases'
PROOF
<1> USE DEF IInv, TypeOK, OsTypes, CallTypes, Goto, Serving, Unreaped, Childless, Started,
            Launching, Reaping, Running
<1>1. ASSUME NEW i \in Id, Launch(i) PROVE Phases'
  <2>1. CASE (\E n \in Name : StartRequest(i, n)) \/ RefuseStart(i) \/ StartReply(i)
    BY <2>1 DEF StartRequest, RefuseStart, StartReply, Phases, Kids, control, service, calls, os
  <2>2. CASE Register(i)
    <3>1. shut = "no"
      BY <2>2 DEF Register, Admitted, Phases
    <3> QED BY <2>2, <3>1 DEF Register, Phases, calls
  <2>3. CASE ~(\E n \in Name : StartRequest(i, n)) /\ ~RefuseStart(i) /\ ~StartReply(i) /\ ~Register(i)
    <3>1. pc[i] \in Launching
      BY <1>1, <2>3 DEF Launch, CreateMetadata, CreateStatus, CreateFails, Spawn, SpawnFails,
         SaveFailed, SettleFailed, SaveRunning, SaveRunningFails, KillUnsaved, PublishRunning
    <3>2. shut \in {"no", "starts"}
      BY <3>1 DEF Phases
    <3>3. UNCHANGED <<up, closing, shut>>
      BY <1>1, <2>3 DEF Launch, CreateMetadata, CreateStatus, CreateFails, Spawn, SpawnFails,
         SaveFailed, SettleFailed, SaveRunning, SaveRunningFails, KillUnsaved, PublishRunning,
         Settle, Publish, control, service, calls
    <3> QED BY <3>2, <3>3 DEF Phases
  <2> QED BY <2>1, <2>2, <2>3
<1>2. ASSUME NEW i \in Id, Finish(i) PROVE Phases'
  <2>1. /\ pc[i] \in Reaping /\ pc'[i] \in Reaping \cup {"over"}
        /\ \A j \in Id \ {i} : pc'[j] = pc[j]
        /\ \A j \in Id : child'[j] = "alive" => child[j] = "alive"
        /\ UNCHANGED <<up, closing, shut, shutting>>
    BY <1>2 DEF Finish, Reap, Drain, SaveExited, SettleExited, Settle, control, service, calls, os
  <2> QED BY <2>1 DEF Phases
<1>3. ASSUME NEW i \in Id, History(i) PROVE Phases'
  BY <1>3 DEF History, DeleteProcess, DeleteFails, ObserveLogs, ReleaseLogs, Phases,
              control, service, calls, os
<1>4. ASSUME NEW i \in Id, System(i) PROVE Phases'
  BY <1>4 DEF System, ChildExits, InitReaps, TearLog, Phases, control, service, calls, os
<1>5. ASSUME NEW c \in Caller, Signal(c) PROVE Phases'
  BY <1>5, SignalFrame DEF Phases, control, service, os
<1>6. CASE Shutdown
  <2>1. CASE BeginShutdown
    BY <2>1 DEF BeginShutdown, Phases, control
  <2>2. \A j \in Id : pc[j] \in Reaping /\ pc[j] \notin Launching => j \in runningLocked
    BY DEF Stages, Kids, runningLocked, Launching
  <2>3. CASE ShutdownTerm
    BY <2>2, <2>3 DEF ShutdownTerm, Phases, control, service, os
  <2>4. CASE ShutdownDrained
    <3>1. \A j \in Id : pc[j] \notin Reaping
      BY <2>4 DEF ShutdownDrained, Phases, Children
    <3>2. \A j \in Id : child[j] = "alive" => pc[j] = "over"
      <4>1. \A j \in Id : pc[j] \in PC
        OBVIOUS
      <4> QED BY <2>4, <3>1, <4>1 DEF ShutdownDrained, Phases, Kids, PC
    <3> QED BY <2>4, <3>1, <3>2 DEF ShutdownDrained, Phases, control, service, os
  <2>5. CASE ShutdownExpires
    <3>1. ASSUME NEW j \in Id, child'[j] = "alive" PROVE pc[j] = "over"
      <4>1. child[j] = "alive" /\ j \notin Struck
        BY <2>5, <3>1 DEF ShutdownExpires, Killed
      <4>2. j \in Group(cpid[j])
        BY <4>1 DEF Group
      <4>3. pc[j] \notin Launching
        BY <2>5 DEF ShutdownExpires, Phases
      <4>4. pc[j] \notin Reaping
        <5> SUFFICES ASSUME pc[j] \in Reaping PROVE FALSE
          OBVIOUS
        <5>1. j \in runningLocked /\ info[j].pid = cpid[j]
          BY <2>2, <4>3 DEF runningLocked, Kids
        <5> QED BY <4>1, <4>2, <5>1 DEF Struck
      <4>5. pc[j] \in PC
        OBVIOUS
      <4> QED BY <4>1, <4>3, <4>4, <4>5 DEF Kids, PC
    <3> QED BY <2>2, <2>5, <3>1 DEF ShutdownExpires, Phases, control, service
  <2>6. CASE ShutdownGivesUp
    BY <2>6 DEF ShutdownGivesUp, Phases, control, service, os
  <2> QED BY <1>6, <2>1, <2>3, <2>4, <2>5, <2>6 DEF Shutdown
<1>7. CASE Controller
  <2>1. shut' = "no"
    BY <1>7 DEF Controller, Exit, Crash, Lose, Restart, Load, LoadFails, MarkLostFails,
                MarkLost, LoadDone, Phases, calls
  <2> QED BY <2>1 DEF Phases
<1>8. CASE UNCHANGED vars
  BY <1>8 DEF vars, Phases, control, service, calls, os
<1> QED BY <1>1, <1>2, <1>3, <1>4, <1>5, <1>6, <1>7, <1>8 DEF Next

-----------------------------------------------------------------------------
(* Observed logs. *)

LEMMA WatchedStep ==
    ASSUME IInv, Watched, [Next]_vars
    PROVE  Watched'
PROOF
<1> USE DEF IInv, TypeOK, RecordTypes, Goto
<1>1. ASSUME NEW i \in Id, Launch(i) PROVE Watched'
  <2>1. /\ observed' = observed
        /\ \A j \in Id \ {i} : pc'[j] = pc[j]
        /\ pc[i] \in {"unused", "request", "create", "status"}
             \/ pc'[i] \notin {"unused", "request", "create", "status"}
    BY <1>1 DEF Launch, StartRequest, RefuseStart, Register, CreateMetadata,
         CreateStatus, CreateFails, Spawn, SpawnFails, SaveFailed, SettleFailed,
         SaveRunning, SaveRunningFails, KillUnsaved, PublishRunning, StartReply, Publish,
         Settle, record
  <2> QED BY <2>1 DEF Watched
<1>2. ASSUME NEW i \in Id, Finish(i) PROVE Watched'
  BY <1>2 DEF Finish, Reap, Drain, SaveExited, SettleExited, Settle, Watched, record
<1>3. ASSUME NEW i \in Id, History(i) PROVE Watched'
  BY <1>3 DEF History, DeleteProcess, DeleteFails, ObserveLogs, ReleaseLogs, Watched, Stages, record
<1>4. ASSUME NEW i \in Id, System(i) PROVE Watched'
  BY <1>4 DEF System, ChildExits, InitReaps, TearLog, Watched, record
<1>5. ASSUME NEW c \in Caller, Signal(c) PROVE Watched'
  BY <1>5, SignalFrame DEF Watched, record
<1>6. CASE Shutdown
  BY <1>6 DEF Shutdown, BeginShutdown, ShutdownTerm, ShutdownDrained, ShutdownExpires,
              ShutdownGivesUp, Watched, record
<1>7. CASE Controller
  BY <1>7 DEF Controller, Exit, Crash, Lose, Restart, Load, LoadFails, MarkLostFails,
                MarkLost, Watched, record
<1>8. CASE UNCHANGED vars
  BY <1>8 DEF vars, Watched, record
<1> QED BY <1>1, <1>2, <1>3, <1>4, <1>5, <1>6, <1>7, <1>8 DEF Next

-----------------------------------------------------------------------------
(* The order of registration and the indexes. *)

(* Steps other than a registration and the end of a load. *)
LEMMA PositionsKept ==
    ASSUME TypeOK, TypeOK', Positions, registered' \subseteq registered, clock' >= clock,
           position' = position
    PROVE  Positions'
BY DEF Positions, TypeOK, ServiceTypes, ControlTypes

(* In a numbering without ties the newest element is the only upper bound. *)
LEMMA NewestIs ==
    ASSUME NEW S, NEW at, \A i \in S : at[i] \in Int,
           \A i, j \in S : at[i] = at[j] => i = j,
           NEW x \in S, \A j \in S : at[j] <= at[x]
    PROVE  Newest(S, at) = x
BY DEF Newest

LEMMA NewestOf ==
    ASSUME NEW S, IsFiniteSet(S), S # {}, NEW at, \A i \in S : at[i] \in Int
    PROVE  Newest(S, at) \in S /\ \A j \in S : at[j] <= at[Newest(S, at)]
BY LastExists DEF Newest

(* The newest of a set is the newest of what remains, unless it goes. *)
LEMMA NewestRemains ==
    ASSUME NEW S, IsFiniteSet(S), NEW at, \A i \in S : at[i] \in Int,
           \A i, j \in S : at[i] = at[j] => i = j,
           NEW gone, Newest(S, at) \notin gone
    PROVE  Newest(S \ gone, at) = Newest(S, at)
PROOF
<1>1. CASE S = {}
  BY <1>1 DEF Newest
<1>2. CASE S # {}
  <2>1. Newest(S, at) \in S \ gone /\ \A j \in S \ gone : at[j] <= at[Newest(S, at)]
    BY <1>2, NewestOf
  <2> QED BY <2>1, NewestIs
<1> QED BY <1>1, <1>2

Named(n, S) == {i \in S : name[i] = n}

LEMMA NamedFinite ==
    ASSUME TypeOK, Positions, NEW n, NEW S \in SUBSET registered
    PROVE  /\ IsFiniteSet(Named(n, S))
           /\ \A i \in Named(n, S) : position[i] \in Int /\ i \in Id
           /\ \A i, j \in Named(n, S) : position[i] = position[j] => i = j
PROOF
<1>1. Named(n, S) \in SUBSET registered
  BY DEF Named
<1> QED BY <1>1, RegisteredFinite DEF TypeOK, ServiceTypes, Positions, Named

(* What removeLocked leaves in byName is the index of what remains. *)
LEMMA ByNameWithout ==
    ASSUME TypeOK, Positions, NameIndex, NEW gone, NEW n \in Name
    PROVE  byNameWithout(gone)[n] = Newest(Named(n, registered \ gone), position)
PROOF
<1>1. byName[n] = Newest(Named(n, registered), position)
  BY DEF NameIndex, Named
<1>2. Named(n, registered \ gone) = Named(n, registered) \ gone
  BY DEF Named
<1>3. CASE byName[n] \in gone
  BY <1>3 DEF byNameWithout, Named
<1>4. CASE byName[n] \notin gone
  <2> DEFINE S == Named(n, registered)
  <2>1. /\ IsFiniteSet(S) /\ \A i \in S : position[i] \in Int
        /\ \A i, j \in S : position[i] = position[j] => i = j
    BY NamedFinite
  <2>2. Newest(S, position) \notin gone
    BY <1>1, <1>4
  <2>3. Newest(S \ gone, position) = Newest(S, position)
    <3> HIDE DEF S
    <3> QED BY <2>1, <2>2, NewestRemains
  <2> QED BY <1>1, <1>2, <1>4, <2>3 DEF byNameWithout
<1> QED BY <1>3, <1>4

(* Records that leave the registry: the others keep their index entries.   *)
LEMMA NameRemoval ==
    ASSUME TypeOK, TypeOK', Positions, NameIndex, NEW gone,
           registered' = registered \ gone, byName' = byNameWithout(gone),
           position' = position, name' = name,
           \A i \in registered' : info'[i].state = info[i].state
    PROVE  NameIndex'
PROOF
<1>1. ASSUME NEW n \in Name PROVE byName'[n] = Newest({i \in registered' : name'[i] = n}, position')
  <2>1. {i \in registered' : name'[i] = n} = Named(n, registered \ gone)
    BY DEF Named
  <2> QED BY <1>1, <2>1, ByNameWithout
<1>2. ASSUME NEW i \in ActiveIds' PROVE byName'[name'[i]] = i
  <2>1. i \in ActiveIds /\ i \notin gone /\ name[i] \in Name
    BY <1>2 DEF ActiveIds, TypeOK, ServiceTypes, RecordTypes
  <2>2. byName[name[i]] = i
    BY <2>1 DEF NameIndex
  <2> QED BY <2>1, <2>2 DEF byNameWithout
<1> QED BY <1>1, <1>2 DEF NameIndex

(* Steps that leave the index and the positions alone. *)
LEMMA NameIndexKept ==
    ASSUME NameIndex, UNCHANGED <<registered, byName, position>>,
           \A i \in registered : name'[i] = name[i],
           \A i \in registered : isActiveState(info'[i].state) => isActiveState(info[i].state)
    PROVE  NameIndex'
PROOF
<1>1. \A n : {i \in registered' : name'[i] = n} = {i \in registered : name[i] = n}
  OBVIOUS
<1> QED BY <1>1 DEF NameIndex, ActiveIds

LEMMA RegisterNames ==
    ASSUME IInv, TypeOK', Positions, NameIndex, NEW i \in Id, Register(i)
    PROVE  Positions' /\ NameIndex'
PROOF
<1> USE DEF IInv, Register, Admitted, record
<1>1. i \notin registered /\ registered \subseteq Id /\ clock \in Nat /\ clock' = clock + 1
  BY DEF Stages, TypeOK, ServiceTypes, ControlTypes
<1>2. position'[i] = clock + 1 /\ \A j \in Id \ {i} : position'[j] = position[j]
  BY DEF TypeOK, ServiceTypes
<1>3. \A j \in registered : position[j] <= clock /\ position[j] \in Nat /\ j # i
  BY <1>1 DEF Positions, TypeOK, ServiceTypes
<1>4. Positions'
  BY <1>1, <1>2, <1>3 DEF Positions
<1>5. name[i] \in Name /\ name' = name
  BY DEF TypeOK, RecordTypes
<1>6. ASSUME NEW n \in Name PROVE byName'[n] = Newest(Named(n, registered'), position')
  <2> HIDE DEF Register, IInv
  <2>1. CASE n = name[i]
    <3>1. byName'[n] = i
      BY <2>1, <1>5 DEF Register, IInv, TypeOK, ServiceTypes, byNameWithout
    <3>2. i \in Named(n, registered')
      BY <2>1 DEF Register, Named
    <3>3. \A j \in Named(n, registered') : j = i \/ j \in registered
      BY DEF Register, Named
    <3>4. \A j \in Named(n, registered') : position'[j] \in Int /\ position'[j] <= position'[i]
      BY <3>3, <1>1, <1>2, <1>3
    <3>5. \A j, k \in Named(n, registered') : position'[j] = position'[k] => j = k
      BY <1>4 DEF Positions, Named
    <3> QED BY <3>1, <3>2, <3>4, <3>5, NewestIs
  <2>2. CASE n # name[i]
    <3>1. byName'[n] = byNameWithout(evicted)[n]
      BY <2>2 DEF Register, byNameWithout
    <3>2. byName'[n] = Newest(Named(n, registered \ evicted), position)
      BY <3>1, ByNameWithout DEF IInv
    <3>3. Named(n, registered') = Named(n, registered \ evicted)
      BY <2>2, <1>5 DEF Register, Named
    <3> DEFINE S == Named(n, registered \ evicted)
    <3>4. /\ IsFiniteSet(S)
          /\ \A j \in S : position[j] \in Int /\ position'[j] = position[j]
          /\ \A j, k \in S : position[j] = position[k] => j = k
      <4>1. registered \ evicted \in SUBSET registered
        OBVIOUS
      <4>2. \A j \in S : position'[j] = position[j]
        BY <1>1, <1>2 DEF Named
      <4> QED BY <4>1, <4>2, NamedFinite DEF IInv
    <3>5. CASE S = {}
      BY <3>2, <3>3, <3>5 DEF Newest
    <3>6. CASE S # {}
      <4>1. Newest(S, position) \in S /\ \A j \in S : position[j] <= position[Newest(S, position)]
        BY <3>4, <3>6, NewestOf
      <4>2. Newest(S, position') = Newest(S, position)
        <5> HIDE DEF S
        <5> QED BY <3>4, <4>1, NewestIs
      <4> QED BY <3>2, <3>3, <4>2
    <3> QED BY <3>5, <3>6
  <2> QED BY <2>1, <2>2
<1>7. ASSUME NEW j \in ActiveIds' PROVE byName'[name'[j]] = j
  <2>1. CASE j = i
    BY <2>1, <1>5 DEF TypeOK, ServiceTypes, byNameWithout
  <2>2. CASE j # i
    <3>1. j \in ActiveIds /\ j \notin evicted /\ j \in Id
      BY <2>2, <1>7, <1>1 DEF ActiveIds, TypeOK, RecordTypes
    <3>2. activeNames[name[j]] = j /\ byName[name[j]] = j /\ name[j] \in Name
      BY <3>1 DEF ActiveNames, NameIndex, TypeOK, RecordTypes
    <3>3. name[j] # name[i]
      BY <3>1, <3>2, RegistryAssumption
    <3> QED BY <3>1, <3>2, <3>3 DEF byNameWithout
  <2> QED BY <2>1, <2>2
<1>8. ASSUME NEW n \in Name PROVE byName'[n] = Newest({j \in registered' : name'[j] = n}, position')
  <2>1. {j \in registered' : name'[j] = n} = Named(n, registered')
    BY <1>5 DEF Named
  <2> QED BY <1>6, <2>1
<1> HIDE DEF Register
<1> QED BY <1>4, <1>7, <1>8 DEF NameIndex

LEMMA LoadNames ==
    ASSUME IInv, TypeOK', Load
    PROVE  Positions' /\ NameIndex'
PROOF
<1> USE DEF IInv, Load, LoadDone
<1>1. registered' = Kept /\ Kept \subseteq Loadable /\ Loadable \subseteq Id
  BY DEF Kept, Loadable
<1>2. \A i \in Kept : position'[i] = created[i] /\ created[i] \in Nat /\ pc[i] # "unused"
  BY <1>1 DEF TypeOK, RecordTypes, Stages, Loadable
<1>3. Positions'
  BY <1>1, <1>2 DEF Positions, Times
<1>4. ASSUME NEW n \in Name PROVE byName'[n] = Newest({i \in registered' : name'[i] = n}, position')
  <2> DEFINE S == {i \in Kept : name[i] = n}
  <2>1. byName'[n] = Newest(S, created)
    BY DEF byNameLoaded
  <2>2. {i \in registered' : name'[i] = n} = S
    OBVIOUS
  <2>3. S \in SUBSET Id
    BY <1>1
  <2>4. IsFiniteSet(S)
    BY <2>3, FS_Subset, RegistryAssumption
  <2>5. \A i \in S : position'[i] = created[i] /\ created[i] \in Int
    <3> HIDE DEF Load, IInv
    <3> QED BY <1>2
  <2>6. \A i, j \in S : created[i] = created[j] => i = j
    BY <1>1, <1>2 DEF Times
  <2>7. CASE S = {}
    BY <2>1, <2>2, <2>7 DEF Newest
  <2>8. CASE S # {}
    <3> HIDE DEF S, Load, IInv
    <3>1. Newest(S, created) \in S /\ \A j \in S : created[j] <= created[Newest(S, created)]
      BY <2>4, <2>5, <2>8, NewestOf
    <3>2. Newest(S, position') = Newest(S, created)
      BY <2>5, <2>6, <3>1, NewestIs
    <3> QED BY <2>1, <2>2, <3>2
  <2> QED BY <2>7, <2>8
<1>5. ActiveIds' = {}
  BY <1>1 DEF ActiveIds
<1> QED BY <1>3, <1>4, <1>5 DEF NameIndex

LEMMA NamesStep ==
    ASSUME IInv, Positions, NameIndex, [Next]_vars
    PROVE  Positions' /\ NameIndex'
PROOF
<1>0. TypeOK /\ TypeOK' /\ registered \subseteq Id /\ clock \in Nat
  BY TypeStep DEF IInv, TypeOK, ServiceTypes, ControlTypes
<1>1. ASSUME NEW i \in Id, Launch(i) PROVE Positions' /\ NameIndex'
  <2>1. ASSUME NEW n \in Name, StartRequest(i, n) PROVE Positions' /\ NameIndex'
    <3>1. i \notin registered /\ \A j \in Id \ {i} : name'[j] = name[j]
      BY <2>1, <1>0 DEF StartRequest, IInv, Stages, TypeOK, RecordTypes
    <3>2. UNCHANGED <<registered, byName, position, info>> /\ clock' >= clock
      BY <2>1, <1>0 DEF StartRequest, service
    <3> QED BY <1>0, <3>1, <3>2, PositionsKept, NameIndexKept
  <2>2. CASE Register(i)
    BY <2>2, <1>0, RegisterNames
  <2>3. CASE CreateFails(i)
    BY <2>3, <1>0, PositionsKept, NameRemoval DEF CreateFails, record
  <2>4. CASE \/ RefuseStart(i) \/ CreateMetadata(i) \/ CreateStatus(i) \/ Spawn(i)
             \/ SpawnFails(i) \/ SaveFailed(i) \/ SaveRunning(i) \/ KillUnsaved(i) \/ StartReply(i)
    <3>1. UNCHANGED <<registered, byName, position, info, name, clock>>
      BY <2>4 DEF RefuseStart, CreateMetadata, CreateStatus, Spawn, SpawnFails, SaveFailed,
                  SaveRunning, KillUnsaved, StartReply, control, service, record
    <3> QED BY <1>0, <3>1, PositionsKept, NameIndexKept
  <2>5. CASE SettleFailed(i)
    <3>1. /\ UNCHANGED <<registered, byName, position, name, clock>>
          /\ \A j \in Id : isActiveState(info'[j].state) => isActiveState(info[j].state)
      BY <2>5, <1>0 DEF SettleFailed, Settle, control, isActiveState, TypeOK, RecordTypes, Info
    <3> QED BY <1>0, <3>1, PositionsKept, NameIndexKept
  <2>6. CASE SaveRunningFails(i) \/ PublishRunning(i)
    <3>1. isActiveState(info[i].state)
      BY <2>6 DEF SaveRunningFails, PublishRunning, IInv, Stages, Starting, isActiveState
    <3>2. /\ UNCHANGED <<registered, byName, position, name, clock>>
          /\ \A j \in Id : isActiveState(info'[j].state) => isActiveState(info[j].state)
      BY <2>6, <3>1, <1>0 DEF SaveRunningFails, PublishRunning, Publish, control, TypeOK, RecordTypes
    <3> QED BY <1>0, <3>2, PositionsKept, NameIndexKept
  <2> QED BY <1>1, <2>1, <2>2, <2>3, <2>4, <2>5, <2>6 DEF Launch
<1>2. ASSUME NEW i \in Id, Finish(i) PROVE Positions' /\ NameIndex'
  <2>1. /\ UNCHANGED <<registered, byName, position, name, clock>>
        /\ \A j \in Id : isActiveState(info'[j].state) => isActiveState(info[j].state)
    BY <1>2, <1>0 DEF Finish, Reap, Drain, SaveExited, SettleExited, Settle, control, service, record,
                 isActiveState, TypeOK, RecordTypes, Info
  <2> QED BY <1>0, <2>1, PositionsKept, NameIndexKept
<1>3. ASSUME NEW i \in Id, History(i) PROVE Positions' /\ NameIndex'
  <2>1. CASE DeleteProcess(i)
    BY <2>1, <1>0, PositionsKept, NameRemoval DEF DeleteProcess, control, record
  <2>2. CASE DeleteFails(i) \/ ObserveLogs(i) \/ ReleaseLogs(i)
    <3>1. UNCHANGED <<registered, byName, position, info, name, clock>>
      BY <2>2 DEF DeleteFails, ObserveLogs, ReleaseLogs, control, service, record
    <3> QED BY <1>0, <3>1, PositionsKept, NameIndexKept
  <2> QED BY <1>3, <2>1, <2>2 DEF History
<1>4. ASSUME UNCHANGED <<registered, byName, position, info, name, clock>>
      PROVE  Positions' /\ NameIndex'
  BY <1>0, <1>4, PositionsKept, NameIndexKept
<1>5. CASE \/ \E i \in Id : System(i)
           \/ \E c \in Caller : Signal(c)
           \/ Shutdown \/ UNCHANGED vars
  <2>1. UNCHANGED <<registered, byName, position, info, name, clock>>
    BY <1>5, SignalFrame DEF System, ChildExits, InitReaps, TearLog, Shutdown, BeginShutdown,
       ShutdownTerm, ShutdownDrained, ShutdownExpires, ShutdownGivesUp, control, service, record, vars
  <2> QED BY <1>4, <2>1
<1>6. CASE Controller
  <2>1. CASE Exit \/ Crash
    <3>1. /\ registered' = {} /\ ActiveIds' = {}
          /\ byName' = [n \in Name |-> NoId]
      BY <2>1 DEF Exit, Crash, Lose, ActiveIds
    <3> QED BY <3>1 DEF Positions, NameIndex, Newest
  <2>2. CASE Load
    BY <2>2, <1>0, LoadNames
  <2>3. CASE Restart \/ LoadFails \/ MarkLostFails \/ \E i \in Id : MarkLost(i)
    <3>1. UNCHANGED <<registered, byName, position, info, name, clock>>
      BY <2>3 DEF Restart, LoadFails, MarkLostFails, MarkLost, control, service, record
    <3> QED BY <1>4, <3>1
  <2> QED BY <1>6, <2>1, <2>2, <2>3 DEF Controller
<1> QED BY <1>1, <1>2, <1>3, <1>5, <1>6 DEF Next

(* Records that leave the registry keep the pid index of the others: where *)
(* their entry goes, the newest remaining record of the pid takes it.      *)
LEMMA ByPidWithout ==
    ASSUME TypeOK, PidIndex, NEW gone, NEW p \in Pid
    PROVE  /\ byPID[p] \notin gone => byPIDWithout(gone)[p] = byPID[p]
           /\ byPIDWithout(gone)[p] # NoId =>
                  /\ byPIDWithout(gone)[p] \in registered \ gone
                  /\ info[byPIDWithout(gone)[p]].pid = p
PROOF
<1> DEFINE S == {j \in registered \ gone : info[j].pid = p}
<1>1. S \in SUBSET registered
  OBVIOUS
<1>2. IsFiniteSet(S) /\ \A j \in S : position[j] \in Int
  BY <1>1, RegisteredFinite DEF TypeOK, ServiceTypes
<1>3. Newest(S, position) \in S \cup {NoId}
  <2> HIDE DEF S
  <2> QED BY <1>2, NewestType
<1>4. byPIDWithout(gone)[p] = IF byPID[p] \in gone THEN Newest(S, position) ELSE byPID[p]
  BY DEF byPIDWithout
<1> QED BY <1>3, <1>4 DEF PidIndex

LEMMA PidRemoval ==
    ASSUME TypeOK, Kids, PidIndex, NEW gone,
           registered' = registered \ gone, byPID' = byPIDWithout(gone), UNCHANGED <<info, child>>
    PROVE  PidIndex'
PROOF
<1>1. ASSUME NEW i \in registered', info'[i].state = "RUNNING", child'[i] \in Unreaped
      PROVE  byPID'[info'[i].pid] = i
  <2>1. i \in registered \ gone /\ byPID[info[i].pid] = i
    BY <1>1 DEF PidIndex, Unreaped
  <2>2. info[i].pid \in Pid
    BY <1>1, <2>1 DEF Kids, TypeOK, ServiceTypes
  <2> QED BY <2>1, <2>2, ByPidWithout
<1>2. ASSUME NEW p \in Pid, byPID'[p] # NoId
      PROVE  byPID'[p] \in registered' /\ info'[byPID'[p]].pid = p
  BY <1>2, ByPidWithout
<1> QED BY <1>1, <1>2 DEF PidIndex, Unreaped

LEMMA PidIndexKept ==
    ASSUME PidIndex, UNCHANGED <<registered, byPID>>, \A i \in registered :
             /\ info'[i].pid = info[i].pid
             /\ info'[i].state = "RUNNING" => info[i].state = "RUNNING"
             /\ child'[i] \in Unreaped => child[i] \in Unreaped,
           \A p \in Pid : byPID[p] # NoId => byPID[p] \in registered
    PROVE  PidIndex'
BY DEF PidIndex, Unreaped

(* A started child takes the entry of its pid: no other record of a child  *)
(* that is still uncollected can lose it.                                  *)
LEMMA PidPublished ==
    ASSUME IInv, Kids, PidIndex, NEW i \in Id, pc[i] \in {"saveRunning", "publish"},
           Publish(i), UNCHANGED child
    PROVE  PidIndex'
PROOF
<1> USE DEF IInv, TypeOK, ServiceTypes, Publish
<1>1. i \in registered /\ child[i] \in Unreaped /\ cpid[i] \in Pid /\ registered \subseteq Id
  BY DEF Stages, Starting, Kids
<1>2. info'[i].pid = cpid[i] /\ \A j \in Id \ {i} : info'[j] = info[j]
  BY DEF RecordTypes, Info
<1>3. byPID'[cpid[i]] = i /\ \A p \in Pid \ {cpid[i]} : byPID'[p] = byPID[p]
  BY <1>1
<1>4. ASSUME NEW j \in registered', info'[j].state = "RUNNING", child'[j] \in Unreaped
      PROVE  byPID'[info'[j].pid] = j
  <2>1. CASE j = i
    BY <2>1, <1>2, <1>3
  <2>2. CASE j # i
    <3>1. byPID[info[j].pid] = j /\ info[j].pid = cpid[j] /\ cpid[j] \in Pid
      <4>1. j \in registered /\ info[j].state = "RUNNING" /\ child[j] \in Unreaped /\ info'[j] = info[j]
        BY <1>1, <1>2, <1>4, <2>2
      <4> QED BY <1>1, <4>1 DEF PidIndex, Kids, Unreaped
    <3>2. cpid[j] # cpid[i]
      BY <1>1, <1>4, <2>2 DEF Kids
    <3> QED BY <1>1, <1>2, <1>3, <2>2, <3>1, <3>2
  <2> QED BY <2>1, <2>2
<1>5. ASSUME NEW p \in Pid, byPID'[p] # NoId
      PROVE  byPID'[p] \in registered' /\ info'[byPID'[p]].pid = p
  <2>1. CASE p = cpid[i]
    BY <2>1, <1>1, <1>2, <1>3
  <2>2. CASE p # cpid[i]
    <3>1. byPID[p] \in registered /\ info[byPID[p]].pid = p
      BY <2>2, <1>3, <1>5 DEF PidIndex
    <3>2. byPID[p] # i
      BY <3>1, RegistryAssumption DEF Kids, Starting
    <3> QED BY <2>2, <1>1, <1>2, <1>3, <3>1, <3>2
  <2> QED BY <2>1, <2>2
<1> HIDE DEF Publish
<1> QED BY <1>4, <1>5 DEF PidIndex, Unreaped

LEMMA PidsStep ==
    ASSUME IInv, Kids, PidIndex, [Next]_vars
    PROVE  PidIndex'
PROOF
<1>0. /\ TypeOK /\ registered \subseteq Id
      /\ \A p \in Pid : byPID[p] # NoId => byPID[p] \in registered
  BY DEF IInv, TypeOK, ServiceTypes, PidIndex
<1>1. ASSUME NEW i \in Id, Launch(i) PROVE PidIndex'
  <2>1. CASE Register(i)
    <3>1. i \notin registered /\ info'[i].state = "STARTING" /\ \A j \in Id \ {i} : info'[j] = info[j]
      BY <2>1 DEF Register, IInv, Stages, TypeOK, RecordTypes, Blank
    <3>2. /\ registered' = (registered \ evicted) \cup {i} /\ byPID' = byPIDWithout(evicted)
          /\ child' = child
      BY <2>1 DEF Register, os
    <3>3. ASSUME NEW j \in registered', info'[j].state = "RUNNING", child'[j] \in Unreaped
          PROVE  byPID'[info'[j].pid] = j
      <4>1. j \in registered \ evicted /\ info'[j] = info[j] /\ child[j] \in Unreaped
        BY <1>0, <3>1, <3>2, <3>3
      <4>2. byPID[info[j].pid] = j /\ info[j].pid \in Pid
        BY <1>0, <4>1, <3>3 DEF PidIndex, Kids, Unreaped
      <4> QED BY <1>0, <3>2, <4>1, <4>2, ByPidWithout
    <3>4. ASSUME NEW p \in Pid, byPID'[p] # NoId
          PROVE  byPID'[p] \in registered' /\ info'[byPID'[p]].pid = p
      BY <1>0, <3>1, <3>2, <3>4, ByPidWithout
    <3> QED BY <3>3, <3>4 DEF PidIndex, Unreaped
  <2>2. CASE CreateFails(i)
    BY <2>2, <1>0, PidRemoval DEF CreateFails, record, os
  <2>3. CASE SaveRunningFails(i) \/ PublishRunning(i)
    BY <2>3, PidPublished DEF SaveRunningFails, PublishRunning, os
  <2>4. CASE \/ \E n \in Name : StartRequest(i, n)
             \/ RefuseStart(i) \/ CreateMetadata(i) \/ CreateStatus(i)
             \/ SpawnFails(i) \/ SaveFailed(i) \/ SaveRunning(i) \/ StartReply(i)
    <3>1. UNCHANGED <<registered, byPID, info, child>>
      BY <2>4 DEF StartRequest, RefuseStart, CreateMetadata, CreateStatus, SpawnFails, SaveFailed,
                  SaveRunning, StartReply, service, record, os
    <3> QED BY <1>0, <3>1, PidIndexKept
  <2>5. CASE Spawn(i)
    <3>1. info[i].state = "STARTING" /\ \A j \in Id \ {i} : child'[j] = child[j]
      BY <2>5 DEF Spawn, IInv, Stages, Starting, TypeOK, OsTypes
    <3>2. UNCHANGED <<registered, byPID, info>>
      BY <2>5 DEF Spawn, service
    <3> QED BY <1>0, <3>1, <3>2 DEF PidIndex
  <2>6. CASE SettleFailed(i)
    <3>1. UNCHANGED <<registered, byPID, child>>
      BY <2>6 DEF SettleFailed, Settle, os
    <3>2. \A j \in Id : info'[j].pid = info[j].pid
                        /\ (info'[j].state = "RUNNING" => info[j].state = "RUNNING")
      BY <2>6 DEF SettleFailed, Settle, IInv, TypeOK, RecordTypes, Info
    <3> QED BY <1>0, <3>1, <3>2, PidIndexKept
  <2>7. CASE KillUnsaved(i)
    <3>1. UNCHANGED <<registered, byPID, info>>
          /\ \A j \in Id : child'[j] \in Unreaped => child[j] \in Unreaped
      BY <2>7 DEF KillUnsaved, Killed, Unreaped, service, record
    <3> QED BY <1>0, <3>1, PidIndexKept
  <2> QED BY <1>1, <2>1, <2>2, <2>3, <2>4, <2>5, <2>6, <2>7 DEF Launch
<1>2. ASSUME NEW i \in Id, Finish(i) PROVE PidIndex'
  <2>1. UNCHANGED <<registered, byPID>>
    BY <1>2 DEF Finish, Reap, Drain, SaveExited, SettleExited, Settle, service
  <2>2. \A j \in Id : /\ info'[j].pid = info[j].pid
                      /\ info'[j].state = "RUNNING" => info[j].state = "RUNNING"
                      /\ child'[j] \in Unreaped => child[j] \in Unreaped
    BY <1>2 DEF Finish, Reap, Drain, SaveExited, SettleExited, Settle, record, os, Unreaped,
                IInv, TypeOK, RecordTypes, Info, OsTypes
  <2> QED BY <1>0, <2>1, <2>2, PidIndexKept
<1>3. ASSUME NEW i \in Id, History(i) PROVE PidIndex'
  <2>1. CASE DeleteProcess(i)
    BY <2>1, <1>0, PidRemoval DEF DeleteProcess, record, os
  <2>2. CASE DeleteFails(i) \/ ObserveLogs(i) \/ ReleaseLogs(i)
    <3>1. UNCHANGED <<registered, byPID, info, child>>
      BY <2>2 DEF DeleteFails, ObserveLogs, ReleaseLogs, service, record, os
    <3> QED BY <1>0, <3>1, PidIndexKept
  <2> QED BY <1>3, <2>1, <2>2 DEF History
<1>4. CASE \/ \E i \in Id : System(i)
           \/ \E c \in Caller : Signal(c)
           \/ Shutdown \/ UNCHANGED vars
  <2>1. UNCHANGED <<registered, byPID, info>>
    BY <1>4, SignalFrame DEF System, ChildExits, InitReaps, TearLog, Shutdown, BeginShutdown,
       ShutdownTerm, ShutdownDrained, ShutdownExpires, ShutdownGivesUp, service, record, vars
  <2>2. \A j \in Id : child'[j] \in Unreaped => child[j] \in Unreaped
    BY <1>4, SignalFrame DEF System, ChildExits, InitReaps, TearLog, Shutdown, BeginShutdown,
       ShutdownTerm, ShutdownDrained, ShutdownExpires, ShutdownGivesUp, os, vars, Killed, Unreaped,
       IInv, TypeOK, OsTypes
  <2> QED BY <1>0, <2>1, <2>2, PidIndexKept
<1>5. CASE Controller
  <2>1. CASE Exit \/ Crash
    BY <2>1 DEF Exit, Crash, Lose, PidIndex
  <2>2. CASE Load
    <3>1. registered' = Kept /\ Kept \subseteq Loadable /\ Loadable \subseteq Id
      BY <2>2 DEF Load, Kept, Loadable
    <3>2. \A i \in Kept : info'[i] = disk[i].status /\ ~isActiveState(disk[i].status.state)
      BY <2>2, <3>1 DEF Load, LoadDone
    <3>3. ASSUME NEW p \in Pid, byPID'[p] # NoId
          PROVE  byPID'[p] \in registered' /\ info'[byPID'[p]].pid = p
      <4> DEFINE S == {i \in Kept : disk[i].status.pid = p}
      <4>1. byPID'[p] = Newest(S, created)
        BY <2>2 DEF Load, byPIDLoaded
      <4>2. S \in SUBSET Id
        BY <3>1
      <4>3. IsFiniteSet(S) /\ \A i \in S : created[i] \in Int
        BY <4>2, FS_Subset, RegistryAssumption, <1>0 DEF TypeOK, RecordTypes
      <4>4. Newest(S, created) \in S
        <5> HIDE DEF S
        <5> QED BY <4>1, <4>3, <3>3, NewestType
      <4> QED BY <4>1, <4>4, <3>1, <3>2
    <3> QED BY <3>1, <3>2, <3>3 DEF PidIndex, isActiveState
  <2>3. CASE Restart \/ LoadFails \/ MarkLostFails \/ \E i \in Id : MarkLost(i)
    <3>1. UNCHANGED <<registered, byPID, info, child>>
      BY <2>3 DEF Restart, LoadFails, MarkLostFails, MarkLost, service, record, os
    <3> QED BY <1>0, <3>1, PidIndexKept
  <2> QED BY <1>5, <2>1, <2>2, <2>3 DEF Controller
<1> QED BY <1>1, <1>2, <1>3, <1>4, <1>5 DEF Next

-----------------------------------------------------------------------------
(* The inductive invariant. *)

LEMMA OInvInit == Init => OInv
PROOF
<1> SUFFICES ASSUME Init PROVE OInv
  OBVIOUS
<1>1. OnDisk /\ TerminalDurable /\ OverOnDisk /\ Watched
  BY DEF Init, OnDisk, TerminalDurable, OverOnDisk, Watched
<1>2. Kids
  BY DEF Init, Kids, Childless, Started, Starting, Running, Reaping, Unreaped
<1>3. Positions /\ Phases
  BY DEF Init, Positions, Phases, Launching, Reaping
<1>4. NameIndex
  BY DEF Init, NameIndex, Newest, ActiveIds
<1>5. PidIndex
  BY DEF Init, PidIndex
<1> QED BY <1>1, <1>2, <1>3, <1>4, <1>5 DEF OInv

LEMMA OInvStep == IInv /\ OInv /\ [Next]_vars => OInv'
BY OnDiskStep, DurableStep, OverOnDiskStep, KidsStep, PhasesStep, WatchedStep, NamesStep, PidsStep
   DEF OInv

(* What each stage of a goroutine and each phase of Shutdown may rely on   *)
(* holds in every reachable state.                                         *)
THEOREM OutcomesInductive == Spec => [](IInv /\ OInv)
<1>1. Init => IInv /\ OInv
  BY InvInit, OInvInit
<1>2. IInv /\ OInv /\ [Next]_vars => IInv' /\ OInv'
  BY InvStep, OInvStep
<1> QED BY <1>1, <1>2, PTL DEF Spec

(* How a process ended is durable before anyone can see it, a process that *)
(* is done was collected, and a deleted one stays deleted, through faults, *)
(* crashes and restarts.                                                   *)
THEOREM EndsAreKnown == Spec => []EndsHold
<1>1. IInv /\ OInv => EndsHold
  BY DEF IInv, OInv, Children, Deletions, EndsHold, DoneIsReaped, DeletedForGood
<1> QED BY <1>1, OutcomesInductive, PTL

(* A name always resolves to the record registered last under it and a pid *)
(* to the running child that has it, through evictions, deletions and      *)
(* restarts.                                                               *)
THEOREM IndexesLead == Spec => []Indexes
<1>1. OInv => Indexes
  BY DEF OInv, Indexes
<1> QED BY <1>1, OutcomesInductive, PTL

(* Shutdown, once it returned, has left no child of this run alive and,    *)
(* unless it gave up, no record that the next start finds LOST.            *)
THEOREM ShutdownLeavesNothing == Spec => []ShutdownComplete
<1>1. ASSUME IInv, OInv PROVE ShutdownComplete
  <2>1. \A i \in Id : pc[i] \in PC
    BY <1>1 DEF IInv, TypeOK
  <2>2. ASSUME NEW i \in Id, shut \in Ended, child[i] = "alive" PROVE pc[i] = "over"
    BY <1>1, <2>1, <2>2 DEF OInv, Phases, Kids, Ended, PC, Childless, Unreaped
  <2>3. ASSUME shut \in {"clean", "forced"}, NEW i \in Loadable, isActiveState(disk[i].status.state)
        PROVE  i \in stale
    <3>1. i \in Id /\ disk[i].stage = "full" /\ up = "serving"
      BY <1>1, <2>3 DEF Loadable, OInv, Phases
    <3>2. pc[i] = "over"
      BY <1>1, <2>1, <2>3, <3>1 DEF OInv, Phases, PC, IInv, Stages
    <3> QED BY <1>1, <2>3, <3>1, <3>2 DEF OInv, OverOnDisk
  <2> QED BY <2>2, <2>3 DEF ShutdownComplete, Ended
<1> QED BY <1>1, OutcomesInductive, PTL

-----------------------------------------------------------------------------
(* Action properties. *)

(* In memory a record follows the transitions of the requirements while    *)
(* the controller serves.                                                  *)
MemoryFollows ==
    Serving /\ up' = "serving" =>
        \A i \in registered \cap registered' :
            info'[i].state # info[i].state => <<info[i].state, info'[i].state>> \in MemorySteps

LEMMA MemoryStep ==
    ASSUME IInv, [Next]_vars
    PROVE  MemoryFollows
PROOF
<1> USE DEF IInv, TypeOK, RecordTypes, MemorySteps, MemoryFollows
<1>0. registered \subseteq Id
  BY DEF ServiceTypes
<1>1. ASSUME NEW i \in Id, Launch(i) PROVE MemoryFollows
  <2>1. CASE Register(i)
    BY <2>1, <1>0 DEF Register, Stages
  <2>2. CASE SettleFailed(i)
    BY <2>2, <1>0 DEF SettleFailed, Settle, Stages, Starting, Info
  <2>3. CASE SaveRunningFails(i) \/ PublishRunning(i)
    <3>1. info[i].state = "STARTING" /\ info'[i].state = "RUNNING"
          /\ \A j \in Id \ {i} : info'[j] = info[j]
      BY <2>3 DEF SaveRunningFails, PublishRunning, Publish, Stages, Starting, Info
    <3> QED BY <3>1, <1>0
  <2>4. CASE ~Register(i) /\ ~SettleFailed(i) /\ ~SaveRunningFails(i) /\ ~PublishRunning(i)
    BY <1>1, <2>4 DEF Launch, StartRequest, RefuseStart, CreateMetadata, CreateStatus, CreateFails,
       Spawn, SpawnFails, SaveFailed, SaveRunning, KillUnsaved, StartReply, record
  <2> QED BY <2>1, <2>2, <2>3, <2>4
<1>2. ASSUME NEW i \in Id, Finish(i) PROVE MemoryFollows
  BY <1>2, <1>0 DEF Finish, Reap, Drain, SaveExited, SettleExited, Settle, Stages, Running, Reaping,
                    Info, record
<1>3. CASE Controller
  BY <1>3 DEF Controller, Exit, Crash, Lose, Restart, Load, LoadDone, LoadFails, MarkLostFails,
              MarkLost, Serving
<1>4. CASE \/ \E i \in Id : History(i) \/ System(i)
           \/ \E c \in Caller : Signal(c)
           \/ Shutdown \/ UNCHANGED vars
  <2>1. info' = info
    BY <1>4, SignalFrame DEF History, DeleteProcess, DeleteFails, ObserveLogs, ReleaseLogs, System,
       ChildExits, InitReaps, TearLog, Shutdown, BeginShutdown, ShutdownTerm, ShutdownDrained,
       ShutdownExpires, ShutdownGivesUp, record, vars
  <2> QED BY <2>1
<1> QED BY <1>1, <1>2, <1>3, <1>4 DEF Next

(* So does its status on disk, restarts included; only a start or exit     *)
(* whose write failed skips a state.                                       *)
DiskFollows ==
    \A i \in Loadable :
        disk'[i].stage = "full" /\ disk'[i].status.state # disk[i].status.state
            => <<disk[i].status.state, disk'[i].status.state>> \in DiskSteps

LEMMA DiskStep ==
    ASSUME IInv, OnDisk, [Next]_vars
    PROVE  DiskFollows
PROOF
<1> USE DEF IInv, TypeOK, StoreTypes, DiskRecord, MemorySteps, DiskSteps, DiskFollows, Loadable
<1>1. ASSUME NEW i \in Id, Launch(i) PROVE DiskFollows
  <2>1. CASE CreateMetadata(i) \/ CreateStatus(i) \/ CreateFails(i)
    BY <2>1 DEF CreateMetadata, CreateStatus, CreateFails, OnDisk
  <2>2. CASE SaveFailed(i) \/ SaveRunning(i)
    BY <2>2 DEF SaveFailed, SaveRunning, Write, OnDisk
  <2>3. CASE ~CreateMetadata(i) /\ ~CreateStatus(i) /\ ~CreateFails(i) /\ ~SaveFailed(i) /\ ~SaveRunning(i)
    BY <1>1, <2>3 DEF Launch, StartRequest, RefuseStart, Register, Spawn, SpawnFails, SettleFailed,
       SaveRunningFails, KillUnsaved, PublishRunning, StartReply, Settle, store
  <2> QED BY <2>1, <2>2, <2>3
<1>2. ASSUME NEW i \in Id, Finish(i) PROVE DiskFollows
  BY <1>2 DEF Finish, Reap, Drain, SaveExited, SettleExited, Settle, Write, OnDisk, store
<1>3. ASSUME NEW i \in Id, History(i) PROVE DiskFollows
  BY <1>3 DEF History, DeleteProcess, DeleteFails, ObserveLogs, ReleaseLogs, store
<1>4. ASSUME NEW i \in Id, MarkLost(i) PROVE DiskFollows
  BY <1>4 DEF MarkLost, Write, isActiveState
<1>5. CASE \/ \E i \in Id : System(i)
           \/ \E c \in Caller : Signal(c)
           \/ Shutdown \/ UNCHANGED vars
           \/ Exit \/ Crash \/ Restart \/ Load \/ LoadFails \/ MarkLostFails
  <2>1. disk' = disk
    BY <1>5, SignalFrame DEF System, ChildExits, InitReaps, TearLog, Shutdown, BeginShutdown,
       ShutdownTerm, ShutdownDrained, ShutdownExpires, ShutdownGivesUp, store, vars,
       Exit, Crash, Restart, Load, LoadFails, MarkLostFails
  <2> QED BY <2>1
<1> QED BY <1>1, <1>2, <1>3, <1>4, <1>5 DEF Next, Controller

(* No step leaves a terminal state or takes a transition the requirements  *)
(* do not have, in memory or on disk.                                      *)
THEOREM StatesFollow == Spec => Lifecycle
<1>1. ASSUME IInv, OInv, [Next]_vars PROVE MemoryFollows /\ DiskFollows
  BY <1>1, MemoryStep, DiskStep DEF OInv
<1>2. IInv /\ OInv /\ [Next]_vars =>
        [/\ Serving /\ up' = "serving" =>
             \A i \in registered \cap registered' :
                info'[i].state # info[i].state => <<info[i].state, info'[i].state>> \in MemorySteps
         /\ \A i \in Loadable : LET s == disk[i].status.state IN
             disk'[i].stage = "full" /\ disk'[i].status.state # s
                => <<s, disk'[i].status.state>> \in DiskSteps]_vars
  BY <1>1 DEF MemoryFollows, DiskFollows
<1> QED BY <1>2, OutcomesInductive, PTL DEF Spec, Lifecycle

(* No step of anyone changes how complete the directory of an observed log *)
(* is.                                                                     *)
LEMMA WatchedDisk ==
    ASSUME IInv, OInv, [Next]_vars
    PROVE  \A i \in observed : disk'[i].stage = disk[i].stage
PROOF
<1> DEFINE Stays == \A i \in observed : disk'[i].stage = disk[i].stage
<1> USE DEF IInv, TypeOK, StoreTypes, DiskRecord
<1>0. observed \subseteq Id
  BY DEF RecordTypes
<1>1. ASSUME NEW i \in Id, Launch(i) PROVE Stays
  <2>1. CASE CreateMetadata(i) \/ CreateStatus(i) \/ CreateFails(i)
    BY <2>1, <1>0 DEF CreateMetadata, CreateStatus, CreateFails, OInv, Watched
  <2>2. CASE SaveFailed(i) \/ SaveRunning(i)
    BY <2>2, <1>0 DEF SaveFailed, SaveRunning, Write
  <2>3. CASE ~CreateMetadata(i) /\ ~CreateStatus(i) /\ ~CreateFails(i) /\ ~SaveFailed(i) /\ ~SaveRunning(i)
    BY <1>1, <2>3 DEF Launch, StartRequest, RefuseStart, Register, Spawn, SpawnFails, SettleFailed,
       SaveRunningFails, KillUnsaved, PublishRunning, StartReply, Settle, store
  <2> QED BY <2>1, <2>2, <2>3
<1>2. ASSUME NEW i \in Id, Finish(i) PROVE Stays
  BY <1>2, <1>0 DEF Finish, Reap, Drain, SaveExited, SettleExited, Settle, Write, store
<1>3. ASSUME NEW i \in Id, History(i) PROVE Stays
  BY <1>3, <1>0 DEF History, DeleteProcess, DeleteFails, Deletable, ObserveLogs, ReleaseLogs, store
<1>4. ASSUME NEW i \in Id, MarkLost(i) PROVE Stays
  BY <1>4, <1>0 DEF MarkLost, Write
<1>5. CASE \/ \E i \in Id : System(i)
           \/ \E c \in Caller : Signal(c)
           \/ Shutdown \/ UNCHANGED vars
           \/ Exit \/ Crash \/ Restart \/ Load \/ LoadFails \/ MarkLostFails
  <2>1. disk' = disk
    BY <1>5, SignalFrame DEF System, ChildExits, InitReaps, TearLog, Shutdown, BeginShutdown,
       ShutdownTerm, ShutdownDrained, ShutdownExpires, ShutdownGivesUp, store, vars,
       Exit, Crash, Restart, Load, LoadFails, MarkLostFails
  <2> QED BY <2>1
<1> QED BY <1>1, <1>2, <1>3, <1>4, <1>5 DEF Next, Controller

(* The directory of an observed log is not removed under its observer,     *)
(* whatever evictions, deletions and batches run beside it.                *)
THEOREM ObservedLogsKept == Spec => ObservedLogStays
<1>1. IInv /\ OInv /\ [Next]_vars => [\A i \in observed : disk'[i].stage = disk[i].stage]_vars
  BY WatchedDisk
<1> QED BY <1>1, OutcomesInductive, PTL DEF Spec, ObservedLogStays
===============================================================================
