---------------------------- MODULE ControllerProofs ----------------------------
(***************************************************************************)
(* Proofs about Controller, for any number of boots, of calls and of       *)
(* events: however boots of one runtime directory overlap, fail and end,   *)
(* their processes and their log have one owner, followers learn the truth *)
(* about the end of the log, and services close after their calls.         *)
(*                                                                         *)
(* What is added to BootsOrdered: which stage of a boot has which locks    *)
(* (Built), that a boot whose events are followed by those of another one  *)
(* has closed its log for good (Log), and in which stages of its boot a    *)
(* call can be (Served).                                                   *)
(***************************************************************************)
EXTENDS Controller, TLAPS

Service == {"lock", "metadata", "prepare", "files", "processes", "agent", "workflows", "listener", "mcp"}
Stage ==
    {"off", "prepare", "files", "processes", "agent", "workflows", "listener", "mcp", "serving",
     "mcpDown", "agentDown", "processesDown", "finalize", "drain", "draining", "closing", "down"}
Observing == {"replay", "range", "current", "wait"}
ObserverKind == {"snapshot", "follow"}

LogRecord ==
    [events : Seq(Boot), first : Nat, complete : BOOLEAN, boot : Boot \cup {0}, over : BOOLEAN]
BootRecord ==
    [pc : Stage, open : SUBSET Service, finalized : BOOLEAN, bad : BOOLEAN,
     expired : BOOLEAN, stopped : BOOLEAN]
CallRecord ==
    [pc : {"idle", "busy", "done"} \cup Observing, boot : Boot \cup {0}, kind : Kind \cup {"none"},
     start : Nat, end : Nat,
     reason : {"none", "broken", "unavailable", "exhausted", "snapshot", "shutdown",
               "log unavailable", "expired", "ok", "left", "cut"}]

Types ==
    /\ dir \in LogRecord
    /\ dir.first <= Ends
    /\ ctl \in [Boot -> BootRecord]
    /\ rpc \in [Client -> CallRecord]

(* What a boot has at each stage. *)
HasFiles == {"processes", "agent", "workflows", "listener", "mcp", "serving", "mcpDown",
             "agentDown", "processesDown", "finalize", "drain", "draining"}
Built(b) ==
    /\ Pc(b) \in {"off", "down"} => ctl[b].open = {}
    /\ Pc(b) \in HasFiles \/ Has(b, "processes") => Has(b, "files")
    /\ Has(b, "metadata") => Has(b, "lock")
    /\ Pc(b) \in {"drain", "draining"} => ctl[b].finalized

(* Two boots never share a lock. *)
Locks ==
    /\ \A b \in Boot : Built(b)
    /\ \A a, b \in Boot, what \in {"lock", "files"} : Has(a, what) /\ Has(b, what) => a = b

(* A boot that wrote events was started, and once another one has written  *)
(* after it, it has closed the log.                                        *)
Log ==
    /\ \A i \in 1..Ends : Pc(dir.events[i]) # "off"
    /\ \A i, j \in 1..Ends : i < j /\ dir.events[i] # dir.events[j] => ~Has(dir.events[i], "metadata")
    /\ \A i, j, k \in 1..Ends : i < j /\ j < k /\ dir.events[i] = dir.events[k] =>
          dir.events[j] = dir.events[i]
    /\ \A b \in Boot : Has(b, "metadata") => dir.boot = b /\ ~dir.over

(* The stages of a boot in which a call of it can be, and what an observer *)
(* has been promised.                                                      *)
Takes == {"serving", "mcpDown", "agentDown", "processesDown", "finalize", "drain", "draining"}
Served(c) ==
    Active(c) =>
        LET b == rpc[c].boot
        IN  /\ b \in Boot
            /\ Pc(b) \in Takes \/ (Pc(b) = "closing" /\ rpc[c].kind = "mcp")
            /\ rpc[c].kind = "mcp" => Pc(b) \in {"serving", "mcpDown"} \/ ctl[b].expired
            /\ rpc[c].pc \in Observing <=> rpc[c].kind \in ObserverKind
            /\ rpc[c].pc \in Observing =>
                  /\ Has(b, "metadata")
                  /\ dir.first <= rpc[c].start /\ rpc[c].start <= rpc[c].end /\ rpc[c].end <= Ends

(* A call that ended with the shutdown of its boot has nothing more to get *)
(* from it.                                                                *)
Told(c) ==
    LET b == rpc[c].boot
    IN  /\ rpc[c].reason # "none" => rpc[c].pc = "done"
        /\ rpc[c].reason # "expired"
        /\ rpc[c].reason = "shutdown" =>
              /\ b \in Boot /\ Pc(b) # "off" /\ ~Writable(b)
              /\ \A i \in rpc[c].end + 1 .. Ends : dir.events[i] # b

Calls == \A c \in Client : Served(c) /\ Told(c)

IInv == Types /\ Locks /\ Log /\ Calls

-----------------------------------------------------------------------------
(***************************************************************************)
(* What a step of a boot does to the boots, to the log and to the calls,   *)
(* whichever step it is.                                                   *)
(***************************************************************************)
BootEffect(b) ==
    /\ ctl' \in [Boot -> BootRecord]
    /\ \A other \in Boot \ {b} : ctl'[other] = ctl[other]
    /\ Pc(b)' # "off"
    /\ Built(b)'
    /\ \A what \in {"lock", "files"} : Has(b, what)' => Has(b, what) \/ ~Others(b, what)
    /\ Has(b, "metadata")' => Has(b, "metadata") \/ Pc(b) = "off"
    /\ Writable(b)' => Writable(b) \/ Pc(b) = "off"

LogEffect(b) ==
    /\ dir' \in LogRecord /\ dir'.first <= Len(dir'.events) /\ dir.first <= dir'.first
    /\ dir'.events = dir.events \/ (Writable(b) /\ dir'.events = Append(dir.events, b))
    /\ dir'.first # dir.first => (Has(b, "metadata") /\ Observers(b) = {})
                                   \/ (Pc(b) = "off" /\ ~Others(b, "lock"))
    /\ \/ dir'.boot = dir.boot /\ dir'.over = dir.over /\ (Has(b, "metadata")' => Has(b, "metadata"))
       \/ dir'.boot = b /\ ~dir'.over /\ ~Others(b, "lock")
       \/ Has(b, "metadata") /\ ~Has(b, "metadata")'

(* The calls of the boot are still served, or they end with it. *)
CallEffect(b) ==
    \/ rpc' = Broken(b)
    \/ /\ UNCHANGED rpc
       /\ \A c \in CallsOf(b) :
            /\ Pc(b)' \in Takes \/ (Pc(b)' = "closing" /\ rpc[c].kind = "mcp")
            /\ rpc[c].kind = "mcp" => Pc(b)' \in {"serving", "mcpDown"} \/ ctl'[b].expired
            /\ rpc[c].pc \in Observing => Has(b, "metadata")'

Effect(b) == BootEffect(b) /\ LogEffect(b) /\ CallEffect(b)

-----------------------------------------------------------------------------
(* The records a step changes. *)

LEMMA Emitted ==
    ASSUME Types, NEW b \in Boot
    PROVE  /\ emitted(b) \in LogRecord
           /\ emitted(b).events = IF Writable(b) THEN Append(dir.events, b) ELSE dir.events
           /\ emitted(b).first = dir.first /\ emitted(b).boot = dir.boot /\ emitted(b).over = dir.over
           /\ dir.first \in Nat /\ Len(dir.events) \in Nat /\ dir.first <= Len(dir.events)
           /\ Len(Append(dir.events, b)) = Len(dir.events) + 1
PROOF
<1>0. dir \in LogRecord /\ dir.first \in Nat /\ Len(dir.events) \in Nat /\ dir.first <= Len(dir.events)
      /\ dir.events \in Seq(Boot) /\ Append(dir.events, b) \in Seq(Boot)
      /\ Len(Append(dir.events, b)) = Len(dir.events) + 1
  BY DEF Types, LogRecord, Ends
<1>1. CASE Writable(b)
  BY <1>0, <1>1 DEF LogRecord, emitted
<1>2. CASE ~Writable(b)
  BY <1>0, <1>2 DEF emitted
<1> QED BY <1>0, <1>1, <1>2

LEMMA Finalized ==
    ASSUME NEW log \in LogRecord, NEW ok \in BOOLEAN
    PROVE  /\ finalized(log, ok) \in LogRecord
           /\ finalized(log, ok).events = log.events /\ finalized(log, ok).first = log.first
           /\ finalized(log, ok).boot = log.boot /\ finalized(log, ok).over = log.over
  BY DEF LogRecord, finalized

(* One boot's record is replaced. *)
LEMMA Rewritten ==
    ASSUME Types, NEW b \in Boot, NEW rec \in BootRecord, ctl' = [ctl EXCEPT ![b] = rec]
    PROVE  /\ ctl' \in [Boot -> BootRecord] /\ \A other \in Boot \ {b} : ctl'[other] = ctl[other]
           /\ ctl'[b] = rec
  BY DEF Types

LEMMA Moved ==
    ASSUME Types, NEW b \in Boot, NEW pc \in Stage, ctl' = To(b, pc)
    PROVE  /\ ctl' \in [Boot -> BootRecord] /\ \A other \in Boot \ {b} : ctl'[other] = ctl[other]
           /\ ctl'[b].pc = pc /\ ctl'[b].open = ctl[b].open
           /\ ctl'[b].finalized = ctl[b].finalized /\ ctl'[b].expired = ctl[b].expired
PROOF
<1>1. PICK rec : rec = [ctl[b] EXCEPT !.pc = pc]
  OBVIOUS
<1>2. ctl[b] \in BootRecord
  BY DEF Types
<1>3. /\ rec \in BootRecord /\ rec.pc = pc /\ rec.open = ctl[b].open
      /\ rec.finalized = ctl[b].finalized /\ rec.expired = ctl[b].expired
  BY <1>1, <1>2 DEF BootRecord
<1>4. ctl' = [ctl EXCEPT ![b] = rec]
  BY <1>1, <1>2 DEF BootRecord, To
<1> QED BY <1>3, <1>4, Rewritten

LEMMA GoneDown ==
    ASSUME Types, NEW b \in Boot, ctl' = Down(b)
    PROVE  /\ ctl' \in [Boot -> BootRecord] /\ \A other \in Boot \ {b} : ctl'[other] = ctl[other]
           /\ ctl'[b].pc = "down" /\ ctl'[b].open = {}
PROOF
<1> DEFINE r == [Free EXCEPT !.pc = "down"]
<1>2. r \in BootRecord /\ r.pc = "down" /\ r.open = {}
  BY DEF Free, BootRecord, Stage, Service
<1>3. ctl' = [ctl EXCEPT ![b] = r]
  BY DEF Down
<1> HIDE DEF r
<1> QED BY <1>2, <1>3 DEF Types

LEMMA Opened ==
    ASSUME Types, NEW b \in Boot, NEW pc \in Stage, NEW open \in SUBSET Service,
           ctl' = [ctl EXCEPT ![b].pc = pc, ![b].open = open]
    PROVE  /\ ctl' \in [Boot -> BootRecord] /\ \A other \in Boot \ {b} : ctl'[other] = ctl[other]
           /\ ctl'[b].pc = pc /\ ctl'[b].open = open
           /\ ctl'[b].finalized = ctl[b].finalized /\ ctl'[b].expired = ctl[b].expired
PROOF
<1>1. PICK rec : rec = [ctl[b] EXCEPT !.pc = pc, !.open = open]
  OBVIOUS
<1>2. ctl[b] \in BootRecord
  BY DEF Types
<1>3. /\ rec \in BootRecord /\ rec.pc = pc /\ rec.open = open
      /\ rec.finalized = ctl[b].finalized /\ rec.expired = ctl[b].expired
  BY <1>1, <1>2 DEF BootRecord
<1>4. ctl' = [ctl EXCEPT ![b] = rec]
  BY <1>1, <1>2 DEF BootRecord
<1> QED BY <1>3, <1>4, Rewritten

LEMMA Typed ==
    ASSUME Types, NEW b \in Boot
    PROVE  /\ ctl[b] \in BootRecord /\ ctl[b].pc \in Stage /\ ctl[b].open \in SUBSET Service
           /\ ctl[b].finalized \in BOOLEAN /\ ctl[b].expired \in BOOLEAN /\ ctl[b].bad \in BOOLEAN
  BY DEF Types, BootRecord

(* A step that at most writes an event. *)
LEMMA LogGoesOn ==
    ASSUME Types, NEW b \in Boot, dir' \in {dir, emitted(b)}, Has(b, "metadata")' => Has(b, "metadata")
    PROVE  LogEffect(b)
PROOF
<1>1. CASE dir' = dir
  <2>1. dir \in LogRecord /\ dir.first <= Len(dir.events) /\ dir.first <= dir.first
    BY Emitted DEF Types
  <2> QED BY <1>1, <2>1 DEF LogEffect
<1>2. CASE dir' = emitted(b)
  <2> DEFINE e == emitted(b)
  <2>a. /\ e \in LogRecord /\ e.first = dir.first /\ e.boot = dir.boot /\ e.over = dir.over
        /\ e.events = IF Writable(b) THEN Append(dir.events, b) ELSE dir.events
        /\ dir.first \in Nat /\ Len(dir.events) \in Nat /\ dir.first <= Len(dir.events)
        /\ Len(Append(dir.events, b)) = Len(dir.events) + 1
    BY Emitted
  <2> HIDE DEF e
  <2>1. /\ e \in LogRecord /\ e.first = dir.first /\ e.boot = dir.boot /\ e.over = dir.over
        /\ e.events = dir.events \/ (Writable(b) /\ e.events = Append(dir.events, b))
        /\ dir.first <= dir.first /\ e.first <= Len(e.events)
    BY <2>a
  <2> QED BY <1>2, <2>1 DEF LogEffect, e
<1> QED BY <1>1, <1>2

-----------------------------------------------------------------------------
(* The steps of a boot, one by one. *)

LEMMA OpenEffect == ASSUME IInv, NEW b \in Boot, Open(b) PROVE Effect(b)
PROOF
<1>0. Types /\ Pc(b) = "off" /\ ctl[b].open = {} /\ "prepare" \in Stage /\ {"lock", "metadata"} \in SUBSET Service
  BY DEF IInv, Locks, Built, Open, Stage, Service
<1>1. \A c \in CallsOf(b) : FALSE
  BY <1>0 DEF IInv, Calls, Served, CallsOf, Takes
<1>2. CallEffect(b)
  BY <1>1 DEF Open, CallEffect
<1>3. CASE ctl' = To(b, "prepare") /\ UNCHANGED dir
  <2>0. /\ ctl' \in [Boot -> BootRecord] /\ \A other \in Boot \ {b} : ctl'[other] = ctl[other]
        /\ ctl'[b].pc = "prepare" /\ ctl'[b].open = {}
    BY <1>0, <1>3, Moved
  <2>1. BootEffect(b)
    BY <1>0, <2>0 DEF BootEffect, Built, Has, Pc, Writable, HasFiles
  <2>2. LogEffect(b)
    BY <1>0, <1>3, <2>0, Emitted DEF LogEffect, Has, Types
  <2> QED BY <1>2, <2>1, <2>2 DEF Effect
<1>4. ASSUME ~Others(b, "lock"), ctl' = [ctl EXCEPT ![b].pc = "prepare", ![b].open = {"lock", "metadata"}],
             NEW first \in {dir.first} \cup IF dir.over THEN {Ends} ELSE {},
             NEW complete \in {dir.complete, TRUE},
             dir' = [dir EXCEPT !.boot = b, !.over = FALSE, !.first = first, !.complete = complete]
      PROVE  Effect(b)
  <2>0. /\ ctl' \in [Boot -> BootRecord] /\ \A other \in Boot \ {b} : ctl'[other] = ctl[other]
        /\ ctl'[b].pc = "prepare" /\ ctl'[b].open = {"lock", "metadata"}
    <3>1. PICK pc \in Stage, open \in SUBSET Service : pc = "prepare" /\ open = {"lock", "metadata"}
      BY <1>0
    <3>2. ctl' = [ctl EXCEPT ![b].pc = pc, ![b].open = open]
      BY <1>4, <3>1
    <3>3. PICK rec : rec = [ctl[b] EXCEPT !.pc = pc, !.open = open]
      OBVIOUS
    <3>4. Types /\ ctl[b] \in BootRecord
      BY <1>0 DEF Types
    <3>5. rec \in BootRecord /\ rec.pc = "prepare" /\ rec.open = {"lock", "metadata"}
      BY <3>1, <3>3, <3>4 DEF BootRecord
    <3>6. ctl' = [ctl EXCEPT ![b] = rec]
      BY <3>2, <3>3, <3>4 DEF BootRecord
    <3> QED BY <3>4, <3>5, <3>6, Rewritten
  <2>a. ~Others(b, "lock")
    BY <1>4
  <2>1. BootEffect(b)
    BY <1>0, <2>0, <2>a DEF BootEffect, Built, Has, Pc, Writable, HasFiles
  <2>b. dir \in LogRecord /\ dir.first \in Nat /\ Len(dir.events) \in Nat /\ dir.first <= Len(dir.events)
        /\ dir.complete \in BOOLEAN
    BY <1>0 DEF Types, LogRecord, Ends
  <2>2. first \in Nat /\ complete \in BOOLEAN /\ dir.first <= first /\ first <= Len(dir.events)
    <3>1. first = dir.first \/ first = Len(dir.events)
      BY <1>4 DEF Ends
    <3>2. complete \in BOOLEAN
      BY <2>b, Zenon
    <3> QED BY <2>b, <3>1, <3>2
  <2>3. /\ dir' \in LogRecord /\ dir'.events = dir.events /\ dir'.first = first /\ dir'.boot = b /\ ~dir'.over
    BY <1>4, <2>b, <2>2 DEF LogRecord
  <2>4. LogEffect(b)
    BY <1>0, <2>a, <2>b, <2>2, <2>3 DEF LogEffect
  <2> QED BY <1>2, <2>1, <2>4 DEF Effect
<1> QED BY <1>3, <1>4 DEF Open

LEMMA ConstructEffect == ASSUME IInv, NEW b \in Boot, Construct(b) PROVE Effect(b)
PROOF
<1>a. /\ Types /\ Built(b) /\ ctl[b].open \in SUBSET Service
      /\ Pc(b) \in {"prepare", "files", "processes", "agent", "workflows", "listener", "mcp"}
  BY Typed DEF IInv, Locks, Construct, afterService
<1>b. /\ ctl[b].open \cup {Pc(b)} \in SUBSET Service /\ "closing" \in Stage
      /\ afterService[Pc(b)] \in
           {"files", "processes", "agent", "workflows", "listener", "mcp", "serving"}
      /\ Pc(b) = "prepare" => afterService[Pc(b)] = "files"
  BY <1>a DEF afterService, Stage, Service
<1>c. afterService[Pc(b)] \in Stage
  BY <1>b DEF Stage
<1>0. Types /\ Built(b)
  BY <1>a
<1>1. \A c \in CallsOf(b) : FALSE
  BY <1>a DEF IInv, Calls, Served, CallsOf, Takes
<1>2. CallEffect(b)
  BY <1>1 DEF Construct, CallEffect
<1>3. CASE ctl' = To(b, "closing") /\ UNCHANGED dir
  <2>0. /\ ctl' \in [Boot -> BootRecord] /\ \A other \in Boot \ {b} : ctl'[other] = ctl[other]
        /\ ctl'[b].pc = "closing" /\ ctl'[b].open = ctl[b].open /\ ctl'[b].finalized = ctl[b].finalized
    BY <1>0, <1>b, <1>3, Moved
  <2>1. BootEffect(b)
    BY <1>0, <2>0 DEF BootEffect, Built, Has, Pc, Writable, HasFiles
  <2>2. LogEffect(b)
    BY <1>0, <1>3, <2>0, Emitted DEF LogEffect, Has, Types
  <2> QED BY <1>2, <2>1, <2>2 DEF Effect
<1>4. ASSUME Pc(b) \in Exclusive => ~Others(b, Pc(b)),
             ctl' = [ctl EXCEPT ![b].open = @ \cup {Pc(b)}, ![b].pc = afterService[Pc(b)]],
             dir' = IF Pc(b) = "mcp" THEN emitted(b) ELSE dir
      PROVE  Effect(b)
  <2>1. /\ ctl' \in [Boot -> BootRecord] /\ \A other \in Boot \ {b} : ctl'[other] = ctl[other]
        /\ ctl'[b].pc = afterService[Pc(b)] /\ ctl'[b].open = ctl[b].open \cup {Pc(b)}
        /\ ctl'[b].finalized = ctl[b].finalized /\ ctl'[b].expired = ctl[b].expired
    <3>1. PICK pc \in Stage, open \in SUBSET Service :
             pc = afterService[Pc(b)] /\ open = ctl[b].open \cup {Pc(b)}
      BY <1>b, <1>c
    <3>2. ctl' = [ctl EXCEPT ![b].open = open, ![b].pc = pc]
      BY <1>4, <3>1
    <3>3. PICK rec : rec = [ctl[b] EXCEPT !.open = open, !.pc = pc]
      OBVIOUS
    <3>4. ctl[b] \in BootRecord
      BY <1>0 DEF Types
    <3>5. /\ rec \in BootRecord /\ rec.pc = pc /\ rec.open = open
          /\ rec.finalized = ctl[b].finalized /\ rec.expired = ctl[b].expired
      BY <3>1, <3>3, <3>4 DEF BootRecord
    <3>6. ctl' = [ctl EXCEPT ![b] = rec]
      BY <3>2, <3>3, <3>4 DEF BootRecord
    <3> QED BY <1>0, <3>1, <3>5, <3>6, Rewritten
  <2>2. BootEffect(b)
    <3>1. Pc(b) = "files" => ~Others(b, "files")
      BY <1>4 DEF Exclusive
    <3> QED BY <1>a, <1>b, <2>1, <3>1 DEF BootEffect, Built, Has, Pc, Writable, HasFiles
  <2>3. LogEffect(b)
    <3>1. dir' = dir \/ dir' = emitted(b)
      BY <1>4
    <3>2. Has(b, "metadata")' => Has(b, "metadata")
      BY <1>a, <2>1 DEF Has, Pc
    <3> QED BY <1>0, <3>1, <3>2, LogGoesOn
  <2> QED BY <1>2, <2>2, <2>3 DEF Effect
<1> QED BY <1>3, <1>4 DEF Construct

(* A boot that runs goes on; it may give up what no lock and no log is. *)
LEMMA GoesOn ==
    ASSUME IInv, NEW b \in Boot, Pc(b) \notin {"off", "down"},
           ctl' \in [Boot -> BootRecord], \A other \in Boot \ {b} : ctl'[other] = ctl[other],
           NEW left \in SUBSET {"listener", "mcp", "agent"}, ctl'[b].open = ctl[b].open \ left,
           ctl[b].finalized => ctl'[b].finalized,
           ctl'[b].pc \notin {"off", "down"},
           ctl'[b].pc \in HasFiles => Pc(b) \in HasFiles,
           ctl'[b].pc \in {"drain", "draining"} => ctl'[b].finalized
    PROVE  BootEffect(b) /\ (Has(b, "metadata")' <=> Has(b, "metadata"))
PROOF
<1>1. Built(b)
  BY DEF IInv, Locks
<1>2. \A what : what \notin left => (Has(b, what)' <=> Has(b, what))
  BY DEF Has
<1>3. /\ "metadata" \notin left /\ "lock" \notin left /\ "files" \notin left /\ "processes" \notin left
  OBVIOUS
<1>4. \A what \in {"metadata", "lock", "files", "processes"} : Has(b, what)' <=> Has(b, what)
  BY <1>2, <1>3
<1>5. Built(b)'
  BY <1>1, <1>4 DEF Built, Pc
<1> QED BY <1>4, <1>5 DEF BootEffect, Pc, Writable

LEMMA ServesOn ==
    ASSUME IInv, NEW b \in Boot, rpc' = rpc, Has(b, "metadata") => Has(b, "metadata")',
           Pc(b) \in Takes, ctl'[b].pc \in Takes, ctl[b].expired => ctl'[b].expired,
           \/ ctl'[b].pc \in {"serving", "mcpDown"} \/ CallsOf(b) = RpcsOf(b) \/ ctl'[b].expired
           \/ Pc(b) \notin {"serving", "mcpDown"}
    PROVE  CallEffect(b)
PROOF
<1> SUFFICES ASSUME NEW c \in CallsOf(b)
    PROVE /\ Pc(b)' \in Takes
          /\ rpc[c].kind = "mcp" => Pc(b)' \in {"serving", "mcpDown"} \/ ctl'[b].expired
          /\ rpc[c].pc \in Observing => Has(b, "metadata")'
  BY DEF CallEffect
<1>1. Served(c) /\ Active(c) /\ rpc[c].boot = b
  BY DEF IInv, Calls, CallsOf
<1>2. CallsOf(b) = RpcsOf(b) => rpc[c].kind # "mcp"
  BY DEF RpcsOf
<1> QED BY <1>1, <1>2 DEF Served, Pc

(* The stages of Shutdown that change no more than the stage, or close     *)
(* what no lock and no log is.                                             *)
LEMMA StageEffect ==
    ASSUME IInv, NEW b \in Boot, NEW pc \in Stage, NEW left \in SUBSET {"listener", "mcp", "agent"},
           Pc(b) \in Takes, pc \in Takes, pc = "draining" => Pc(b) = "drain", pc # "drain",
           (ctl' = To(b, pc) /\ left = {}) \/ ctl' = [ctl EXCEPT ![b].pc = pc, ![b].open = @ \ left],
           dir' \in {dir, emitted(b)}, rpc' = rpc,
           \/ pc \in {"serving", "mcpDown"} \/ CallsOf(b) = RpcsOf(b) \/ ctl[b].expired
           \/ Pc(b) \notin {"serving", "mcpDown"}
    PROVE  Effect(b)
PROOF
<1>0. Types /\ Built(b) /\ ctl[b].open \in SUBSET Service
  BY Typed DEF IInv, Locks
<1>1. /\ ctl' \in [Boot -> BootRecord] /\ \A other \in Boot \ {b} : ctl'[other] = ctl[other]
      /\ ctl'[b].pc = pc /\ ctl'[b].open = ctl[b].open \ left
      /\ ctl'[b].finalized = ctl[b].finalized /\ ctl'[b].expired = ctl[b].expired
  <2>1. CASE ctl' = To(b, pc) /\ left = {}
    BY <1>0, <2>1, Moved
  <2>2. CASE ctl' = [ctl EXCEPT ![b].pc = pc, ![b].open = @ \ left]
    <3>1. PICK open \in SUBSET Service : open = ctl[b].open \ left
      BY <1>0
    <3>2. ctl' = [ctl EXCEPT ![b].pc = pc, ![b].open = open]
      BY <2>2, <3>1
    <3>3. /\ ctl' \in [Boot -> BootRecord] /\ \A other \in Boot \ {b} : ctl'[other] = ctl[other]
          /\ ctl'[b].pc = pc /\ ctl'[b].open = open
          /\ ctl'[b].finalized = ctl[b].finalized /\ ctl'[b].expired = ctl[b].expired
      BY <1>0, <3>2, Opened
    <3> QED BY <3>1, <3>3
  <2> QED BY <2>1, <2>2
<1>2. /\ Pc(b) \notin {"off", "down"} /\ Pc(b) \in HasFiles \cup {"draining"}
      /\ pc \notin {"off", "down"}
      /\ pc \in {"drain", "draining"} => ctl[b].finalized
  BY <1>0 DEF Takes, HasFiles, Built
<1>3. BootEffect(b) /\ (Has(b, "metadata")' <=> Has(b, "metadata"))
  BY <1>1, <1>2, GoesOn DEF HasFiles
<1>4. CallEffect(b)
  BY <1>1, <1>3, ServesOn
<1>5. LogEffect(b)
  BY <1>0, <1>3, LogGoesOn
<1> QED BY <1>3, <1>4, <1>5 DEF Effect

LEMMA ShutdownEffect ==
    ASSUME IInv, NEW b \in Boot,
           Begin(b) \/ mcpDown(b) \/ agentDown(b) \/ processesDown(b) \/ GracefulStop(b)
    PROVE  Effect(b)
PROOF
<1>0. /\ {"mcpDown", "agentDown", "processesDown", "finalize", "draining", "closing"} \subseteq Stage
      /\ Takes = {"serving", "mcpDown", "agentDown", "processesDown", "finalize", "drain", "draining"}
      /\ {} \in SUBSET {"listener", "mcp", "agent"} /\ {"mcp"} \in SUBSET {"listener", "mcp", "agent"}
      /\ {"agent"} \in SUBSET {"listener", "mcp", "agent"} /\ {"listener"} \in SUBSET {"listener", "mcp", "agent"}
  BY DEF Stage, Takes
<1>1. CASE Begin(b)
  BY <1>0, <1>1, StageEffect DEF Begin
<1>2. CASE mcpDown(b)
  BY <1>0, <1>2, StageEffect DEF mcpDown
<1>3. CASE agentDown(b)
  BY <1>0, <1>3, StageEffect DEF agentDown
<1>4. CASE processesDown(b)
  BY <1>0, <1>4, StageEffect DEF processesDown
<1>5. CASE GracefulStop(b)
  BY <1>0, <1>5, StageEffect DEF GracefulStop
<1> QED BY <1>1, <1>2, <1>3, <1>4, <1>5

LEMMA DrainedEffect == ASSUME IInv, NEW b \in Boot, Drained(b) PROVE Effect(b)
PROOF
<1>0. Types /\ Built(b) /\ "closing" \in Stage /\ Pc(b) = "draining" /\ ctl' = To(b, "closing")
      /\ dir' = dir /\ rpc' = rpc /\ RpcsOf(b) = {}
  BY DEF IInv, Locks, Stage, Drained
<1>1. /\ ctl' \in [Boot -> BootRecord] /\ \A other \in Boot \ {b} : ctl'[other] = ctl[other]
      /\ ctl'[b].pc = "closing" /\ ctl'[b].open = ctl[b].open \ {}
      /\ ctl'[b].finalized = ctl[b].finalized /\ ctl'[b].expired = ctl[b].expired
  BY <1>0, Moved
<1>2. BootEffect(b) /\ (Has(b, "metadata")' <=> Has(b, "metadata"))
  BY <1>0, <1>1, GoesOn DEF HasFiles
<1>3. LogEffect(b)
  BY <1>0, <1>2, LogGoesOn
<1>4. CallEffect(b)
  <2> SUFFICES ASSUME NEW c \in CallsOf(b)
      PROVE /\ Pc(b)' = "closing" /\ rpc[c].kind = "mcp" /\ ctl'[b].expired
            /\ rpc[c].pc \in Observing => Has(b, "metadata")'
    BY <1>0 DEF CallEffect
  <2>1. Served(c) /\ Active(c) /\ rpc[c].boot = b /\ rpc[c].kind = "mcp"
    BY <1>0 DEF IInv, Calls, CallsOf, RpcsOf
  <2> QED BY <1>0, <1>1, <1>2, <2>1 DEF Served, Pc
<1> QED BY <1>2, <1>3, <1>4 DEF Effect

LEMMA SignalEffect == ASSUME IInv, NEW b \in Boot, Expire(b) \/ Stop(b) PROVE Effect(b)
PROOF
<1>0. Types /\ Built(b) /\ Pc(b) \in Takes /\ dir' = dir /\ rpc' = rpc
  BY DEF IInv, Locks, Expire, Stop, Takes
<1>1. ctl' = [ctl EXCEPT ![b].expired = TRUE] \/ ctl' = [ctl EXCEPT ![b].stopped = TRUE]
  BY DEF Expire, Stop
<1>2. /\ ctl' \in [Boot -> BootRecord] /\ \A other \in Boot \ {b} : ctl'[other] = ctl[other]
      /\ ctl'[b].pc = ctl[b].pc /\ ctl'[b].open = ctl[b].open \ {}
      /\ ctl'[b].finalized = ctl[b].finalized /\ (ctl[b].expired => ctl'[b].expired)
  <2>1. PICK rec : rec \in {[ctl[b] EXCEPT !.expired = TRUE], [ctl[b] EXCEPT !.stopped = TRUE]}
                   /\ ctl' = [ctl EXCEPT ![b] = rec]
    BY <1>1
  <2>2. ctl[b] \in BootRecord
    BY <1>0 DEF Types
  <2>3. /\ rec \in BootRecord /\ rec.pc = ctl[b].pc /\ rec.open = ctl[b].open
        /\ rec.finalized = ctl[b].finalized /\ (ctl[b].expired => rec.expired)
    BY <2>1, <2>2 DEF BootRecord
  <2>4. rec.open = ctl[b].open \ {}
    BY <2>3
  <2> QED BY <1>0, <2>1, <2>3, <2>4, Rewritten
<1>3. /\ {} \in SUBSET {"listener", "mcp", "agent"} /\ Pc(b) \notin {"off", "down"}
      /\ Pc(b) \in {"drain", "draining"} => ctl[b].finalized
  BY <1>0 DEF Takes, Built
<1>4. BootEffect(b) /\ (Has(b, "metadata")' <=> Has(b, "metadata"))
  BY <1>2, <1>3, GoesOn DEF HasFiles, Pc
<1>5. LogEffect(b)
  BY <1>0, <1>4, LogGoesOn
<1>6. CallEffect(b)
  BY <1>0, <1>2, <1>4, ServesOn DEF Pc
<1> QED BY <1>4, <1>5, <1>6 DEF Effect

LEMMA CrashEffect == ASSUME IInv, NEW b \in Boot, Pc(b) \notin {"off", "down"}, ctl' = Down(b), rpc' = Broken(b), dir' = dir
    PROVE Effect(b)
PROOF
<1>0. Types
  BY DEF IInv
<1>1. /\ ctl' \in [Boot -> BootRecord] /\ \A other \in Boot \ {b} : ctl'[other] = ctl[other]
      /\ ctl'[b].pc = "down" /\ ctl'[b].open = {}
  BY <1>0, GoneDown
<1>2. BootEffect(b)
  BY <1>1 DEF BootEffect, Built, Pc, Has, HasFiles, Writable
<1>3. LogEffect(b)
  BY <1>0, <1>1, LogGoesOn DEF Has
<1> QED BY <1>2, <1>3 DEF Effect, CallEffect

LEMMA FinalizeEffect == ASSUME IInv, NEW b \in Boot, Finalize(b) PROVE Effect(b)
PROOF
<1>0. Types /\ Pc(b) = "finalize" /\ rpc' = rpc /\ "drain" \in Stage
  BY DEF IInv, Finalize, Stage
<1>1. PICK ok \in {~Writable(b), TRUE} :
        /\ ctl' = [ctl EXCEPT ![b].pc = "drain", ![b].finalized = TRUE,
                              ![b].bad = @ \/ (Writable(b) /\ ~ok)]
        /\ dir' = finalized(emitted(b), ~Writable(b) \/ ok)
  BY DEF Finalize
<1>2. /\ ctl' \in [Boot -> BootRecord] /\ \A other \in Boot \ {b} : ctl'[other] = ctl[other]
      /\ ctl'[b].pc = "drain" /\ ctl'[b].open = ctl[b].open \ {}
      /\ ctl'[b].finalized /\ ctl'[b].expired = ctl[b].expired
  <2>1. PICK pc \in Stage, bad \in BOOLEAN :
           pc = "drain" /\ ctl' = [ctl EXCEPT ![b].pc = pc, ![b].finalized = TRUE, ![b].bad = bad]
    <3>1. (ctl[b].bad \/ (Writable(b) /\ ~ok)) \in BOOLEAN
      OBVIOUS
    <3> QED BY <1>0, <1>1, <3>1
  <2>2. ctl[b] \in BootRecord
    BY <1>0 DEF Types
  <2>3. PICK rec : rec = [ctl[b] EXCEPT !.pc = pc, !.finalized = TRUE, !.bad = bad]
    OBVIOUS
  <2>4. /\ rec \in BootRecord /\ rec.pc = "drain" /\ rec.open = ctl[b].open
        /\ rec.finalized /\ rec.expired = ctl[b].expired
    BY <2>1, <2>2, <2>3 DEF BootRecord
  <2>5. ctl' = [ctl EXCEPT ![b] = rec]
    BY <2>1, <2>2, <2>3 DEF BootRecord
  <2>6. rec.open = ctl[b].open \ {}
    BY <2>4
  <2> QED BY <1>0, <2>4, <2>5, <2>6, Rewritten
<1>3. BootEffect(b) /\ (Has(b, "metadata")' <=> Has(b, "metadata"))
  <2>1. {} \in SUBSET {"listener", "mcp", "agent"}
    OBVIOUS
  <2> QED BY <1>0, <1>2, <2>1, GoesOn DEF HasFiles
<1>4. CallEffect(b)
  BY <1>0, <1>2, <1>3, ServesOn DEF Takes
<1>5. LogEffect(b)
  <2> DEFINE e == emitted(b)
             f == finalized(e, ~Writable(b) \/ ok)
  <2>1. /\ e \in LogRecord /\ e.first = dir.first /\ e.boot = dir.boot /\ e.over = dir.over
        /\ e.events = IF Writable(b) THEN Append(dir.events, b) ELSE dir.events
        /\ dir.first \in Nat /\ Len(dir.events) \in Nat /\ dir.first <= Len(dir.events)
        /\ Len(Append(dir.events, b)) = Len(dir.events) + 1
    BY <1>0, Emitted
  <2>2. (~Writable(b) \/ ok) \in BOOLEAN
    OBVIOUS
  <2> HIDE DEF e
  <2>3. f \in LogRecord /\ f.events = e.events /\ f.first = e.first /\ f.boot = e.boot /\ f.over = e.over
    BY <2>1, <2>2, Finalized
  <2>4. dir' = f
    BY <1>1 DEF e
  <2> HIDE DEF f
  <2>5. /\ f.events = dir.events \/ (Writable(b) /\ f.events = Append(dir.events, b))
        /\ f.first <= Len(f.events) /\ dir.first <= f.first
    BY <2>1, <2>3
  <2> QED BY <1>3, <2>1, <2>3, <2>4, <2>5 DEF LogEffect
<1> QED BY <1>3, <1>4, <1>5 DEF Effect

LEMMA EmitEffect == ASSUME IInv, NEW b \in Boot, Emit(b) PROVE Effect(b)
PROOF
<1>0. Types /\ Built(b) /\ rpc' = rpc /\ Writable(b)
  BY DEF IInv, Locks, Emit
<1>1. Pc(b) \notin {"off", "down"}
  BY <1>0 DEF Built, Writable, Has
<1>2. \A c \in CallsOf(b) : Served(c) /\ Active(c) /\ rpc[c].boot = b
  BY DEF IInv, Calls, CallsOf
<1>3. CASE dir' = emitted(b) /\ ctl' = ctl
  <2>1. BootEffect(b) /\ (Has(b, "metadata")' <=> Has(b, "metadata"))
    BY <1>0, <1>1, <1>3 DEF BootEffect, Types, Built, Pc, Has, Writable
  <2>2. LogEffect(b)
    BY <1>0, <1>3, <2>1, LogGoesOn
  <2>3. CallEffect(b)
    BY <1>0, <1>2, <1>3, <2>1 DEF CallEffect, Served, Pc
  <2> QED BY <2>1, <2>2, <2>3 DEF Effect
<1>4. CASE dir' = finalized(dir, FALSE) /\ ctl' = [ctl EXCEPT ![b].finalized = TRUE, ![b].bad = TRUE]
  <2>1. /\ ctl' \in [Boot -> BootRecord] /\ \A other \in Boot \ {b} : ctl'[other] = ctl[other]
        /\ ctl'[b].pc = ctl[b].pc /\ ctl'[b].open = ctl[b].open \ {}
        /\ ctl'[b].finalized /\ ctl'[b].expired = ctl[b].expired
    <3>1. ctl' = [ctl EXCEPT ![b].finalized = TRUE, ![b].bad = TRUE]
      BY <1>4
    <3>2. ctl[b] \in BootRecord
      BY <1>0 DEF Types
    <3>3. PICK rec : rec = [ctl[b] EXCEPT !.finalized = TRUE, !.bad = TRUE]
      OBVIOUS
    <3>4. /\ rec \in BootRecord /\ rec.pc = ctl[b].pc /\ rec.open = ctl[b].open
          /\ rec.finalized /\ rec.expired = ctl[b].expired
      BY <3>2, <3>3 DEF BootRecord
    <3>5. ctl' = [ctl EXCEPT ![b] = rec]
      BY <3>1, <3>2, <3>3 DEF BootRecord
    <3>6. rec.open = ctl[b].open \ {}
      BY <3>4
    <3> QED BY <1>0, <3>4, <3>5, <3>6, Rewritten
  <2>2. BootEffect(b) /\ (Has(b, "metadata")' <=> Has(b, "metadata"))
    <3>1. {} \in SUBSET {"listener", "mcp", "agent"}
      OBVIOUS
    <3> QED BY <1>1, <2>1, <3>1, GoesOn DEF Pc
  <2>3. CallEffect(b)
    BY <1>0, <1>2, <2>1, <2>2 DEF CallEffect, Served, Pc
  <2>4. LogEffect(b)
    <3> DEFINE f == finalized(dir, FALSE)
    <3>1. /\ dir \in LogRecord /\ dir.first \in Nat /\ Len(dir.events) \in Nat /\ dir.first <= Len(dir.events)
      BY <1>0 DEF Types, LogRecord, Ends
    <3>2. f \in LogRecord /\ f.events = dir.events /\ f.first = dir.first /\ f.boot = dir.boot /\ f.over = dir.over
      BY <3>1, Finalized
    <3>3. dir' = f
      BY <1>4
    <3> HIDE DEF f
    <3> QED BY <2>2, <3>1, <3>2, <3>3 DEF LogEffect
  <2> QED BY <2>2, <2>3, <2>4 DEF Effect
<1> QED BY <1>3, <1>4 DEF Emit

LEMMA RetainEffect == ASSUME IInv, NEW b \in Boot, Retain(b) PROVE Effect(b)
PROOF
<1>0. Types /\ Built(b) /\ rpc' = rpc /\ Has(b, "metadata") /\ ctl' = ctl /\ Observers(b) = {}
  BY DEF IInv, Locks, Retain
<1>1. Pc(b) \notin {"off", "down"}
  BY <1>0 DEF Built, Has
<1>2. \A c \in CallsOf(b) : Served(c) /\ Active(c) /\ rpc[c].boot = b
  BY DEF IInv, Calls, CallsOf
<1>3. BootEffect(b) /\ (Has(b, "metadata")' <=> Has(b, "metadata"))
  BY <1>0, <1>1 DEF BootEffect, Types, Built, Pc, Has, Writable
<1>4. CallEffect(b)
  BY <1>0, <1>2, <1>3 DEF CallEffect, Served, Pc
<1>5. LogEffect(b)
  <2>1. dir \in LogRecord /\ dir.first \in Nat /\ Len(dir.events) \in Nat
    BY <1>0 DEF Types, LogRecord
  <2>2. PICK first \in dir.first + 1 .. Ends : dir' = [dir EXCEPT !.first = first]
    BY DEF Retain
  <2>3. first \in Nat /\ dir.first <= first /\ first <= Len(dir.events)
    BY <2>1, <2>2 DEF Ends
  <2>4. /\ dir' \in LogRecord /\ dir'.events = dir.events /\ dir'.first = first /\ dir'.boot = dir.boot
        /\ dir'.over = dir.over
    BY <2>1, <2>2, <2>3 DEF LogRecord
  <2> QED BY <1>0, <1>3, <2>3, <2>4 DEF LogEffect
<1> QED BY <1>3, <1>4, <1>5 DEF Effect

(* What Close closes next: nothing before it in the order is open.         *)
LEMMA CloseNext ==
    ASSUME NEW b, NEW left, left = {i \in DOMAIN closeOrder : Has(b, closeOrder[i])}, left # {},
           NEW next, next = closeOrder[CHOOSE i \in left : \A j \in left : i <= j]
    PROVE  /\ Has(b, next)
           /\ next = "files" => ~Has(b, "processes")
           /\ next = "lock" => ~Has(b, "metadata")
PROOF
<1>1. /\ DOMAIN closeOrder = 1..6 /\ closeOrder[3] = "processes" /\ closeOrder[5] = "metadata"
      /\ \A i \in 1..6 : (closeOrder[i] = "files" => i = 4) /\ (closeOrder[i] = "lock" => i = 6)
  BY DEF closeOrder
<1>2. \E i \in left : \A j \in left : i <= j
  <2>1. left \subseteq 1..6
    BY <1>1
  <2>2. CASE 1 \in left
    BY <2>1, <2>2
  <2>3. CASE 1 \notin left /\ 2 \in left
    BY <2>1, <2>3
  <2>4. CASE 1 \notin left /\ 2 \notin left /\ 3 \in left
    BY <2>1, <2>4
  <2>5. CASE 1 \notin left /\ 2 \notin left /\ 3 \notin left /\ 4 \in left
    BY <2>1, <2>5
  <2>6. CASE 1 \notin left /\ 2 \notin left /\ 3 \notin left /\ 4 \notin left /\ 5 \in left
    BY <2>1, <2>6
  <2>7. CASE left \subseteq {6}
    BY <2>7
  <2> QED BY <2>1, <2>2, <2>3, <2>4, <2>5, <2>6, <2>7
<1>3. PICK i \in left : (\A j \in left : i <= j) /\ next = closeOrder[i]
  BY <1>2
<1>4. i \in 1..6 /\ Has(b, next)
  BY <1>1, <1>3
<1>5. next = "files" => 3 \notin left
  BY <1>1, <1>3, <1>4
<1>6. next = "lock" => 5 \notin left
  BY <1>1, <1>3, <1>4
<1>7. (3 \in left <=> Has(b, "processes")) /\ (5 \in left <=> Has(b, "metadata"))
  BY <1>1
<1> QED BY <1>4, <1>5, <1>6, <1>7

LEMMA CloseEffect == ASSUME IInv, NEW b \in Boot, Close(b) PROVE Effect(b)
PROOF
<1>0. Types /\ Built(b) /\ Pc(b) = "closing" /\ "closing" \in Stage /\ ctl[b].open \in SUBSET Service
  BY Typed DEF IInv, Locks, Close, Stage
<1> DEFINE left == {i \in DOMAIN closeOrder : Has(b, closeOrder[i])}
           next == closeOrder[CHOOSE i \in left : \A j \in left : i <= j]
<1>1. CASE left = {}
  BY <1>0, <1>1, CrashEffect DEF Close
<1>2. ASSUME left # {}, ctl' = [ctl EXCEPT ![b].open = @ \ {next}, ![b].finalized = @ \/ next = "metadata"],
             rpc' = rpc,
             \/ next # "metadata" /\ dir' = dir
             \/ next = "metadata" /\ \E ok \in {ctl[b].finalized, TRUE} :
                    dir' = [finalized(dir, ok) EXCEPT !.boot = b, !.over = TRUE]
      PROVE  Effect(b)
  <2>1. Has(b, next) /\ (next = "files" => ~Has(b, "processes")) /\ (next = "lock" => ~Has(b, "metadata"))
    <3>1. left # {}
      BY <1>2
    <3> QED BY <3>1, CloseNext
  <2> HIDE DEF left, next
  <2>2. /\ ctl' \in [Boot -> BootRecord] /\ \A other \in Boot \ {b} : ctl'[other] = ctl[other]
        /\ ctl'[b].pc = "closing" /\ ctl'[b].open = ctl[b].open \ {next}
        /\ ctl'[b].expired = ctl[b].expired /\ (ctl[b].finalized => ctl'[b].finalized)
    <3>1. PICK open \in SUBSET Service, ended \in BOOLEAN :
             /\ open = ctl[b].open \ {next} /\ (ctl[b].finalized => ended)
             /\ ctl' = [ctl EXCEPT ![b].open = open, ![b].finalized = ended]
      <4>1. (ctl[b].open \ {next}) \in SUBSET Service
        BY <1>0
      <4>2. (ctl[b].finalized \/ next = "metadata") \in BOOLEAN
        OBVIOUS
      <4> QED BY <1>2, <4>1, <4>2
    <3>2. /\ ctl' \in [Boot -> BootRecord] /\ \A other \in Boot \ {b} : ctl'[other] = ctl[other]
          /\ ctl'[b].pc = ctl[b].pc /\ ctl'[b].open = open /\ ctl'[b].finalized = ended
          /\ ctl'[b].expired = ctl[b].expired
      <4>1. ctl' = [ctl EXCEPT ![b].open = open, ![b].finalized = ended]
        BY <3>1
      <4>2. ctl[b] \in BootRecord
        BY <1>0 DEF Types
      <4>3. PICK rec : rec = [ctl[b] EXCEPT !.open = open, !.finalized = ended]
        OBVIOUS
      <4>4. /\ rec \in BootRecord /\ rec.pc = ctl[b].pc /\ rec.open = open
            /\ rec.finalized = ended /\ rec.expired = ctl[b].expired
        BY <3>1, <4>2, <4>3 DEF BootRecord
      <4>5. ctl' = [ctl EXCEPT ![b] = rec]
        BY <4>1, <4>2, <4>3 DEF BootRecord
      <4> QED BY <1>0, <4>4, <4>5, Rewritten
    <3> QED BY <1>0, <3>1, <3>2 DEF Pc
  <2>3. \A what : Has(b, what)' <=> Has(b, what) /\ what # next
    BY <2>2 DEF Has
  <2>4. BootEffect(b)
    BY <1>0, <2>1, <2>2, <2>3 DEF BootEffect, Built, Pc, HasFiles, Writable
  <2>5. CallEffect(b)
    <3>1. \A c \in CallsOf(b) : Served(c) /\ Active(c) /\ rpc[c].boot = b
      BY DEF IInv, Calls, CallsOf
    <3>2. \A c \in CallsOf(b) : /\ rpc[c].kind = "mcp" /\ ctl[b].expired /\ rpc[c].pc \notin Observing
      BY <1>0, <3>1 DEF Served, Pc, ObserverKind, Takes
    <3> QED BY <1>2, <2>2, <3>2 DEF CallEffect, Pc
  <2>6. LogEffect(b)
    <3>1. CASE next # "metadata"
      BY <1>0, <1>2, <2>3, <3>1, LogGoesOn
    <3>2. CASE next = "metadata"
      <4>1. PICK ok \in {ctl[b].finalized, TRUE} : dir' = [finalized(dir, ok) EXCEPT !.boot = b, !.over = TRUE]
        BY <1>2, <3>2
      <4>2. ok \in BOOLEAN
        BY <1>0, Typed, Zenon
      <4> DEFINE f == finalized(dir, ok)
      <4>3. /\ dir \in LogRecord /\ dir.first \in Nat /\ Len(dir.events) \in Nat /\ dir.first <= Len(dir.events)
        BY <1>0 DEF Types, LogRecord, Ends
      <4>4. f \in LogRecord /\ f.events = dir.events /\ f.first = dir.first
        BY <4>2, <4>3, Finalized
      <4>5. dir' = [f EXCEPT !.boot = b, !.over = TRUE]
        BY <4>1
      <4> HIDE DEF f
      <4>6. dir' \in LogRecord /\ dir'.events = dir.events /\ dir'.first = dir.first
        BY <4>4, <4>5 DEF LogRecord
      <4> QED BY <2>1, <2>3, <3>2, <4>3, <4>6 DEF LogEffect
    <3> QED BY <3>1, <3>2
  <2> QED BY <2>4, <2>5, <2>6 DEF Effect
<1> QED BY <1>1, <1>2 DEF Close

(* Every step of a boot is one of these. *)
LEMMA BootSteps ==
    ASSUME IInv, NEW b \in Boot,
           Open(b) \/ Boots(b) \/ Begin(b) \/ Expire(b) \/ Crash(b) \/ Emit(b) \/ Retain(b)
    PROVE  Effect(b)
  BY OpenEffect, ConstructEffect, CloseEffect, ShutdownEffect, DrainedEffect, SignalEffect, CrashEffect,
     FinalizeEffect, EmitEffect, RetainEffect DEF Boots, Crash

-----------------------------------------------------------------------------
(* They preserve the invariant. *)

LEMMA BootTypes == ASSUME IInv, NEW b \in Boot, Effect(b) PROVE Types'
PROOF
<1>1. Broken(b) \in [Client -> CallRecord]
  <2>1. NoCall \in CallRecord /\ \A c \in Client : rpc[c] \in CallRecord
    BY DEF IInv, Types, CallRecord, NoCall
  <2>2. [NoCall EXCEPT !.pc = "done", !.reason = "broken"] \in CallRecord
    BY DEF NoCall, CallRecord
  <2> QED BY <2>1, <2>2 DEF Broken
<1> QED BY <1>1 DEF IInv, Types, Effect, BootEffect, LogEffect, CallEffect, Ends

LEMMA BootLocks == ASSUME IInv, NEW b \in Boot, BootEffect(b) PROVE Locks'
PROOF
<1>1. \A a \in Boot \ {b} : Built(a)' /\ \A what : Has(a, what)' <=> Has(a, what)
  BY DEF IInv, Locks, BootEffect, Built, Pc, Has
<1>2. Built(b)' /\ \A what \in {"lock", "files"} : Has(b, what)' => Has(b, what) \/ ~Others(b, what)
  BY DEF BootEffect
<1>3. \A a, c \in Boot, what \in {"lock", "files"} : Has(a, what) /\ Has(c, what) => a = c
  BY DEF IInv, Locks
<1>4. \A a, c \in Boot, what \in {"lock", "files"} : Has(a, what)' /\ Has(c, what)' => a = c
  BY <1>1, <1>2, <1>3 DEF Others
<1>5. \A a \in Boot : Built(a)'
  BY <1>1, <1>2
<1> QED BY <1>4, <1>5 DEF Locks

(* The locks and the log before the step, in the words the proofs need.    *)
LEMMA LogFacts ==
    ASSUME IInv
    PROVE  /\ dir.events \in Seq(Boot) /\ Len(dir.events) \in Nat
           /\ \A i \in 1..Len(dir.events) : dir.events[i] \in Boot /\ Pc(dir.events[i]) # "off"
           /\ \A i, j \in 1..Len(dir.events) :
                i < j /\ dir.events[i] # dir.events[j] => ~Has(dir.events[i], "metadata")
           /\ \A i, j, k \in 1..Len(dir.events) :
                i < j /\ j < k /\ dir.events[i] = dir.events[k] => dir.events[j] = dir.events[i]
           /\ \A b \in Boot : Has(b, "metadata") =>
                dir.boot = b /\ ~dir.over /\ Has(b, "lock") /\ Pc(b) # "off"
           /\ \A b \in Boot : Pc(b) = "off" => ctl[b].open = {}
PROOF
<1>1. dir.events \in Seq(Boot) /\ Len(dir.events) \in Nat
  BY DEF IInv, Types, LogRecord
<1>2. Ends = Len(dir.events)
  BY DEF Ends
<1>3. \A i \in 1..Len(dir.events) : dir.events[i] \in Boot
  BY <1>1
<1>4. \A b \in Boot : Pc(b) = "off" => ctl[b].open = {}
  BY DEF IInv, Locks, Built
<1>5. \A b \in Boot : Has(b, "metadata") => dir.boot = b /\ ~dir.over /\ Has(b, "lock") /\ Pc(b) # "off"
  BY <1>4 DEF IInv, Locks, Built, Log, Has
<1> QED BY <1>1, <1>2, <1>3, <1>4, <1>5 DEF IInv, Log

LEMMA BootLog == ASSUME IInv, NEW b \in Boot, BootEffect(b), LogEffect(b) PROVE Log'
PROOF
<1> DEFINE old == dir.events
           new == dir'.events
<1>1. /\ old \in Seq(Boot) /\ Len(old) \in Nat
      /\ \A i \in 1..Len(old) : old[i] \in Boot /\ Pc(old[i]) # "off"
      /\ \A i, j \in 1..Len(old) : i < j /\ old[i] # old[j] => ~Has(old[i], "metadata")
      /\ \A i, j, k \in 1..Len(old) : i < j /\ j < k /\ old[i] = old[k] => old[j] = old[i]
      /\ \A a \in Boot : Has(a, "metadata") => dir.boot = a /\ ~dir.over /\ Has(a, "lock") /\ Pc(a) # "off"
      /\ \A a \in Boot : Pc(a) = "off" => ctl[a].open = {}
  BY LogFacts
<1>2. /\ \A a \in Boot \ {b} : (Pc(a)' = Pc(a)) /\ (Has(a, "metadata")' <=> Has(a, "metadata"))
      /\ Pc(b)' # "off" /\ (Has(b, "metadata")' => Has(b, "metadata") \/ Pc(b) = "off")
      /\ Has(b, "metadata")' => Has(b, "lock")' /\ (Has(b, "lock")' => Has(b, "lock") \/ ~Others(b, "lock"))
  BY DEF BootEffect, Pc, Has, Built
<1>3. \/ new = old
      \/ /\ Has(b, "metadata") /\ new = Append(old, b) /\ Len(new) = Len(old) + 1 /\ new[Len(old) + 1] = b
         /\ \A i \in 1..Len(old) : new[i] = old[i]
  BY <1>1 DEF LogEffect, Writable
<1>4. \A a \in Boot : ctl'[a].pc = "off" => Pc(a) = "off"
  BY <1>2 DEF Pc
<1>5. \A a \in Boot : "metadata" \in ctl'[a].open => Has(a, "metadata") \/ Pc(a) = "off"
  BY <1>2 DEF Has
<1>6. Ends' = Len(new)
  BY DEF Ends
<1>7. \A a \in Boot : Has(a, "metadata")' => dir'.boot = a /\ ~dir'.over
  <2>1. \A a \in Boot \ {b} : Has(a, "metadata") => Others(b, "lock")
    BY <1>1 DEF Others
  <2>2. \/ dir'.boot = dir.boot /\ dir'.over = dir.over /\ (Has(b, "metadata")' => Has(b, "metadata"))
        \/ dir'.boot = b /\ ~dir'.over /\ ~Others(b, "lock")
        \/ Has(b, "metadata") /\ ~Has(b, "metadata")'
    BY DEF LogEffect
  <2> QED BY <1>1, <1>2, <2>1, <2>2
<1> HIDE DEF old, new
<1>8. CASE new = old
  <2>1. \A i \in 1..Len(old) : ctl'[new[i]].pc # "off"
    BY <1>1, <1>4, <1>8
  <2>2. \A i, j \in 1..Len(old) : i < j /\ new[i] # new[j] => "metadata" \notin ctl'[new[i]].open
    BY <1>1, <1>5, <1>8
  <2> QED BY <1>1, <1>6, <1>7, <1>8, <2>1, <2>2 DEF Log, new, Pc, Has
<1>9. CASE /\ Has(b, "metadata") /\ new = Append(old, b) /\ Len(new) = Len(old) + 1 /\ new[Len(old) + 1] = b
           /\ \A i \in 1..Len(old) : new[i] = old[i]
  <2>0. \A i \in 1..Len(new) : (i \in 1..Len(old) /\ new[i] = old[i]) \/ (i = Len(old) + 1 /\ new[i] = b)
    BY <1>1, <1>9
  <2>1. \A i \in 1..Len(new) : ctl'[new[i]].pc # "off"
    BY <1>1, <1>2, <1>4, <2>0 DEF Pc
  <2>2. \A i, j \in 1..Len(new) : i < j /\ new[i] # new[j] => "metadata" \notin ctl'[new[i]].open
    <3> SUFFICES ASSUME NEW i \in 1..Len(new), NEW j \in 1..Len(new), i < j, new[i] # new[j]
        PROVE "metadata" \notin ctl'[new[i]].open
      OBVIOUS
    <3>1. i \in 1..Len(old) /\ new[i] = old[i] /\ old[i] \in Boot /\ Pc(old[i]) # "off"
      BY <1>1, <1>9, <2>0
    <3>2. ~Has(old[i], "metadata")
      <4>1. CASE j \in 1..Len(old)
        BY <1>1, <1>9, <3>1, <4>1
      <4>2. CASE j = Len(old) + 1
        BY <1>1, <1>9, <3>1, <4>2
      <4> QED BY <2>0, <4>1, <4>2
    <3> QED BY <1>5, <3>1, <3>2
  <2>3. \A i, j, k \in 1..Len(new) : i < j /\ j < k /\ new[i] = new[k] => new[j] = new[i]
    <3> SUFFICES ASSUME NEW i \in 1..Len(new), NEW j \in 1..Len(new), NEW k \in 1..Len(new),
                        i < j, j < k, new[i] = new[k]
        PROVE new[j] = new[i]
      OBVIOUS
    <3>1. i \in 1..Len(old) /\ j \in 1..Len(old) /\ new[i] = old[i] /\ new[j] = old[j]
      BY <1>1, <1>9, <2>0
    <3>2. CASE k \in 1..Len(old)
      BY <1>1, <1>9, <3>1, <3>2
    <3>3. CASE k = Len(old) + 1
      BY <1>1, <1>9, <3>1, <3>3
    <3> QED BY <2>0, <3>2, <3>3
  <2> QED BY <1>6, <1>7, <2>1, <2>2, <2>3 DEF Log, new, Pc, Has
<1> QED BY <1>3, <1>8, <1>9

(* What a boot's step leaves of the promises made to a call. *)
LEMMA BootKeepsServed ==
    ASSUME IInv, NEW b \in Boot, Effect(b), NEW c \in Client, rpc'[c] = rpc[c],
           Active(c) /\ rpc[c].boot = b => rpc' = rpc
    PROVE  Served(c)'
PROOF
<1> SUFFICES ASSUME Active(c) PROVE Served(c)'
  BY DEF Served, Active
<1>0. Served(c) /\ rpc[c].boot \in Boot
  BY DEF IInv, Calls, Served
<1> DEFINE a == rpc[c].boot
<1>1. /\ a \in Boot /\ (Pc(a) \in Takes \/ Pc(a) = "closing") /\ Pc(a) # "off"
      /\ Pc(a) \in Takes \/ (Pc(a) = "closing" /\ rpc[c].kind = "mcp")
      /\ rpc[c].kind = "mcp" => Pc(a) \in {"serving", "mcpDown"} \/ ctl[a].expired
      /\ rpc[c].pc \in Observing <=> rpc[c].kind \in ObserverKind
      /\ rpc[c].pc \in Observing =>
            /\ Has(a, "metadata") /\ dir.first <= rpc[c].start /\ rpc[c].start <= rpc[c].end
            /\ rpc[c].end <= Len(dir.events)
  BY <1>0 DEF Served, Ends, Takes
<1>2. /\ dir.first \in Nat /\ dir'.first \in Nat /\ Len(dir.events) \in Nat /\ Len(dir'.events) \in Nat
      /\ Len(dir.events) <= Len(dir'.events) /\ rpc[c].start \in Nat /\ rpc[c].end \in Nat
  <2>1. /\ dir \in LogRecord /\ dir' \in LogRecord /\ rpc[c] \in CallRecord
        /\ (dir'.events = dir.events \/ dir'.events = Append(dir.events, b))
    BY DEF IInv, Types, Effect, LogEffect
  <2>2. dir.first \in Nat /\ dir'.first \in Nat /\ dir.events \in Seq(Boot) /\ dir'.events \in Seq(Boot)
    BY <2>1 DEF LogRecord
  <2>3. rpc[c].start \in Nat /\ rpc[c].end \in Nat
    BY <2>1 DEF CallRecord
  <2>4. Len(dir.events) \in Nat /\ Len(dir'.events) \in Nat /\ Len(dir.events) <= Len(dir'.events)
    BY <2>1, <2>2
  <2> QED BY <2>2, <2>3, <2>4
<1>3. rpc[c].pc \in Observing => dir'.first = dir.first
  <2> SUFFICES ASSUME rpc[c].pc \in Observing, dir'.first # dir.first PROVE FALSE
    OBVIOUS
  <2>1. Has(a, "metadata") /\ dir.boot = a /\ Has(a, "lock")
    BY <1>1, LogFacts
  <2>2. (Has(b, "metadata") /\ Observers(b) = {}) \/ (Pc(b) = "off" /\ ~Others(b, "lock"))
    BY DEF Effect, LogEffect
  <2>3. CASE Has(b, "metadata") /\ Observers(b) = {}
    <3>1. b = a
      BY <2>1, <2>3, LogFacts
    <3> QED BY <1>1, <2>3, <3>1 DEF Observers, CallsOf, ObserverKind
  <2>4. CASE Pc(b) = "off" /\ ~Others(b, "lock")
    BY <1>1, <2>1, <2>4 DEF Others
  <2> QED BY <2>2, <2>3, <2>4
<1>4. /\ Pc(a)' \in Takes \/ (Pc(a)' = "closing" /\ rpc[c].kind = "mcp")
      /\ rpc[c].kind = "mcp" => Pc(a)' \in {"serving", "mcpDown"} \/ ctl'[a].expired
      /\ rpc[c].pc \in Observing => Has(a, "metadata")'
  <2> SUFFICES ASSUME NEW d \in Boot, d = a
      PROVE /\ ctl'[d].pc \in Takes \/ (ctl'[d].pc = "closing" /\ rpc[c].kind = "mcp")
            /\ rpc[c].kind = "mcp" => ctl'[d].pc \in {"serving", "mcpDown"} \/ ctl'[d].expired
            /\ rpc[c].pc \in Observing => "metadata" \in ctl'[d].open
    BY <1>1 DEF Pc, Has
  <2>1. CASE d = b
    <3>1. c \in CallsOf(b) /\ rpc' = rpc
      BY <2>1 DEF CallsOf
    <3>2. CASE rpc' = Broken(b)
      <4>1. Broken(b)[c].pc = "done"
        BY <3>1 DEF Broken, NoCall
      <4> QED BY <3>1, <3>2, <4>1 DEF Active
    <3> QED BY <2>1, <3>1, <3>2 DEF Effect, CallEffect, Pc, Has
  <2>2. CASE d # b
    BY <1>1, <2>2 DEF Effect, BootEffect, Pc, Has
  <2> QED BY <2>1, <2>2
<1> QED BY <1>1, <1>2, <1>3, <1>4 DEF Served, Ends, Pc, Has

LEMMA BootKeepsTold ==
    ASSUME IInv, NEW b \in Boot, Effect(b), NEW c \in Client, rpc'[c] = rpc[c]
    PROVE  Told(c)'
PROOF
<1>1. (rpc[c].reason # "none" => rpc[c].pc = "done") /\ rpc[c].reason # "expired"
  BY DEF IInv, Calls, Told
<1> SUFFICES ASSUME rpc[c].reason = "shutdown", NEW a, a = rpc[c].boot
    PROVE /\ a \in Boot /\ ctl'[a].pc # "off" /\ ~("metadata" \in ctl'[a].open /\ ~ctl'[a].finalized)
          /\ \A i \in rpc[c].end + 1 .. Len(dir'.events) : dir'.events[i] # a
  BY <1>1 DEF Told, Writable, Has, Pc, Ends
<1>2. a \in Boot /\ Pc(a) # "off" /\ ~Writable(a) /\ \A i \in rpc[c].end + 1 .. Len(dir.events) : dir.events[i] # a
  BY DEF IInv, Calls, Told, Ends
<1>3. ctl'[a].pc # "off" /\ ~("metadata" \in ctl'[a].open /\ ~ctl'[a].finalized)
  BY <1>2 DEF Effect, BootEffect, Writable, Has, Pc
<1>4. \A i \in rpc[c].end + 1 .. Len(dir'.events) : dir'.events[i] # a
  <2>0. rpc[c] \in CallRecord /\ dir \in LogRecord
    BY DEF IInv, Types
  <2>a. rpc[c].end \in Nat
    BY <2>0 DEF CallRecord
  <2>1. dir.events \in Seq(Boot) /\ Len(dir.events) \in Nat /\ rpc[c].end \in Nat
    BY <2>0, <2>a DEF LogRecord
  <2>2. CASE dir'.events = dir.events
    BY <1>2, <2>2
  <2>3. CASE Writable(b) /\ dir'.events = Append(dir.events, b)
    <3>1. a # b
      BY <1>2, <2>3
    <3> QED BY <1>2, <2>1, <2>3, <3>1
  <2> QED BY <2>2, <2>3 DEF Effect, LogEffect
<1> QED BY <1>2, <1>3, <1>4

LEMMA BootCalls == ASSUME IInv, NEW b \in Boot, Effect(b) PROVE Calls'
PROOF
<1> SUFFICES ASSUME NEW c \in Client PROVE Served(c)' /\ Told(c)'
  BY DEF Calls
<1>1. CASE rpc' = rpc
  BY <1>1, BootKeepsServed, BootKeepsTold
<1>2. CASE rpc' = Broken(b)
  <2>1. CASE c \in CallsOf(b)
    <3>1. rpc'[c] = [NoCall EXCEPT !.pc = "done", !.reason = "broken"]
      BY <1>2, <2>1 DEF Broken
    <3>2. rpc'[c].pc = "done" /\ rpc'[c].reason = "broken"
      BY <3>1 DEF NoCall
    <3> QED BY <3>2 DEF Served, Told, Active
  <2>2. CASE c \notin CallsOf(b)
    <3>1. rpc'[c] = rpc[c] /\ ~(Active(c) /\ rpc[c].boot = b)
      BY <1>2, <2>2 DEF Broken, CallsOf
    <3> QED BY <3>1, BootKeepsServed, BootKeepsTold
  <2> QED BY <2>1, <2>2
<1> QED BY <1>1, <1>2 DEF Effect, CallEffect

LEMMA BootInductive ==
    ASSUME IInv, NEW b \in Boot,
           Open(b) \/ Boots(b) \/ Begin(b) \/ Expire(b) \/ Crash(b) \/ Emit(b) \/ Retain(b)
    PROVE  IInv'
  BY BootSteps, BootTypes, BootLocks, BootLog, BootCalls DEF IInv, Effect

-----------------------------------------------------------------------------
(* The steps of a call. *)

LEMMA CallInductive ==
    ASSUME IInv, NEW c \in Client, dir' = dir, ctl' = ctl, rpc' \in [Client -> CallRecord],
           \A d \in Client \ {c} : rpc'[d] = rpc[d], Served(c)', Told(c)'
    PROVE  IInv'
PROOF
<1>1. Types'
  BY DEF IInv, Types, Ends
<1>2. Locks' /\ Log'
  BY DEF IInv, Locks, Log, Built, Has, Pc, Ends
<1>3. ASSUME NEW d \in Client \ {c} PROVE Served(d)' /\ Told(d)'
  BY <1>3 DEF IInv, Calls, Served, Told, Active, Writable, Has, Pc, Ends
<1> QED BY <1>1, <1>2, <1>3 DEF IInv, Calls

(* A call that ends.  Only one that is told of the shutdown is promised    *)
(* anything.                                                               *)
LEMMA Finishes ==
    ASSUME IInv, NEW c \in Client, dir' = dir, ctl' = ctl,
           NEW reason \in {"unavailable", "exhausted", "snapshot", "shutdown", "log unavailable",
                           "ok", "left", "cut"},
           rpc' = Finish(c, reason),
           reason = "shutdown" => /\ rpc[c].boot \in Boot /\ Pc(rpc[c].boot) # "off" /\ ~Writable(rpc[c].boot)
                                  /\ Ends <= rpc[c].end
    PROVE  IInv'
PROOF
<1>0. rpc \in [Client -> CallRecord] /\ rpc[c] \in CallRecord
  BY DEF IInv, Types
<1> DEFINE r == [rpc[c] EXCEPT !.pc = "done", !.reason = reason, !.start = 0]
<1>1. r \in CallRecord /\ r.pc = "done" /\ r.reason = reason /\ r.boot = rpc[c].boot /\ r.end = rpc[c].end
  BY <1>0 DEF CallRecord
<1>2. rpc' = [rpc EXCEPT ![c] = r]
  BY DEF Finish
<1> HIDE DEF r
<1>3. rpc' \in [Client -> CallRecord] /\ rpc'[c] = r /\ \A d \in Client \ {c} : rpc'[d] = rpc[d]
  BY <1>0, <1>1, <1>2
<1>4. Served(c)'
  BY <1>1, <1>3 DEF Served, Active
<1>5. Told(c)'
  <2>1. rpc[c].end \in Nat
    BY <1>0 DEF CallRecord
  <2>2. Ends \in Nat
    BY LogFacts DEF Ends
  <2>3. reason = "shutdown" => \A i \in rpc[c].end + 1 .. Ends : dir.events[i] # rpc[c].boot
    BY <2>1, <2>2
  <2> QED BY <1>1, <1>3, <2>3 DEF Told, Writable, Has, Pc, Ends
<1> QED BY <1>3, <1>4, <1>5, CallInductive

(* An observer that goes from one stage to the next. *)
LEMMA Observes ==
    ASSUME IInv, NEW c \in Client, dir' = dir, ctl' = ctl, rpc[c].pc \in Observing, NEW pc \in Observing,
           NEW end \in {rpc[c].end, Ends}, rpc[c].end <= end,
           rpc' = [rpc EXCEPT ![c].pc = pc, ![c].end = end]
    PROVE  IInv'
PROOF
<1>0. rpc \in [Client -> CallRecord] /\ rpc[c] \in CallRecord
  BY DEF IInv, Types
<1>1. Served(c) /\ Told(c) /\ rpc[c].pc \notin {"idle", "done"} /\ pc \notin {"idle", "done"}
  BY DEF IInv, Calls, Observing
<1>2. rpc[c].end \in Nat /\ rpc[c].start \in Nat
  BY <1>0 DEF CallRecord
<1>3. Ends \in Nat
  BY LogFacts DEF Ends
<1>4. end \in Nat
  BY <1>2, <1>3
<1>5. /\ rpc' \in [Client -> CallRecord] /\ \A d \in Client \ {c} : rpc'[d] = rpc[d]
      /\ rpc'[c].pc = pc /\ rpc'[c].end = end /\ rpc'[c].start = rpc[c].start
      /\ rpc'[c].boot = rpc[c].boot /\ rpc'[c].kind = rpc[c].kind /\ rpc'[c].reason = rpc[c].reason
  BY <1>0, <1>4 DEF CallRecord, Observing
<1>6. rpc[c].reason = "none"
  BY <1>1 DEF Told
<1>7. Told(c)'
  BY <1>5, <1>6 DEF Told
<1>8. Served(c)'
  <2>1. rpc[c].start <= end /\ end <= Ends
    BY <1>1, <1>2, <1>3 DEF Served, Active
  <2> QED BY <1>1, <1>5, <2>1 DEF Served, Active, Pc, Has, Ends
<1> QED BY <1>5, <1>7, <1>8, CallInductive

LEMMA Stages ==
    ASSUME IInv, NEW c \in Client, dir' = dir, ctl' = ctl, rpc[c].pc \in Observing, NEW pc \in Observing,
           rpc' = [rpc EXCEPT ![c].pc = pc]
    PROVE  IInv'
PROOF
<1>0. rpc \in [Client -> CallRecord] /\ rpc[c].end \in Nat
  BY DEF IInv, Types, CallRecord
<1>1. PICK end \in {rpc[c].end, Ends} : end = rpc[c].end
  OBVIOUS
<1>2. rpc' = [rpc EXCEPT ![c].pc = pc, ![c].end = end]
  BY <1>0, <1>1 DEF CallRecord
<1>3. rpc[c].end <= end
  BY <1>0, <1>1
<1> QED BY <1>2, <1>3, Observes

(* A call that begins. *)
LEMMA Admits ==
    ASSUME IInv, NEW c \in Client, dir' = dir, ctl' = ctl, NEW r \in CallRecord, rpc' = [rpc EXCEPT ![c] = r],
           r.boot \in Boot, Accepts(r.boot, r.kind), r.reason = "none",
           \/ r.pc = "busy" /\ r.kind \notin ObserverKind
           \/ /\ r.pc = "replay" /\ r.kind \in ObserverKind /\ Has(r.boot, "metadata")
              /\ dir.first <= r.start /\ r.start <= r.end /\ r.end <= Ends
    PROVE  IInv'
PROOF
<1>0. rpc \in [Client -> CallRecord]
  BY DEF IInv, Types
<1>3. rpc' \in [Client -> CallRecord] /\ rpc'[c] = r /\ \A d \in Client \ {c} : rpc'[d] = rpc[d]
  BY <1>0
<1>4. Told(c)'
  BY <1>3 DEF Told
<1>5. /\ Pc(r.boot) \in Takes /\ (r.kind = "mcp" => Pc(r.boot) = "serving")
      /\ r.pc \in Observing <=> r.kind \in ObserverKind
      /\ r.pc \in Observing => r.pc = "replay"
  BY DEF Accepts, Takes, Observing
<1>6. Served(c)'
  BY <1>3, <1>5 DEF Served, Active, Pc, Has, Ends
<1> QED BY <1>3, <1>4, <1>6, CallInductive

LEMMA HandlerInductive == ASSUME IInv, NEW c \in Client, Handler(c) \/ Leave(c) PROVE IInv'
PROOF
<1>0. /\ dir' = dir /\ ctl' = ctl /\ Types /\ Served(c) /\ rpc[c].end \in Nat /\ rpc[c].start \in Nat
      /\ Ends \in Nat /\ dir.first \in Nat
  <2>1. dir \in LogRecord /\ rpc[c] \in CallRecord
    BY DEF IInv, Types
  <2>2. rpc[c].end \in Nat /\ rpc[c].start \in Nat
    BY <2>1 DEF CallRecord
  <2>3. dir.first \in Nat
    BY <2>1 DEF LogRecord
  <2>4. Ends \in Nat
    BY LogFacts DEF Ends
  <2>5. dir' = dir /\ ctl' = ctl
    BY DEF Handler, Replay, Follow, SendRange, Wake, ProcessEnds, Cut, Leave, Step
  <2> QED BY <2>2, <2>3, <2>4, <2>5 DEF IInv, Calls
<1>1. CASE Replay(c)
  BY <1>0, <1>1, Finishes, Stages DEF Replay, Step, Observing
<1>2. CASE SendRange(c)
  BY <1>0, <1>2, Stages DEF SendRange, Step, Observing
<1>3. CASE Wake(c)
  BY <1>0, <1>3, Stages DEF Wake, Step, Observing
<1>4. CASE ProcessEnds(c) \/ Cut(c) \/ Leave(c)
  BY <1>0, <1>4, Finishes DEF ProcessEnds, Cut, Leave
<1>5. CASE Follow(c)
  <2> DEFINE b == rpc[c].boot
  <2>0. rpc[c].pc = "current" /\ rpc[c].pc \in Observing
    BY <1>5 DEF Follow, Step, Observing
  <2>a. /\ b \in Boot /\ (Pc(b) \in Takes \/ Pc(b) = "closing") /\ Has(b, "metadata")
        /\ dir.first <= rpc[c].start /\ rpc[c].start <= rpc[c].end
    BY <1>0, <2>0 DEF Served, Active
  <2>1. /\ rpc[c].pc \in Observing /\ b \in Boot /\ Pc(b) # "off" /\ dir.first <= rpc[c].end
    BY <1>0, <2>0, <2>a DEF Takes
  <2>2. CASE rpc' = Finish(c, "expired") /\ rpc[c].end < dir.first
    BY <1>0, <2>1, <2>2
  <2>3. CASE Ends > rpc[c].end /\ rpc' = [rpc EXCEPT ![c].pc = "range", ![c].end = Ends]
    <3>1. PICK pc \in Observing, end \in {rpc[c].end, Ends} : pc = "range" /\ end = Ends
      BY DEF Observing
    <3>2. rpc[c].end <= end /\ rpc' = [rpc EXCEPT ![c].pc = pc, ![c].end = end]
      BY <1>0, <2>3, <3>1
    <3> QED BY <1>0, <2>1, <3>2, Observes
  <2>4. CASE ~(Ends > rpc[c].end) /\ ctl[b].finalized /\ rpc' = Finish(c, "shutdown")
    <3>1. Ends <= rpc[c].end /\ ~Writable(b)
      BY <1>0, <2>4 DEF Writable
    <3> QED BY <1>0, <2>1, <2>4, <3>1, Finishes
  <2>5. CASE rpc' = Finish(c, "log unavailable")
    BY <1>0, <2>5, Finishes
  <2>6. CASE rpc' = [rpc EXCEPT ![c].pc = "wait"]
    BY <1>0, <2>1, <2>6, Stages DEF Observing
  <2> QED BY <1>5, <2>2, <2>3, <2>4, <2>5, <2>6 DEF Follow
<1> QED BY <1>1, <1>2, <1>3, <1>4, <1>5 DEF Handler

LEMMA AdmitInductive ==
    ASSUME IInv, NEW c \in Client, NEW b \in Called, NEW kind \in Kind,
           \/ kind \in ObserverKind /\ Observe(c, b, kind)
           \/ kind \notin ObserverKind /\ Begins(c, b, kind)
    PROVE  IInv'
PROOF
<1>0. b \in Boot /\ dir' = dir /\ ctl' = ctl /\ Accepts(b, kind) /\ dir.first \in Nat /\ Ends \in Nat
  <2>1. dir \in LogRecord
    BY DEF IInv, Types
  <2>2. dir.first \in Nat
    BY <2>1 DEF LogRecord
  <2>3. Ends \in Nat
    BY LogFacts DEF Ends
  <2> QED BY <2>2, <2>3, CalledAssumption DEF Observe, Begins
<1>1. CASE kind \notin ObserverKind /\ Begins(c, b, kind)
  <2> DEFINE r == [NoCall EXCEPT !.pc = "busy", !.boot = b, !.kind = kind]
  <2>1. r \in CallRecord /\ r.pc = "busy" /\ r.boot = b /\ r.kind = kind /\ r.reason = "none"
    BY <1>0 DEF NoCall, CallRecord, Observing
  <2>2. rpc' = [rpc EXCEPT ![c] = r]
    BY <1>1 DEF Begins
  <2> HIDE DEF r
  <2> QED BY <1>0, <1>1, <2>1, <2>2, Admits
<1>2. CASE kind \in ObserverKind /\ Observe(c, b, kind)
  <2>1. CASE rpc' \in {Finish(c, "unavailable"), Finish(c, "exhausted")}
    BY <1>0, <2>1, Finishes
  <2>2. ASSUME Store(b), NEW start \in dir.first .. Ends,
               rpc' = [rpc EXCEPT ![c] = [NoCall EXCEPT !.pc = "replay", !.boot = b,
                            !.kind = kind, !.start = start, !.end = Ends]]
        PROVE  IInv'
    <3>1. start \in Nat /\ dir.first <= start /\ start <= Ends /\ Has(b, "metadata")
      BY <1>0, <2>2 DEF Store
    <3> DEFINE r == [NoCall EXCEPT !.pc = "replay", !.boot = b, !.kind = kind, !.start = start, !.end = Ends]
    <3>2. /\ r \in CallRecord /\ r.pc = "replay" /\ r.boot = b /\ r.kind = kind /\ r.reason = "none"
          /\ r.start = start /\ r.end = Ends
      BY <1>0, <3>1 DEF NoCall, CallRecord, Observing
    <3>3. rpc' = [rpc EXCEPT ![c] = r]
      BY <2>2
    <3> HIDE DEF r
    <3>4. r.end <= Ends
      BY <1>0, <3>2
    <3> QED BY <1>0, <1>2, <3>1, <3>2, <3>3, <3>4, Admits
  <2> QED BY <1>2, <2>1, <2>2 DEF Observe
<1> QED BY <1>1, <1>2

-----------------------------------------------------------------------------
LEMMA InitInv == Init => IInv
PROOF
<1> SUFFICES ASSUME Init PROVE IInv
  OBVIOUS
<1>1. Types
  BY DEF Init, Types, LogRecord, BootRecord, CallRecord, Free, NoCall, Service, Stage, Observing, Ends
<1>2. Locks
  BY DEF Init, Locks, Built, Free, Pc, Has, HasFiles
<1>3. Log
  BY DEF Init, Log, Ends, Free, Has
<1>4. Calls
  BY DEF Init, Calls, Served, Told, Active, NoCall
<1> QED BY <1>1, <1>2, <1>3, <1>4 DEF IInv

LEMMA StepInv == IInv /\ [Next]_vars => IInv'
PROOF
<1> SUFFICES ASSUME IInv, [Next]_vars PROVE IInv'
  OBVIOUS
<1>1. CASE UNCHANGED vars
  BY <1>1 DEF vars, IInv, Types, Locks, Log, Calls, Built, Served, Told, Active, Writable, Has, Pc, Ends
<1>2. ASSUME NEW b \in Boot, Open(b) \/ Boots(b) \/ Begin(b) \/ Expire(b) \/ Crash(b) PROVE IInv'
  BY <1>2, BootInductive
<1>3. ASSUME NEW b \in Called, Emit(b) \/ Retain(b) PROVE IInv'
  BY <1>3, BootInductive, CalledAssumption
<1>4. ASSUME NEW b \in Called, NEW c \in Client, NEW kind \in Kind \cap {"snapshot", "follow"}, Observe(c, b, kind)
      PROVE  IInv'
  BY <1>4, AdmitInductive DEF ObserverKind
<1>5. ASSUME NEW b \in Called, NEW c \in Client, NEW kind \in Kind \ {"snapshot", "follow"}, Begins(c, b, kind)
      PROVE  IInv'
  BY <1>5, AdmitInductive DEF ObserverKind
<1>6. ASSUME NEW c \in Client, Handler(c) \/ Leave(c) PROVE IInv'
  BY <1>6, HandlerInductive
<1> QED BY <1>1, <1>2, <1>3, <1>4, <1>5, <1>6 DEF Next

LEMMA InvImplies == IInv => BootsOrdered
PROOF
<1> SUFFICES ASSUME IInv PROVE BootsOrdered
  OBVIOUS
<1>1. OneOwner
  BY DEF IInv, Locks, Built, OneOwner, Others, Has
<1>2. BootsApart
  <2>1. DOMAIN dir.events = 1..Len(dir.events)
    BY LogFacts
  <2> QED BY <2>1, LogFacts DEF BootsApart
<1>3. FollowersTold
  BY DEF IInv, Calls, Served, Told, FollowersTold, Active, Observing
<1>4. CallsOver
  <2> SUFFICES ASSUME NEW b \in Boot, Pc(b) \in {"closing", "down"}, NEW c \in CallsOf(b)
      PROVE rpc[c].kind = "mcp" /\ ctl[b].expired
    BY DEF CallsOver, RpcsOf
  <2>1. Served(c) /\ Active(c) /\ rpc[c].boot = b
    BY DEF IInv, Calls, CallsOf
  <2> QED BY <2>1 DEF Served, Takes
<1>5. DrainsGoOn
  BY DEF IInv, Locks, Built, DrainsGoOn
<1> QED BY <1>1, <1>2, <1>3, <1>4, <1>5 DEF BootsOrdered

THEOREM BootsStayOrdered == Spec => []BootsOrdered
PROOF
<1>1. Init => IInv
  BY InitInv
<1>2. IInv /\ [Next]_vars => IInv'
  BY StepInv
<1>3. IInv => BootsOrdered
  BY InvImplies
<1> QED BY <1>1, <1>2, <1>3, PTL DEF Spec
=============================================================================
