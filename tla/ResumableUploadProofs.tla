------------------------ MODULE ResumableUploadProofs ------------------------
(***************************************************************************)
(* Proofs about ResumableUpload: what was answered is durable, and the     *)
(* refinement of UploadContract, from an inductive invariant that says for *)
(* each session how memory, record, staging file and transfer agree, and   *)
(* what a client can hold of them; and, from a second one on top of it,    *)
(* that the reservations agree with the sessions and keep to the limits,   *)
(* and that only the double fault of failUpload reopens what ended.        *)
(***************************************************************************)
EXTENDS ResumableUpload, FoldTheorems, TLAPS

Published(u, r) == <<u, r.target, r.content>> \in published
EverPublished(u) == \E p \in published : p[1] = u

Answers == [code : {"ok"}, upload : Upload, state : OpenStates \cup TerminalStates]
           \cup [code : {"error", "NotFound", "ended"}]

CallRecord == [op : {"none", "create", "get", "abort"}, target : Target \cup {None},
               upload : Upload \cup {None}, request : (1..MaxRequests) \cup {None},
               content : Content \cup {None}, answer : Answers \cup {None}]

ClientRecord == [at : {"idle", "ensure", "stale", "query", "wait", "open", "stream", "await"},
                 target : Target \cup {None},
                 why : {"none", "stale", "known", "new", "retry", "error"}]

Types ==
    /\ phase \in {"down", "loading", "sweeping", "serving"}
    /\ sess \in [Upload -> Record \cup {None}]
    /\ disk \in [Upload -> Record \cup {None}]
    /\ temp \in [Upload -> Staged \cup {None}]
    /\ file \in [Target -> {"none", "torn"} \cup Content \cup Foreign]
    /\ requests \in [1..MaxRequests -> Upload \cup {None}]
    /\ xfer \in [Upload -> [at : XferAt, accepted : Nat, mark : Nat]]
    /\ pend \in [Upload -> [step : {"none", "temp", "paths", "purge", "forget"},
                            by : Caller \cup {"none", "xfer"}]]
    /\ todo \in [Caller -> SUBSET Upload]
    /\ call \in CallRecord /\ client \in ClientRecord
    /\ local \in [Target -> LocalRecord \cup {None}]
    /\ source \in Content
    /\ nextReq \in Nat /\ nextReq > 0
    /\ acked \in [Upload -> Int]
    /\ published \subseteq Upload \X Target \X Content

Same(r, s) == r.request = s.request /\ r.target = s.target /\ r.content = s.content

(* An identifier that was not drawn yet is nowhere. *)
Drawn(u) ==
    acked[u] = -1 => /\ sess[u] = None /\ disk[u] = None /\ temp[u] = None
                     /\ pend[u].step = "none" /\ ~EverPublished(u)

(* A session, its record and what it published are of one upload. *)
Records(u) ==
    /\ Known(u) /\ disk[u] # None => Same(sess[u], disk[u])
    /\ \A p \in published : p[1] = u =>
          /\ Known(u) => p[2] = sess[u].target /\ p[3] = sess[u].content
          /\ disk[u] # None => p[2] = disk[u].target /\ p[3] = disk[u].content

(* Where the transfer of a session can be, and what is left to do after it. *)
Transfers(u) ==
    LET at == xfer[u].at IN
    /\ phase \in {"down", "loading"} => at = "no" /\ pend[u].step = "none"
    /\ phase = "down" => sess[u] = None
    /\ at # "no" => Known(u)
    /\ at \in {"recv", "finish", "finalize"} => sess[u].state = "OPEN"
    /\ at \in {"verify", "publish", "unlink", "complete"} => sess[u].state = "FINALIZING"
    /\ at = "done" => sess[u].state = "COMPLETE"
    /\ at = "publish" => temp[u] = None \/ whole(u)
    /\ pend[u].step # "none" => at \in {"no", "left", "done"}
    /\ pend[u].step \in {"temp", "paths", "purge"} => Known(u) /\ ~isOpenUploadState(sess[u])
    /\ pend[u].step = "purge" => at = "no"
    /\ pend[u].step = "forget" => sess[u] = None

(* What is said to be in place was put there. *)
Places(u) ==
    /\ Known(u) /\ sess[u].state = "COMPLETE" => Published(u, sess[u])
    /\ Known(u) /\ sess[u].state = "FINALIZING" /\ xfer[u].at \notin {"verify", "publish"}
          => Published(u, sess[u])
    /\ disk[u] # None /\ disk[u].state = "COMPLETE" =>
          \/ Published(u, disk[u])
          \/ /\ phase = "down" \/ (phase = "loading" /\ u \in todo["gc"])
             /\ file[disk[u].target] = disk[u].content
    /\ ~exclusive /\ EverPublished(u) => temp[u] = None
    /\ phase = "loading" /\ u \in todo["gc"] => disk[u] # None

(* What was answered to be committed is. *)
Offsets(u) ==
    /\ Known(u) => acked[u] <= sess[u].committed
    /\ disk[u] # None => acked[u] <= disk[u].committed
    /\ temp[u] # None => acked[u] <= temp[u].synced /\ temp[u].synced <= temp[u].len
    /\ xfer[u].at \in {"recv", "finish"} => sess[u].committed <= xfer[u].accepted
    /\ xfer[u].at = "recv" /\ temp[u] # None => temp[u].len = xfer[u].accepted

(* A request identifier stands for one content at one target. *)
Requests ==
    /\ \A r \in 1..MaxRequests : requests[r] # None =>
          Known(requests[r]) /\ sess[requests[r]].request = r
    /\ \A u \in Upload :
          /\ Known(u) => sess[u].request < nextReq
          /\ disk[u] # None => disk[u].request < nextReq
    /\ \A t \in Target : local[t] # None => local[t].request < nextReq
    /\ \A t, s \in Target : local[t] # None /\ local[s] # None /\ local[t].request = local[s].request => s = t

(* What a client holds of the session it asked for. *)
Asked(r, t, c, u) ==
    /\ Known(u) /\ sess[u].request = r => sess[u].target = t /\ sess[u].content = c
    /\ disk[u] # None /\ disk[u].request = r => disk[u].target = t /\ disk[u].content = c

Owns(u, r) ==
    /\ acked[u] # -1
    /\ Known(u) => sess[u].request = r
    /\ disk[u] # None => disk[u].request = r

Locals ==
    \A t \in Target : local[t] # None =>
        /\ \A u \in Upload : Asked(local[t].request, t, local[t].content, u)
        /\ local[t].upload # None => Owns(local[t].upload, local[t].request)

Clients ==
    /\ client.at # "idle" => client.target \in Target /\ local[client.target] # None
    /\ client.at \in {"open", "stream", "await", "query", "stale"} => local[client.target].upload # None
    /\ client.at = "wait" /\ client.why # "new" => local[client.target].upload # None
    /\ client.at = "ensure" => client.why \in {"none", "known"}

Calls ==
    /\ call.op = "none" => call = NoCall
    /\ call.op # "none" =>
        /\ phase = "serving" /\ client.at = "wait"
        /\ call.target = client.target /\ call.request = local[client.target].request
        /\ call.content = local[client.target].content
        /\ call.op \in {"get", "abort"} =>
              call.upload \in Upload /\ call.upload = local[client.target].upload
        /\ call.answer # None /\ call.answer.code = "ok" =>
              /\ call.answer.upload \in Upload /\ Owns(call.answer.upload, call.request)
              /\ call.answer.state = "COMPLETE" =>
                    <<call.answer.upload, call.target, call.content>> \in published

Session(u) == Drawn(u) /\ Records(u) /\ Transfers(u) /\ Places(u) /\ Offsets(u)
Peer == Requests /\ Locals /\ Clients /\ Calls

IInv == Types /\ (\A u \in Upload : Session(u)) /\ Peer
-----------------------------------------------------------------------------
(* What changes in a record. *)

LEMMA EndedRecord ==
    ASSUME NEW r \in Record, NEW state \in OpenStates \cup TerminalStates
    PROVE  /\ Ended(r, state) \in Record /\ Same(Ended(r, state), r)
           /\ Ended(r, state).state = state /\ Ended(r, state).committed = r.committed
  BY DEF Ended, Record, Same

LEMMA StateRecord ==
    ASSUME NEW r \in Record, NEW state \in OpenStates \cup TerminalStates,
           NEW s, s = [r EXCEPT !.state = state]
    PROVE  s \in Record /\ Same(s, r) /\ s.state = state /\ s.committed = r.committed
  BY DEF Record, Same

LEMMA OffsetRecord ==
    ASSUME NEW r \in Record, NEW n \in Nat, NEW s, s = [r EXCEPT !.committed = n, !.due = FALSE]
    PROVE  s \in Record /\ Same(s, r) /\ s.state = r.state /\ s.committed = n
  BY DEF Record, Same

LEMMA Persisted ==
    ASSUME Types, NEW u \in Upload, NEW r \in Record, NEW ok \in BOOLEAN, persistRecord(u, r, ok)
    PROVE  /\ disk' \in [Upload -> Record \cup {None}] /\ \A v \in Upload \ {u} : disk'[v] = disk[v]
           /\ disk'[u] \in {disk[u], r} /\ (ok => disk'[u] = r)
PROOF
<1>1. disk \in [Upload -> Record \cup {None}]
  BY DEF Types
<1>2. \/ ~ok /\ disk' = disk
      \/ disk' = [disk EXCEPT ![u] = r]
  BY DEF persistRecord
<1>3. CASE disk' = [disk EXCEPT ![u] = r]
  BY <1>1, <1>3
<1> QED BY <1>1, <1>2, <1>3

(* What one upload transfers, and what it removes next. *)
LEMMA XferFacts ==
    ASSUME Types, NEW u \in Upload, NEW r \in [at : XferAt, accepted : Nat, mark : Nat],
           xfer' = [xfer EXCEPT ![u] = r]
    PROVE  /\ xfer' \in [Upload -> [at : XferAt, accepted : Nat, mark : Nat]]
           /\ xfer'[u] = r /\ \A v \in Upload \ {u} : xfer'[v] = xfer[v]
PROOF
<1> DEFINE Xfer == [at : XferAt, accepted : Nat, mark : Nat]
<1>1. xfer \in [Upload -> Xfer] /\ r \in Xfer
  BY DEF Types
<1> HIDE DEF Xfer
<1>2. xfer' \in [Upload -> Xfer] /\ xfer'[u] = r /\ \A v \in Upload \ {u} : xfer'[v] = xfer[v]
  BY <1>1
<1> QED BY <1>2 DEF Xfer

LEMMA SavedFacts ==
    ASSUME Types, NEW u \in Upload, NEW r \in Record, NEW ok \in BOOLEAN, Saved(u, r, ok)
    PROVE  /\ disk' \in [Upload -> Record \cup {None}] /\ \A v \in Upload \ {u} : disk'[v] = disk[v]
           /\ disk'[u] \in {disk[u], r} /\ (ok => disk'[u] = r)
           /\ sess' \in [Upload -> Record \cup {None}] /\ \A v \in Upload \ {u} : sess'[v] = sess[v]
           /\ sess'[u] = IF ok THEN r ELSE sess[u]
  BY Persisted DEF Saved, Types

LEMMA ThenFacts ==
    ASSUME Types, NEW u \in Upload, NEW step \in {"temp", "paths", "purge", "forget"},
           NEW by \in Caller \cup {"none", "xfer"}, Then(u, step, by)
    PROVE  /\ pend' \in [Upload -> [step : {"none", "temp", "paths", "purge", "forget"},
                                    by : Caller \cup {"none", "xfer"}]]
           /\ \A v \in Upload \ {u} : pend'[v] = pend[v]
           /\ pend'[u].step = step /\ pend'[u].by = by
  BY DEF Types, Then

-----------------------------------------------------------------------------
(* A step that is about one session. *)

Frame(u) ==
    /\ sess' \in [Upload -> Record \cup {None}] /\ disk' \in [Upload -> Record \cup {None}]
    /\ temp' \in [Upload -> Staged \cup {None}]
    /\ xfer' \in [Upload -> [at : XferAt, accepted : Nat, mark : Nat]]
    /\ pend' \in [Upload -> [step : {"none", "temp", "paths", "purge", "forget"},
                             by : Caller \cup {"none", "xfer"}]]
    /\ acked' \in [Upload -> Int]
    /\ \A v \in Upload \ {u} :
          /\ sess'[v] = sess[v] /\ disk'[v] = disk[v] /\ temp'[v] = temp[v]
          /\ xfer'[v] = xfer[v] /\ pend'[v] = pend[v] /\ acked'[v] = acked[v]
    /\ published \subseteq published'
    /\ \A p \in published' \ published : p[1] = u /\ p \in Upload \X Target \X Content
    /\ phase' = phase /\ exclusive' = exclusive /\ source' = source
    /\ todo' \in [Caller -> SUBSET Upload]
    /\ phase = "loading" => todo'["gc"] \in {todo["gc"], todo["gc"] \ {u}}
    /\ file' \in [Target -> {"none", "torn"} \cup Content \cup Foreign]
    /\ phase \in {"down", "loading"} => file' = file

(* What identifies a session stays. *)
Kept(u) ==
    /\ sess'[u] # None => \E r \in {sess[u], disk[u]} \ {None} : Same(sess'[u], r)
    /\ disk'[u] # None => \E r \in {sess[u], disk[u]} \ {None} : Same(disk'[u], r)
    /\ acked[u] # -1 => acked'[u] # -1

RequestsFollow(u) ==
    /\ requests' \in [1..MaxRequests -> Upload \cup {None}]
    /\ \A r \in 1..MaxRequests :
          \/ requests'[r] \in {requests[r], None} /\ (requests'[r] = u => sess'[u] # None)
          \/ requests'[r] = u /\ sess'[u] # None /\ sess'[u].request = r

LEMMA OtherSessions ==
    ASSUME IInv, NEW u \in Upload, Frame(u), NEW v \in Upload, v # u
    PROVE  Session(v)'
PROOF
<1>0. Session(v)
  BY DEF IInv
<1>1. /\ sess'[v] = sess[v] /\ disk'[v] = disk[v] /\ temp'[v] = temp[v]
      /\ xfer'[v] = xfer[v] /\ pend'[v] = pend[v] /\ acked'[v] = acked[v]
      /\ phase' = phase /\ exclusive' = exclusive
  BY DEF Frame
<1>2. \A p \in published' : p[1] = v => p \in published
  BY DEF Frame
<1>3. \A t, c : <<v, t, c>> \in published' <=> <<v, t, c>> \in published
  BY <1>2 DEF Frame
<1>4. EverPublished(v)' <=> EverPublished(v)
  BY <1>2 DEF Frame, EverPublished
<1>5. Drawn(v)'
  BY <1>0, <1>1, <1>4 DEF Session, Drawn
<1>6. Records(v)'
  BY <1>0, <1>1, <1>2 DEF Session, Records, Known
<1>7. Transfers(v)'
  BY <1>0, <1>1 DEF Session, Transfers, Known, whole
<1>8. Places(v)'
  <2>1. phase = "loading" => (v \in todo'["gc"] <=> v \in todo["gc"])
    BY DEF Frame
  <2>2. phase \in {"down", "loading"} => file' = file
    BY DEF Frame
  <2> QED BY <1>0, <1>1, <1>3, <1>4, <2>1, <2>2 DEF Session, Places, Known, Published
<1>9. Offsets(v)'
  BY <1>0, <1>1 DEF Session, Offsets, Known
<1> QED BY <1>5, <1>6, <1>7, <1>8, <1>9 DEF Session

LEMMA FrameTypes ==
    ASSUME IInv, NEW u \in Upload, Frame(u), requests' \in [1..MaxRequests -> Upload \cup {None}],
           UNCHANGED <<local, nextReq, client>>, call' \in CallRecord
    PROVE  Types'
  BY DEF IInv, Types, Frame

(* Sessions and records stay those of the same upload. *)
LEMMA Identity ==
    ASSUME IInv, NEW u \in Upload, Frame(u), Kept(u), NEW v \in Upload
    PROVE  /\ sess'[v] # None => (Known(v) /\ Same(sess'[v], sess[v])) \/ (disk[v] # None /\ Same(sess'[v], disk[v]))
           /\ disk'[v] # None => (Known(v) /\ Same(disk'[v], sess[v])) \/ (disk[v] # None /\ Same(disk'[v], disk[v]))
           /\ acked[v] # -1 => acked'[v] # -1
           /\ Known(v) /\ sess'[v] # None => Same(sess'[v], sess[v])
PROOF
<1>0. Known(v) /\ disk[v] # None => Same(sess[v], disk[v])
  BY DEF IInv, Session, Records
<1>1. CASE v = u
  BY <1>0, <1>1 DEF Kept, Known, Same
<1>2. CASE v # u
  BY <1>2 DEF Frame, Known, Same
<1> QED BY <1>1, <1>2

LEMMA OwnsStays ==
    ASSUME IInv, NEW u \in Upload, Frame(u), Kept(u), NEW v \in Upload, NEW r, Owns(v, r)
    PROVE  /\ acked'[v] # -1 /\ (sess'[v] # None => sess'[v].request = r)
           /\ disk'[v] # None => disk'[v].request = r
  BY Identity DEF Owns, Same

LEMMA PeerStays ==
    ASSUME IInv, NEW u \in Upload, Frame(u), Kept(u), RequestsFollow(u),
           UNCHANGED <<local, client, nextReq>>, Calls'
    PROVE  Peer'
PROOF
<1>0. /\ local' = local /\ client' = client /\ nextReq' = nextReq /\ Types
      /\ Requests /\ Locals /\ Clients
  BY DEF IInv, Peer
<1>1. Requests'
  <2>1. ASSUME NEW r \in 1..MaxRequests, requests'[r] # None
        PROVE  sess'[requests'[r]] # None /\ sess'[requests'[r]].request = r
    <3>1. CASE requests'[r] = u /\ sess'[u] # None /\ sess'[u].request = r
      BY <3>1
    <3>2. CASE requests'[r] = requests[r] /\ (requests'[r] = u => sess'[u] # None)
      <4> DEFINE v == requests[r]
      <4>1. v \in Upload /\ Known(v) /\ sess[v].request = r
        BY <1>0, <2>1, <3>2 DEF Requests, Types
      <4>2. sess'[v] # None
        BY <3>2, <4>1 DEF Frame, Known
      <4>3. Same(sess'[v], sess[v])
        BY <4>1, <4>2, Identity
      <4> QED BY <3>2, <4>1, <4>2, <4>3 DEF Same
    <3> QED BY <2>1, <3>1, <3>2 DEF RequestsFollow
  <2>2. ASSUME NEW v \in Upload
        PROVE  (sess'[v] # None => sess'[v].request < nextReq) /\ (disk'[v] # None => disk'[v].request < nextReq)
    BY <1>0, Identity DEF Requests, Same
  <2> QED BY <1>0, <2>1, <2>2 DEF Requests, Known
<1>2. Locals'
  <2> SUFFICES ASSUME NEW t \in Target, local[t] # None
      PROVE /\ \A v \in Upload : Asked(local[t].request, t, local[t].content, v)'
            /\ local[t].upload # None => Owns(local[t].upload, local[t].request)'
    BY <1>0 DEF Locals
  <2>1. ASSUME NEW v \in Upload PROVE Asked(local[t].request, t, local[t].content, v)'
    <3>1. Asked(local[t].request, t, local[t].content, v)
      BY <1>0 DEF Locals
    <3> QED BY <1>0, <3>1, Identity DEF Asked, Same, Known
  <2>2. ASSUME local[t].upload # None PROVE Owns(local[t].upload, local[t].request)'
    <3>1. local[t].upload \in Upload /\ Owns(local[t].upload, local[t].request)
      BY <1>0, <2>2 DEF Locals, Types, LocalRecord
    <3> QED BY <1>0, <3>1, OwnsStays DEF Owns, Known
  <2> QED BY <2>1, <2>2
<1>3. Clients'
  BY <1>0 DEF Clients
<1> QED BY <1>1, <1>2, <1>3 DEF Peer

LEMMA CallsStay ==
    ASSUME IInv, NEW u \in Upload, Frame(u), Kept(u), UNCHANGED <<local, client, call>>
    PROVE  Calls'
PROOF
<1>1. ASSUME call.answer # None, call.answer.code = "ok", call.op # "none"
      PROVE  call.answer.upload \in Upload /\ Owns(call.answer.upload, call.request)'
  <2>1. call.answer.upload \in Upload /\ Owns(call.answer.upload, call.request)
    BY <1>1 DEF IInv, Peer, Calls
  <2>2. call'.answer.upload = call.answer.upload /\ call'.request = call.request
    OBVIOUS
  <2> QED BY <2>1, <2>2, OwnsStays DEF Owns, Known
<1>2. published \subseteq published' /\ phase' = phase
  BY DEF Frame
<1> QED BY <1>1, <1>2 DEF IInv, Peer, Calls

(* A step about one session that leaves the calls alone. *)
LEMMA OneSession ==
    ASSUME IInv, NEW u \in Upload, Frame(u), Kept(u), RequestsFollow(u),
           UNCHANGED <<local, client, nextReq>>, call' \in CallRecord, Calls', Session(u)'
    PROVE  IInv'
PROOF
<1>1. \A v \in Upload : Session(v)'
  BY OtherSessions
<1>2. Types'
  BY FrameTypes DEF RequestsFollow
<1> QED BY <1>1, <1>2, PeerStays DEF IInv

-----------------------------------------------------------------------------
(* The steps about one session, one by one. *)

(* A session goes on as the upload it is. *)
LEMMA KnownStays ==
    ASSUME IInv, NEW u \in Upload, Known(u), sess'[u] \in Record, Same(sess'[u], sess[u]),
           disk'[u] = disk[u] \/ Same(disk'[u], sess[u]),
           acked'[u] = acked[u] \/ acked'[u] \in Nat,
           \A p \in published' \ published : p = <<u, sess[u].target, sess[u].content>>
    PROVE  Kept(u) /\ Drawn(u)' /\ Records(u)'
PROOF
<1>1. acked[u] # -1 /\ acked'[u] # -1
  BY DEF IInv, Session, Drawn, Known
<1>2. Kept(u)
  BY <1>1 DEF Kept, Known, Same
<1>3. Drawn(u)'
  BY <1>1 DEF Drawn
<1>4. Records(u)'
  <2>1. Records(u)
    BY DEF IInv, Session
  <2>2. ASSUME NEW p \in published', p[1] = u PROVE p[2] = sess[u].target /\ p[3] = sess[u].content
    BY <2>1, <2>2 DEF Records
  <2>3. disk'[u] # None => Same(disk'[u], sess[u])
    BY <2>1 DEF Records, Same
  <2> QED BY <2>2, <2>3 DEF Records, Same
<1> QED BY <1>2, <1>3, <1>4

LEMMA RequestsStay ==
    ASSUME IInv, NEW u \in Upload, requests' = requests, sess'[u] # None
    PROVE  RequestsFollow(u)
  BY DEF IInv, Types, RequestsFollow

Others == <<local, client, nextReq>>

(* What reconciling changes, whoever does it. *)
LEMMA Reconciled ==
    ASSUME IInv, NEW u \in Upload, Known(u), Unresolved(u)
    PROVE  /\ reconciled(u) \in Record /\ Same(reconciled(u), sess[u])
           /\ reconciled(u).committed = sess[u].committed
           /\ reconciled(u).state \in {"COMPLETE", "OPEN", "FAILED"}
           /\ Published(u, sess[u]) /\ EverPublished(u)
           /\ pend[u].step = "none" /\ xfer[u].at = "no" /\ sess[u] \in Record
PROOF
<1>0. sess[u] \in Record
  BY DEF IInv, Types, Known
<1>1. xfer[u].at = "no" /\ sess[u].state = "FINALIZING"
  BY DEF Unresolved, active
<1>2. Published(u, sess[u])
  BY <1>1 DEF IInv, Session, Places
<1>3. EverPublished(u)
  BY <1>2 DEF EverPublished, Published
<1>4. pend[u].step = "none"
  BY <1>1 DEF IInv, Session, Transfers, isOpenUploadState, OpenStates, Known, Types
<1>5. /\ "COMPLETE" \in OpenStates \cup TerminalStates /\ "FAILED" \in OpenStates \cup TerminalStates
      /\ "OPEN" \in OpenStates \cup TerminalStates
  BY DEF OpenStates, TerminalStates
<1>6. CASE verifyPublishedUpload(sess[u])
  BY <1>0, <1>1, <1>2, <1>3, <1>4, <1>5, <1>6, EndedRecord DEF reconciled
<1>7. CASE ~verifyPublishedUpload(sess[u]) /\ temp[u] # None
  BY <1>0, <1>1, <1>2, <1>3, <1>4, <1>5, <1>7, StateRecord DEF reconciled
<1>8. CASE ~verifyPublishedUpload(sess[u]) /\ temp[u] = None
  BY <1>0, <1>1, <1>2, <1>3, <1>4, <1>5, <1>8, EndedRecord DEF reconciled
<1> QED BY <1>6, <1>7, <1>8

LEMMA ReconcileStep ==
    ASSUME IInv, NEW u \in Upload, Known(u), Unresolved(u), NEW ok \in BOOLEAN, NEW by \in Caller,
           Reconcile(u, ok, by), phase \notin {"down", "loading"},
           UNCHANGED <<phase, file, xfer, acked, requests, exclusive, source, Others>>,
           todo' \in [Caller -> SUBSET Upload]
    PROVE  /\ Frame(u) /\ Kept(u) /\ RequestsFollow(u) /\ Session(u)' /\ published' = published
           /\ sess'[u] # None /\ sess'[u].request = sess[u].request
           /\ ok => sess'[u] = reconciled(u)
PROOF
<1> DEFINE r == reconciled(u)
<1>0. Types /\ Session(u)
  BY DEF IInv
<1>1. /\ r \in Record /\ Same(r, sess[u]) /\ r.committed = sess[u].committed
      /\ r.state \in {"COMPLETE", "OPEN", "FAILED"}
      /\ Published(u, sess[u]) /\ EverPublished(u)
      /\ pend[u].step = "none" /\ xfer[u].at = "no" /\ sess[u] \in Record
  BY Reconciled
<1>2. /\ Saved(u, r, ok)
      /\ temp' = [temp EXCEPT ![u] = None] \/ temp' = temp
      /\ IF ok THEN Placed(u, r) ELSE UNCHANGED published
      /\ IF ok /\ r.state # "OPEN" THEN Then(u, "paths", by) ELSE UNCHANGED pend
  BY DEF Reconcile
<1> HIDE DEF r
<1>3. /\ disk' \in [Upload -> Record \cup {None}] /\ \A v \in Upload \ {u} : disk'[v] = disk[v]
      /\ disk'[u] \in {disk[u], r}
      /\ sess' \in [Upload -> Record \cup {None}] /\ \A v \in Upload \ {u} : sess'[v] = sess[v]
      /\ sess'[u] = IF ok THEN r ELSE sess[u]
  BY <1>0, <1>1, <1>2, SavedFacts
<1>4. published' = published
  BY <1>1, <1>2 DEF Placed, EverPublished
<1>5. /\ temp' \in [Upload -> Staged \cup {None}] /\ \A v \in Upload \ {u} : temp'[v] = temp[v]
      /\ temp'[u] \in {temp[u], None}
  BY <1>0, <1>2 DEF Types
<1>6. /\ pend' \in [Upload -> [step : {"none", "temp", "paths", "purge", "forget"}, by : Caller \cup {"none", "xfer"}]]
      /\ \A v \in Upload \ {u} : pend'[v] = pend[v]
      /\ \/ pend'[u].step = "none" \/ (pend'[u].step = "paths" /\ ok /\ r.state # "OPEN")
  <2>1. CASE ok /\ r.state # "OPEN"
    BY <1>0, <1>2, <2>1, ThenFacts
  <2>2. CASE ~(ok /\ r.state # "OPEN")
    BY <1>0, <1>1, <1>2, <2>2 DEF Types
  <2> QED BY <2>1, <2>2
<1>7. Frame(u)
  BY <1>0, <1>3, <1>4, <1>5, <1>6 DEF Frame, Types
<1>8. sess'[u] \in Record /\ Same(sess'[u], sess[u]) /\ sess'[u] # None /\ sess'[u].request = sess[u].request
      /\ sess'[u].committed = sess[u].committed
  BY <1>1, <1>3, RecordAssumption DEF Same
<1>9. Kept(u) /\ Drawn(u)' /\ Records(u)'
  BY <1>1, <1>3, <1>4, <1>8, KnownStays
<1>10. Transfers(u)'
  BY <1>0, <1>1, <1>3, <1>6, <1>8 DEF Session, Transfers, Known, isOpenUploadState, OpenStates
<1>11. Places(u)'
  <2>1. <<u, sess'[u].target, sess'[u].content>> \in published'
    BY <1>1, <1>4, <1>8 DEF Published, Same
  <2>2. disk'[u] # None /\ disk'[u].state = "COMPLETE" => <<u, disk'[u].target, disk'[u].content>> \in published'
    BY <1>0, <1>1, <1>3, <1>4 DEF Session, Places, Published, Same
  <2> QED BY <1>0, <1>4, <1>5, <2>1, <2>2 DEF Session, Places, Published, Known, EverPublished
<1>12. Offsets(u)'
  BY <1>0, <1>1, <1>3, <1>5, <1>8 DEF Session, Offsets, Known
<1> QED BY <1>1, <1>3, <1>4, <1>7, <1>8, <1>9, <1>10, <1>11, <1>12, RequestsStay DEF Session, r

(* A session that is open ends, or stays open when that cannot be saved. *)
LEMMA EndStep ==
    ASSUME IInv, NEW u \in Upload, Known(u), ~active(u), sess[u].state = "OPEN", NEW ok \in BOOLEAN,
           NEW state \in {"EXPIRED", "ABORTED"}, NEW by \in Caller,
           Saved(u, Ended(sess[u], state), ok), IF ok THEN Then(u, "temp", by) ELSE UNCHANGED pend,
           phase \notin {"down", "loading"},
           UNCHANGED <<phase, file, xfer, acked, requests, exclusive, source, Others, temp, published>>,
           todo' \in [Caller -> SUBSET Upload]
    PROVE  Frame(u) /\ Kept(u) /\ RequestsFollow(u) /\ Session(u)'
PROOF
<1> DEFINE r == Ended(sess[u], state)
<1>0. Types /\ Session(u) /\ sess[u] \in Record /\ pend[u].step = "none" /\ xfer[u].at = "no"
  BY DEF IInv, Types, Known, Session, Transfers, isOpenUploadState, OpenStates, active
<1>1. /\ r \in Record /\ Same(r, sess[u]) /\ r.committed = sess[u].committed /\ r.state = state
  BY <1>0, EndedRecord DEF TerminalStates
<1> HIDE DEF r
<1>2. Saved(u, r, ok)
  BY DEF r
<1>3. /\ disk' \in [Upload -> Record \cup {None}] /\ \A v \in Upload \ {u} : disk'[v] = disk[v]
      /\ disk'[u] \in {disk[u], r}
      /\ sess' \in [Upload -> Record \cup {None}] /\ \A v \in Upload \ {u} : sess'[v] = sess[v]
      /\ sess'[u] = IF ok THEN r ELSE sess[u]
  BY <1>0, <1>1, <1>2, SavedFacts
<1>4. /\ pend' \in [Upload -> [step : {"none", "temp", "paths", "purge", "forget"}, by : Caller \cup {"none", "xfer"}]]
      /\ \A v \in Upload \ {u} : pend'[v] = pend[v]
      /\ pend'[u].step = IF ok THEN "temp" ELSE "none"
  BY <1>0, ThenFacts DEF Types
<1>5. Frame(u)
  BY <1>0, <1>3, <1>4 DEF Frame, Types
<1>6. sess'[u] \in Record /\ Same(sess'[u], sess[u]) /\ sess'[u] # None /\ sess'[u].committed = sess[u].committed
  BY <1>0, <1>1, <1>3, RecordAssumption DEF Same
<1>7. Kept(u) /\ Drawn(u)' /\ Records(u)'
  BY <1>1, <1>3, <1>6, KnownStays
<1>8. Transfers(u)'
  BY <1>0, <1>1, <1>3, <1>4, <1>6 DEF Session, Transfers, Known, isOpenUploadState, OpenStates
<1>9. Places(u)'
  BY <1>0, <1>1, <1>3 DEF Session, Places, Published, Known, EverPublished
<1>10. Offsets(u)'
  BY <1>0, <1>1, <1>3, <1>6 DEF Session, Offsets, Known
<1> QED BY <1>5, <1>6, <1>7, <1>8, <1>9, <1>10, RequestsStay DEF Session

LEMMA SweepStep ==
    ASSUME IInv, NEW u \in Upload, NEW a \in Caller, Sweep(a, u)
    PROVE  /\ Frame(u) /\ Kept(u) /\ RequestsFollow(u) /\ Session(u)' /\ published' = published
           /\ UNCHANGED <<file, Others, call>>
PROOF
<1>0. /\ Types /\ Session(u) /\ phase \in {"sweeping", "serving"}
      /\ UNCHANGED <<phase, file, xfer, acked, requests, exclusive, source, Others, call>>
  BY DEF IInv, Sweep, Steady, peer, Others
<1>1. todo' \in [Caller -> SUBSET Upload] /\ phase' = phase
  BY <1>0 DEF Sweep, Types
<1>2. CASE Known(u) /\ Unresolved(u) /\ \E ok \in BOOLEAN : Reconcile(u, ok, a)
  BY <1>0, <1>1, <1>2, ReconcileStep
<1>3. CASE UNCHANGED <<sess, disk, temp, pend, published>>
  <2>1. Frame(u)
    BY <1>0, <1>1, <1>3 DEF Frame, Types
  <2>2. Kept(u)
    BY <1>0, <1>3 DEF Kept, Same
  <2>4. RequestsFollow(u)
    BY <1>0, <1>3, UploadAssumption DEF RequestsFollow, IInv, Peer, Requests, Types, Known
  <2>3. Session(u)'
    BY <1>0, <1>1, <1>3 DEF Session, Drawn, Records, Transfers, Places, Offsets, Known, whole, Published, EverPublished
  <2> QED BY <1>0, <1>3, <2>1, <2>2, <2>3, <2>4
<1>4. CASE /\ Known(u) /\ ~active(u) /\ sess[u].state = "OPEN"
           /\ \E ok \in BOOLEAN : /\ Saved(u, Ended(sess[u], "EXPIRED"), ok)
                                  /\ IF ok THEN Then(u, "temp", a) ELSE UNCHANGED pend
           /\ UNCHANGED <<temp, published>>
  BY <1>0, <1>1, <1>4, EndStep DEF TerminalStates
<1>5. CASE /\ Known(u) /\ ~active(u) /\ ~isOpenUploadState(sess[u]) /\ Then(u, "purge", a)
           /\ UNCHANGED <<sess, disk, temp, published>>
  <2>1. /\ pend' \in [Upload -> [step : {"none", "temp", "paths", "purge", "forget"}, by : Caller \cup {"none", "xfer"}]]
        /\ \A v \in Upload \ {u} : pend'[v] = pend[v]
        /\ pend'[u].step = "purge"
    BY <1>0, <1>5, ThenFacts
  <2>2. Frame(u)
    BY <1>0, <1>1, <1>5, <2>1 DEF Frame, Types
  <2>3. sess'[u] \in Record /\ Same(sess'[u], sess[u])
    BY <1>0, <1>5 DEF Known, Types, Same
  <2>4. Kept(u) /\ Drawn(u)' /\ Records(u)'
    BY <1>0, <1>5, <2>3, KnownStays
  <2>5. Transfers(u)' /\ Places(u)' /\ Offsets(u)'
    BY <1>0, <1>1, <1>5, <2>1 DEF Session, Transfers, Places, Offsets, Known, active, Published, EverPublished, isOpenUploadState
  <2> QED BY <1>0, <1>5, <2>2, <2>4, <2>5, RequestsStay DEF Session, Known
<1> QED BY <1>2, <1>3, <1>4, <1>5 DEF Sweep

(* What a step of the controller does when it answers no call. *)
Session1(u) == Frame(u) /\ Kept(u) /\ RequestsFollow(u) /\ Session(u)' /\ UNCHANGED <<Others, call>>

LEMMA ServerStep ==
    ASSUME IInv, NEW u \in Upload, Session1(u)
    PROVE  IInv'
PROOF
<1>1. call' \in CallRecord
  BY DEF IInv, Types, Session1
<1> QED BY <1>1, OneSession, CallsStay DEF Session1, Others

LEMMA NoPendFacts ==
    ASSUME Types, NEW u \in Upload, pend' = [pend EXCEPT ![u] = NoPend]
    PROVE  /\ pend' \in [Upload -> [step : {"none", "temp", "paths", "purge", "forget"},
                                    by : Caller \cup {"none", "xfer"}]]
           /\ \A v \in Upload \ {u} : pend'[v] = pend[v]
           /\ pend'[u].step = "none"
PROOF
<1> DEFINE Pend == [step : {"none", "temp", "paths", "purge", "forget"}, by : Caller \cup {"none", "xfer"}]
<1>1. NoPend \in Pend /\ NoPend.step = "none"
  BY DEF NoPend
<1>2. pend \in [Upload -> Pend]
  BY DEF Types
<1> HIDE DEF Pend
<1>3. PICK none \in Pend : none = NoPend /\ none.step = "none"
  BY <1>1
<1>4. pend' \in [Upload -> Pend] /\ pend'[u] = none /\ \A v \in Upload \ {u} : pend'[v] = pend[v]
  BY <1>2, <1>3
<1> QED BY <1>3, <1>4 DEF Pend

LEMMA AtFacts ==
    ASSUME Types, NEW u \in Upload, NEW at \in XferAt, At(u, at)
    PROVE  /\ xfer' \in [Upload -> [at : XferAt, accepted : Nat, mark : Nat]]
           /\ \A v \in Upload \ {u} : xfer'[v] = xfer[v]
           /\ xfer'[u].at = at /\ xfer'[u].accepted = xfer[u].accepted
PROOF
<1>1. PICK r : r = [xfer[u] EXCEPT !.at = at]
  OBVIOUS
<1>2. xfer[u] \in [at : XferAt, accepted : Nat, mark : Nat]
  BY DEF Types
<1>3. r \in [at : XferAt, accepted : Nat, mark : Nat] /\ r.at = at /\ r.accepted = xfer[u].accepted
  BY <1>1, <1>2
<1>4. xfer' = [xfer EXCEPT ![u] = r]
  BY <1>1, <1>2 DEF At
<1> QED BY <1>3, <1>4, XferFacts

LEMMA RemoveTempStep ==
    ASSUME IInv, NEW u \in Upload, removeSessionTemp(u)
    PROVE  Session1(u)
PROOF
<1>0. /\ Types /\ Session(u) /\ pend[u].step = "temp" /\ Known(u)
      /\ ~isOpenUploadState(sess[u]) /\ xfer[u].at \in {"no", "left", "done"}
  BY DEF IInv, removeSessionTemp, Session, Transfers
<1>1. UNCHANGED <<phase, sess, disk, file, xfer, acked, requests, exclusive, source, Others, call, published, todo>>
  BY DEF removeSessionTemp, store, peer, ghost, Others
<1>2. temp' = temp \/ temp' = [temp EXCEPT ![u] = None]
  BY DEF removeSessionTemp
<1>3. /\ temp' \in [Upload -> Staged \cup {None}] /\ \A v \in Upload \ {u} : temp'[v] = temp[v]
      /\ temp'[u] \in {temp[u], None}
  BY <1>0, <1>2 DEF Types
<1>4. /\ pend' \in [Upload -> [step : {"none", "temp", "paths", "purge", "forget"}, by : Caller \cup {"none", "xfer"}]]
      /\ \A v \in Upload \ {u} : pend'[v] = pend[v]
      /\ pend'[u].step = "paths"
  <2>1. pend[u].by \in Caller \cup {"none", "xfer"}
    BY <1>0 DEF Types
  <2>2. Then(u, "paths", pend[u].by)
    BY DEF removeSessionTemp
  <2> QED BY <1>0, <2>1, <2>2, ThenFacts
<1>5. Frame(u)
  BY <1>0, <1>1, <1>3, <1>4 DEF Frame, Types
<1>6. sess'[u] \in Record /\ Same(sess'[u], sess[u]) /\ sess'[u] # None
  BY <1>0, <1>1 DEF Known, Types, Same
<1>7. Kept(u) /\ Drawn(u)' /\ Records(u)'
  BY <1>0, <1>1, <1>6, KnownStays
<1>8. Transfers(u)'
  BY <1>0, <1>1, <1>3, <1>4 DEF Session, Transfers, Known, isOpenUploadState, OpenStates
<1>9. Places(u)'
  BY <1>0, <1>1, <1>3 DEF Session, Places, Published, Known, EverPublished
<1>10. Offsets(u)'
  BY <1>0, <1>1, <1>3 DEF Session, Offsets, Known
<1> QED BY <1>1, <1>5, <1>6, <1>7, <1>8, <1>9, <1>10, RequestsStay DEF Session, Session1

LEMMA ReleaseStep ==
    ASSUME IInv, NEW u \in Upload, releasePaths(u)
    PROVE  Session1(u)
PROOF
<1>0. /\ Types /\ Session(u) /\ pend[u].step = "paths" /\ Known(u)
      /\ ~isOpenUploadState(sess[u]) /\ xfer[u].at \in {"no", "left", "done"}
  BY DEF IInv, releasePaths, Session, Transfers
<1>1. UNCHANGED <<phase, sess, disk, temp, file, xfer, acked, requests, exclusive, source, Others, call, published, todo>>
  BY DEF releasePaths, files, peer, ghost, Others
<1>4. /\ pend' \in [Upload -> [step : {"none", "temp", "paths", "purge", "forget"}, by : Caller \cup {"none", "xfer"}]]
      /\ \A v \in Upload \ {u} : pend'[v] = pend[v]
      /\ pend'[u].step = "none"
  BY <1>0, NoPendFacts DEF releasePaths
<1>5. Frame(u)
  BY <1>0, <1>1, <1>4 DEF Frame, Types
<1>6. sess'[u] \in Record /\ Same(sess'[u], sess[u]) /\ sess'[u] # None
  BY <1>0, <1>1 DEF Known, Types, Same
<1>7. Kept(u) /\ Drawn(u)' /\ Records(u)'
  BY <1>0, <1>1, <1>6, KnownStays
<1>8. Transfers(u)'
  BY <1>0, <1>1, <1>4 DEF Session, Transfers, Known, isOpenUploadState, OpenStates
<1>9. Places(u)'
  BY <1>0, <1>1 DEF Session, Places, Published, Known, EverPublished
<1>10. Offsets(u)'
  BY <1>0, <1>1 DEF Session, Offsets, Known
<1> QED BY <1>1, <1>5, <1>6, <1>7, <1>8, <1>9, <1>10, RequestsStay DEF Session, Session1

LEMMA PurgeStep ==
    ASSUME IInv, NEW u \in Upload, Purge(u)
    PROVE  Session1(u)
PROOF
<1>0. /\ Types /\ Session(u) /\ pend[u].step = "purge" /\ Known(u) /\ acked[u] # -1
      /\ ~isOpenUploadState(sess[u]) /\ xfer[u].at = "no" /\ phase \notin {"down", "loading"}
  BY DEF IInv, Purge, Session, Transfers, Drawn, Known
<1>1. UNCHANGED <<phase, disk, file, xfer, acked, exclusive, source, Others, call, published, todo>>
  BY DEF Purge, peer, ghost, Others
<1>2. CASE temp' = [temp EXCEPT ![u] = None] /\ sess' = [sess EXCEPT ![u] = None]
           /\ requests' = [r \in 1..MaxRequests |->
                            IF r = sess[u].request /\ requests[r] = u THEN None ELSE requests[r]]
           /\ Then(u, "forget", pend[u].by)
  <2>1. /\ temp' \in [Upload -> Staged \cup {None}] /\ \A v \in Upload \ {u} : temp'[v] = temp[v]
        /\ temp'[u] = None
    BY <1>0, <1>2 DEF Types
  <2>2. /\ sess' \in [Upload -> Record \cup {None}] /\ \A v \in Upload \ {u} : sess'[v] = sess[v]
        /\ sess'[u] = None
    BY <1>0, <1>2 DEF Types
  <2>3. /\ pend' \in [Upload -> [step : {"none", "temp", "paths", "purge", "forget"}, by : Caller \cup {"none", "xfer"}]]
        /\ \A v \in Upload \ {u} : pend'[v] = pend[v]
        /\ pend'[u].step = "forget"
    <3>1. pend[u].by \in Caller \cup {"none", "xfer"}
      BY <1>0 DEF Types
    <3> QED BY <1>0, <1>2, <3>1, ThenFacts
  <2>4. Frame(u)
    BY <1>0, <1>1, <2>1, <2>2, <2>3 DEF Frame, Types
  <2>5. Kept(u)
    BY <1>0, <1>1, <2>2 DEF Kept, Same
  <2>6. RequestsFollow(u)
    <3>1. requests' \in [1..MaxRequests -> Upload \cup {None}]
      BY <1>0, <1>2 DEF Types
    <3>2. ASSUME NEW r \in 1..MaxRequests PROVE requests'[r] \in {requests[r], None} /\ requests'[r] # u
      <4>1. requests[r] = u => sess[u].request = r
        BY UploadAssumption DEF IInv, Peer, Requests
      <4> QED BY <1>2, <4>1, UploadAssumption
    <3> QED BY <3>1, <3>2 DEF RequestsFollow
  <2>7. Drawn(u)' /\ Records(u)'
    BY <1>0, <1>1, <2>2 DEF Session, Drawn, Records, Known
  <2>8. Transfers(u)' /\ Places(u)' /\ Offsets(u)'
    BY <1>0, <1>1, <2>1, <2>2, <2>3 DEF Session, Transfers, Places, Offsets, Known, EverPublished, Published
  <2> QED BY <1>1, <2>4, <2>5, <2>6, <2>7, <2>8 DEF Session, Session1
<1>3. CASE pend' = [pend EXCEPT ![u] = NoPend] /\ UNCHANGED <<temp, sess, requests>>
  <2>1. /\ pend' \in [Upload -> [step : {"none", "temp", "paths", "purge", "forget"}, by : Caller \cup {"none", "xfer"}]]
        /\ \A v \in Upload \ {u} : pend'[v] = pend[v]
        /\ pend'[u].step = "none"
    BY <1>0, <1>3, NoPendFacts
  <2>2. Frame(u)
    BY <1>0, <1>1, <1>3, <2>1 DEF Frame, Types
  <2>3. sess'[u] \in Record /\ Same(sess'[u], sess[u]) /\ sess'[u] # None
    BY <1>0, <1>3 DEF Known, Types, Same
  <2>4. Kept(u) /\ Drawn(u)' /\ Records(u)'
    BY <1>0, <1>1, <2>3, KnownStays
  <2>5. Transfers(u)' /\ Places(u)' /\ Offsets(u)'
    BY <1>0, <1>1, <1>3, <2>1 DEF Session, Transfers, Places, Offsets, Known, EverPublished, Published
  <2> QED BY <1>1, <1>3, <2>2, <2>3, <2>4, <2>5, RequestsStay DEF Session, Session1
<1> QED BY <1>2, <1>3 DEF Purge

LEMMA ForgetStep ==
    ASSUME IInv, NEW u \in Upload, Forget(u)
    PROVE  Session1(u)
PROOF
<1>0. /\ Types /\ Session(u) /\ pend[u].step = "forget" /\ ~Known(u) /\ acked[u] # -1
      /\ phase \notin {"down", "loading"} /\ xfer[u].at = "no"
  BY DEF IInv, Forget, Session, Transfers, Drawn, Known
<1>1. UNCHANGED <<phase, sess, temp, file, xfer, acked, requests, exclusive, source, Others, call, published, todo>>
  BY DEF Forget, store, peer, ghost, Others
<1>2. /\ disk' \in [Upload -> Record \cup {None}] /\ \A v \in Upload \ {u} : disk'[v] = disk[v]
      /\ disk'[u] \in {disk[u], None}
  <2>1. disk' = [disk EXCEPT ![u] = None] \/ disk' = disk
    BY DEF Forget
  <2> QED BY <1>0, <2>1 DEF Types
<1>3. /\ pend' \in [Upload -> [step : {"none", "temp", "paths", "purge", "forget"}, by : Caller \cup {"none", "xfer"}]]
      /\ \A v \in Upload \ {u} : pend'[v] = pend[v]
      /\ pend'[u].step = "none"
  BY <1>0, NoPendFacts DEF Forget
<1>4. Frame(u)
  BY <1>0, <1>1, <1>2, <1>3 DEF Frame, Types
<1>5. Kept(u)
  BY <1>0, <1>1, <1>2 DEF Kept, Same, Known
<1>6. RequestsFollow(u)
  BY <1>0, <1>1, UploadAssumption DEF RequestsFollow, IInv, Peer, Requests, Types, Known
<1>7. Drawn(u)' /\ Records(u)'
  BY <1>0, <1>1, <1>2 DEF Session, Drawn, Records, Known
<1>8. Transfers(u)' /\ Places(u)' /\ Offsets(u)'
  BY <1>0, <1>1, <1>2, <1>3 DEF Session, Transfers, Places, Offsets, Known, EverPublished, Published
<1> QED BY <1>1, <1>4, <1>5, <1>6, <1>7, <1>8 DEF Session, Session1

LEMMA DueRecord ==
    ASSUME NEW r \in Record, NEW s, s = [r EXCEPT !.due = TRUE]
    PROVE  s \in Record /\ Same(s, r) /\ s.state = r.state /\ s.committed = r.committed
  BY DEF Record, Same

LEMMA TickStep ==
    ASSUME IInv, NEW u \in Upload, Tick(u)
    PROVE  Session1(u)
PROOF
<1>0. Types /\ Session(u) /\ (Known(u) \/ disk[u] # None) /\ acked[u] # -1
  BY DEF IInv, Tick, Session, Drawn, Known
<1>1. UNCHANGED <<phase, temp, file, xfer, pend, acked, requests, exclusive, source, Others, call, published, todo>>
  BY DEF Tick, Steady, calls, peer, ghost, Others
<1>2. /\ sess' \in [Upload -> Record \cup {None}] /\ \A v \in Upload \ {u} : sess'[v] = sess[v]
      /\ Known(u) => sess'[u] \in Record /\ Same(sess'[u], sess[u]) /\ sess'[u].state = sess[u].state
                     /\ sess'[u].committed = sess[u].committed
      /\ ~Known(u) => sess'[u] = None
  <2>1. CASE Known(u)
    <3>1. PICK s : s = [sess[u] EXCEPT !.due = TRUE]
      OBVIOUS
    <3>2. sess[u] \in Record
      BY <1>0, <2>1 DEF Types, Known
    <3>3. s \in Record /\ Same(s, sess[u]) /\ s.state = sess[u].state /\ s.committed = sess[u].committed
      BY <3>1, <3>2, DueRecord
    <3>4. sess' = [sess EXCEPT ![u] = s]
      BY <2>1, <3>1 DEF Tick
    <3> QED BY <1>0, <2>1, <3>3, <3>4 DEF Types
  <2>2. CASE ~Known(u)
    BY <1>0, <2>2 DEF Tick, Types, Known
  <2> QED BY <2>1, <2>2
<1>3. /\ disk' \in [Upload -> Record \cup {None}] /\ \A v \in Upload \ {u} : disk'[v] = disk[v]
      /\ disk[u] # None => disk'[u] \in Record /\ Same(disk'[u], disk[u]) /\ disk'[u].state = disk[u].state
                     /\ disk'[u].committed = disk[u].committed
      /\ disk[u] = None => disk'[u] = None
  <2>1. CASE disk[u] # None
    <3>1. PICK s : s = [disk[u] EXCEPT !.due = TRUE]
      OBVIOUS
    <3>2. disk[u] \in Record
      BY <1>0, <2>1 DEF Types
    <3>3. s \in Record /\ Same(s, disk[u]) /\ s.state = disk[u].state /\ s.committed = disk[u].committed
      BY <3>1, <3>2, DueRecord
    <3>4. disk' = [disk EXCEPT ![u] = s]
      BY <2>1, <3>1 DEF Tick
    <3> QED BY <1>0, <2>1, <3>3, <3>4 DEF Types
  <2>2. CASE disk[u] = None
    BY <1>0, <2>2 DEF Tick, Types
  <2> QED BY <2>1, <2>2
<1>4. Frame(u)
  BY <1>0, <1>1, <1>2, <1>3 DEF Frame, Types
<1>5. Kept(u)
  BY <1>0, <1>1, <1>2, <1>3 DEF Kept, Known
<1>6. RequestsFollow(u)
  <2>1. Known(u) => sess'[u] # None
    BY <1>2, RecordAssumption
  <2>2. \A q \in 1..MaxRequests : requests[q] = u => sess'[u] # None
    BY <2>1, UploadAssumption DEF IInv, Peer, Requests
  <2> QED BY <1>0, <1>1, <2>2 DEF RequestsFollow, Types
<1>7. Drawn(u)' /\ Records(u)'
  <2>1. Drawn(u)'
    BY <1>0, <1>1 DEF Drawn
  <2>2. Records(u)
    BY <1>0 DEF Session
  <2> QED BY <1>1, <1>2, <1>3, <2>1, <2>2 DEF Records, Known, Same
<1>8. Transfers(u)'
  <2>1. Transfers(u)
    BY <1>0 DEF Session
  <2>2. CASE Known(u)
    <3>1. sess'[u].state = sess[u].state /\ sess'[u].content = sess[u].content /\ sess'[u] # None
      BY <1>2, <2>2, RecordAssumption DEF Same
    <3> QED BY <1>1, <2>1, <2>2, <3>1 DEF Transfers, Known, whole, isOpenUploadState
  <2>3. CASE ~Known(u)
    BY <1>1, <1>2, <2>1, <2>3 DEF Transfers, Known, isOpenUploadState
  <2> QED BY <2>2, <2>3
<1>9. Places(u)'
  <2>1. Known(u) => sess'[u].state = sess[u].state /\ sess'[u].target = sess[u].target
                    /\ sess'[u].content = sess[u].content
    BY <1>2 DEF Same
  <2>2. disk[u] # None => disk'[u].state = disk[u].state /\ disk'[u].target = disk[u].target
                          /\ disk'[u].content = disk[u].content /\ disk'[u] # None
    BY <1>3, RecordAssumption DEF Same
  <2>3. Places(u)
    BY <1>0 DEF Session
  <2>4. sess'[u] # None => Known(u)
    BY <1>2
  <2>5. disk'[u] # None => disk[u] # None
    BY <1>3
  <2> QED BY <1>1, <2>1, <2>2, <2>3, <2>4, <2>5 DEF Places, Known, Published, EverPublished
<1>10. Offsets(u)'
  BY <1>0, <1>1, <1>2, <1>3 DEF Session, Offsets, Known
<1> QED BY <1>1, <1>4, <1>5, <1>6, <1>7, <1>8, <1>9, <1>10 DEF Session, Session1

-----------------------------------------------------------------------------
(* The transfer of a session. *)

LEMMA StagedRecord ==
    ASSUME NEW s \in Staged, NEW l \in Nat, NEW n \in Nat, NEW g \in BOOLEAN, NEW d,
           d = [s EXCEPT !.len = l, !.good = g, !.synced = n]
    PROVE  d \in Staged /\ d.len = l /\ d.synced = n /\ d.good = g
  BY DEF Staged

LEMMA SyncedFacts ==
    ASSUME Types, NEW u \in Upload, Synced(u)
    PROVE  /\ temp' \in [Upload -> Staged \cup {None}] /\ \A v \in Upload \ {u} : temp'[v] = temp[v]
           /\ temp[u] = None => temp'[u] = None
           /\ temp[u] # None => /\ temp[u] \in Staged /\ temp'[u] \in Staged /\ temp'[u] # None
                                /\ temp'[u].len = temp[u].len
                                /\ temp'[u].synced = temp[u].len /\ temp'[u].good = temp[u].good
PROOF
<1>1. CASE temp[u] = None
  BY <1>1 DEF Synced, Types
<1>2. CASE temp[u] # None
  <2>1. temp[u] \in Staged
    BY <1>2 DEF Types
  <2>2. PICK d : d = [temp[u] EXCEPT !.synced = temp[u].len]
    OBVIOUS
  <2>3. d \in Staged /\ d.len = temp[u].len /\ d.synced = temp[u].len /\ d.good = temp[u].good
    BY <2>1, <2>2 DEF Staged
  <2>4. temp' = [temp EXCEPT ![u] = d]
    BY <1>2, <2>2 DEF Synced
  <2> QED BY <1>2, <2>1, <2>3, <2>4, RecordAssumption DEF Types
<1> QED BY <1>1, <1>2

LEMMA CheckpointFacts ==
    ASSUME Types, NEW u \in Upload, Known(u), sess[u].state = "OPEN", NEW n \in Nat, NEW ok \in BOOLEAN,
           checkpointUpload(u, n, ok)
    PROVE  /\ sess' \in [Upload -> Record \cup {None}] /\ \A v \in Upload \ {u} : sess'[v] = sess[v]
           /\ sess'[u] \in Record /\ Same(sess'[u], sess[u]) /\ sess'[u].state = "OPEN"
           /\ sess'[u].committed = IF ok THEN n ELSE sess[u].committed
           /\ disk' \in [Upload -> Record \cup {None}] /\ \A v \in Upload \ {u} : disk'[v] = disk[v]
           /\ \/ disk'[u] = disk[u] /\ (ok => n = sess[u].committed)
              \/ /\ disk'[u] \in Record /\ Same(disk'[u], sess[u])
                 /\ disk'[u].state = "OPEN" /\ disk'[u].committed = n
PROOF
<1>0. sess[u] \in Record
  BY DEF Types, Known
<1>1. CASE n = sess[u].committed
  <2>1. ok /\ UNCHANGED <<sess, disk>>
    BY <1>1 DEF checkpointUpload
  <2> QED BY <1>0, <1>1, <2>1 DEF Types, Same
<1>2. CASE n # sess[u].committed
  <2>1. PICK r : r = [sess[u] EXCEPT !.committed = n, !.due = FALSE]
    OBVIOUS
  <2>2. r \in Record /\ Same(r, sess[u]) /\ r.state = "OPEN" /\ r.committed = n
    BY <1>0, <2>1 DEF Record, Same
  <2>3. Saved(u, r, ok)
    BY <1>2, <2>1 DEF checkpointUpload
  <2>4. /\ disk' \in [Upload -> Record \cup {None}] /\ \A v \in Upload \ {u} : disk'[v] = disk[v]
        /\ disk'[u] \in {disk[u], r} /\ (ok => disk'[u] = r)
        /\ sess' \in [Upload -> Record \cup {None}] /\ \A v \in Upload \ {u} : sess'[v] = sess[v]
        /\ sess'[u] = IF ok THEN r ELSE sess[u]
    BY <2>2, <2>3, SavedFacts
  <2> QED BY <1>0, <2>2, <2>4 DEF Same
<1> QED BY <1>1, <1>2

(* What holds where a handler is between its first and its last step. *)
LEMMA Running ==
    ASSUME IInv, NEW u \in Upload, xfer[u].at \notin {"no", "left", "done"}
    PROVE  /\ Types /\ Session(u) /\ Known(u) /\ sess[u] \in Record
           /\ pend[u].step = "none" /\ phase \notin {"down", "loading"}
           /\ sess[u].state \in OpenStates
           /\ xfer[u].at \in XferAt /\ xfer[u].accepted \in Nat /\ acked[u] \in Int /\ acked[u] # -1
PROOF
<1>1. Types /\ Session(u)
  BY DEF IInv
<1>2. xfer[u].at \in XferAt /\ xfer[u].accepted \in Nat /\ acked[u] \in Int
  BY <1>1 DEF Types
<1>3. pend[u].step = "none" /\ phase \notin {"down", "loading"} /\ Known(u)
  BY <1>1, <1>2 DEF Session, Transfers, Types
<1>4. sess[u] \in Record /\ acked[u] # -1
  BY <1>1, <1>3 DEF Types, Known, Session, Drawn
<1>5. sess[u].state \in OpenStates
  BY <1>1, <1>2 DEF Session, Transfers, XferAt, OpenStates
<1> QED BY <1>1, <1>2, <1>3, <1>4, <1>5

LEMMA ChunkStep ==
    ASSUME IInv, NEW u \in Upload, NEW check \in BOOLEAN, TransferChunk(u, check)
    PROVE  Session1(u)
PROOF
<1> DEFINE n == xfer[u].accepted + 1
           new == IF temp[u] = None THEN None
                  ELSE [temp[u] EXCEPT !.len = n, !.good = @ /\ source = sess[u].content,
                                       !.synced = IF check THEN n ELSE @]
<1>0. xfer[u].at = "recv"
  BY DEF TransferChunk
<1>1. /\ Types /\ Session(u) /\ Known(u) /\ sess[u] \in Record
      /\ pend[u].step = "none" /\ phase \notin {"down", "loading"}
      /\ sess[u].state = "OPEN" /\ xfer[u].accepted \in Nat /\ acked[u] \in Int /\ acked[u] # -1
      /\ n \in Nat
  BY <1>0, Running DEF Session, Transfers
<1>2. UNCHANGED <<phase, file, pend, requests, exclusive, source, Others, call, published, todo>>
  BY DEF TransferChunk, Steady, peer, Others
<1>3. /\ temp' \in [Upload -> Staged \cup {None}] /\ \A v \in Upload \ {u} : temp'[v] = temp[v]
      /\ temp[u] = None => temp'[u] = None
      /\ temp[u] # None => temp'[u].len = n /\ temp'[u].synced = IF check THEN n ELSE temp[u].synced
  <2>1. CASE temp[u] = None
    BY <1>1, <2>1 DEF TransferChunk, Types
  <2>2. CASE temp[u] # None
    <3>1. temp[u] \in Staged
      BY <1>1, <2>2 DEF Types
    <3>2. temp[u].synced \in Nat /\ temp[u].good \in BOOLEAN
      BY <3>1 DEF Staged
    <3>3. PICK m \in Nat : m = IF check THEN n ELSE temp[u].synced
      BY <1>1, <3>2
    <3>4. PICK g \in BOOLEAN : g = (temp[u].good /\ source = sess[u].content)
      BY <3>2
    <3>5. PICK d : d = [temp[u] EXCEPT !.len = n, !.good = g, !.synced = m]
      OBVIOUS
    <3>6. d \in Staged /\ d.len = n /\ d.synced = m
      BY <1>1, <3>1, <3>5 DEF Staged
    <3>7. temp' = [temp EXCEPT ![u] = d]
      BY <2>2, <3>3, <3>4, <3>5 DEF TransferChunk
    <3> QED BY <1>1, <2>2, <3>3, <3>6, <3>7 DEF Types
  <2> QED BY <2>1, <2>2
<1>4. /\ sess' \in [Upload -> Record \cup {None}] /\ \A v \in Upload \ {u} : sess'[v] = sess[v]
      /\ sess'[u] \in Record /\ Same(sess'[u], sess[u]) /\ sess'[u].state = "OPEN"
      /\ disk' \in [Upload -> Record \cup {None}] /\ \A v \in Upload \ {u} : disk'[v] = disk[v]
      /\ \/ disk'[u] = disk[u]
         \/ /\ disk'[u] \in Record /\ Same(disk'[u], sess[u])
            /\ disk'[u].state = "OPEN" /\ disk'[u].committed = n
      /\ xfer' \in [Upload -> [at : XferAt, accepted : Nat, mark : Nat]]
      /\ \A v \in Upload \ {u} : xfer'[v] = xfer[v]
      /\ acked' \in [Upload -> Int] /\ \A v \in Upload \ {u} : acked'[v] = acked[v]
      /\ \/ /\ ~check /\ xfer'[u].at = "recv" /\ xfer'[u].accepted = n
            /\ sess' = sess /\ disk' = disk /\ acked'[u] = acked[u]
         \/ /\ check /\ xfer'[u].at = "recv" /\ xfer'[u].accepted = n
            /\ sess'[u].committed = n /\ acked'[u] = n
            /\ disk'[u] = disk[u] => n = sess[u].committed \/ disk'[u].committed = n
         \/ /\ check /\ xfer'[u].at = "left" /\ acked'[u] = acked[u]
            /\ sess'[u].committed = sess[u].committed
  <2>1. CASE ~check /\ xfer' = [xfer EXCEPT ![u].accepted = n] /\ UNCHANGED <<sess, disk, acked>>
    <3>1. /\ xfer' \in [Upload -> [at : XferAt, accepted : Nat, mark : Nat]]
          /\ \A v \in Upload \ {u} : xfer'[v] = xfer[v]
          /\ xfer'[u].at = "recv" /\ xfer'[u].accepted = n
      <4>0. PICK m \in Nat : m = n
        BY <1>1
      <4>1. PICK r : r = [xfer[u] EXCEPT !.accepted = m]
        OBVIOUS
      <4>2. xfer[u] \in [at : XferAt, accepted : Nat, mark : Nat] /\ xfer[u].at = "recv"
        BY <1>0, <1>1 DEF Types
      <4>3. r \in [at : XferAt, accepted : Nat, mark : Nat] /\ r.at = "recv" /\ r.accepted = m
        BY <4>1, <4>2
      <4>4. xfer' = [xfer EXCEPT ![u] = r]
        BY <2>1, <4>0, <4>1, <4>2
      <4>5. Types
        BY <1>1
      <4> QED BY <4>0, <4>1, <4>3, <4>4, <4>5, XferFacts
    <3> QED BY <1>1, <2>1, <3>1 DEF Types, Same
  <2>2. CASE /\ check /\ checkpointUpload(u, n, TRUE)
             /\ xfer' = [xfer EXCEPT ![u].accepted = n, ![u].mark = n]
             /\ acked' = [acked EXCEPT ![u] = n]
    <3>1. /\ xfer' \in [Upload -> [at : XferAt, accepted : Nat, mark : Nat]]
          /\ \A v \in Upload \ {u} : xfer'[v] = xfer[v]
          /\ xfer'[u].at = "recv" /\ xfer'[u].accepted = n
      <4>0. PICK m \in Nat : m = n
        BY <1>1
      <4>1. PICK r : r = [xfer[u] EXCEPT !.accepted = m, !.mark = m]
        OBVIOUS
      <4>2. xfer[u] \in [at : XferAt, accepted : Nat, mark : Nat] /\ xfer[u].at = "recv"
        BY <1>0, <1>1 DEF Types
      <4>3. r \in [at : XferAt, accepted : Nat, mark : Nat] /\ r.at = "recv" /\ r.accepted = m
        BY <4>1, <4>2
      <4>4. xfer' = [xfer EXCEPT ![u] = r]
        BY <2>2, <4>0, <4>1, <4>2
      <4>5. Types
        BY <1>1
      <4> QED BY <4>0, <4>1, <4>3, <4>4, <4>5, XferFacts
    <3> HIDE DEF n
    <3>2. n \in Int /\ acked \in [Upload -> Int] /\ acked' = [acked EXCEPT ![u] = n]
      BY <1>0, <1>1, <2>2 DEF Types
    <3>3. acked' \in [Upload -> Int] /\ acked'[u] = n /\ \A v \in Upload \ {u} : acked'[v] = acked[v]
      BY <3>2
    <3>4. PICK ok \in BOOLEAN : ok /\ checkpointUpload(u, n, ok)
      BY <2>2
    <3>5. /\ sess' \in [Upload -> Record \cup {None}] /\ \A v \in Upload \ {u} : sess'[v] = sess[v]
          /\ sess'[u] \in Record /\ Same(sess'[u], sess[u]) /\ sess'[u].state = "OPEN"
          /\ sess'[u].committed = n
          /\ disk' \in [Upload -> Record \cup {None}] /\ \A v \in Upload \ {u} : disk'[v] = disk[v]
          /\ \/ disk'[u] = disk[u] /\ n = sess[u].committed
             \/ /\ disk'[u] \in Record /\ Same(disk'[u], sess[u])
                /\ disk'[u].state = "OPEN" /\ disk'[u].committed = n
      <4>1. Types /\ Known(u) /\ sess[u].state = "OPEN" /\ n \in Nat
        BY <1>1
      <4>2. ok /\ checkpointUpload(u, n, ok)
        BY <3>4
      <4>3. /\ sess' \in [Upload -> Record \cup {None}] /\ \A v \in Upload \ {u} : sess'[v] = sess[v]
            /\ sess'[u] \in Record /\ Same(sess'[u], sess[u]) /\ sess'[u].state = "OPEN"
            /\ sess'[u].committed = IF ok THEN n ELSE sess[u].committed
            /\ disk' \in [Upload -> Record \cup {None}] /\ \A v \in Upload \ {u} : disk'[v] = disk[v]
            /\ \/ disk'[u] = disk[u] /\ (ok => n = sess[u].committed)
               \/ /\ disk'[u] \in Record /\ Same(disk'[u], sess[u])
                  /\ disk'[u].state = "OPEN" /\ disk'[u].committed = n
        BY <4>1, <4>2, CheckpointFacts, Zenon
      <4> QED BY <4>2, <4>3
    <3> QED BY <2>2, <3>1, <3>2, <3>3, <3>5
  <2>3. CASE check /\ checkpointUpload(u, n, FALSE) /\ At(u, "left") /\ UNCHANGED acked
    <3>1. /\ xfer' \in [Upload -> [at : XferAt, accepted : Nat, mark : Nat]]
          /\ \A v \in Upload \ {u} : xfer'[v] = xfer[v]
          /\ xfer'[u].at = "left"
      BY <1>1, <2>3, AtFacts DEF XferAt
    <3> HIDE DEF n
    <3>4. PICK ok \in BOOLEAN : ~ok /\ checkpointUpload(u, n, ok)
      BY <2>3
    <3>5. /\ sess' \in [Upload -> Record \cup {None}] /\ \A v \in Upload \ {u} : sess'[v] = sess[v]
          /\ sess'[u] \in Record /\ Same(sess'[u], sess[u]) /\ sess'[u].state = "OPEN"
          /\ sess'[u].committed = sess[u].committed
          /\ disk' \in [Upload -> Record \cup {None}] /\ \A v \in Upload \ {u} : disk'[v] = disk[v]
          /\ \/ disk'[u] = disk[u]
             \/ /\ disk'[u] \in Record /\ Same(disk'[u], sess[u])
                /\ disk'[u].state = "OPEN" /\ disk'[u].committed = n
      BY <1>1, <3>4, CheckpointFacts
    <3>6. acked' \in [Upload -> Int] /\ \A v \in Upload : acked'[v] = acked[v]
      BY <1>1, <2>3 DEF Types
    <3> QED BY <2>3, <3>1, <3>5, <3>6
  <2> QED BY <2>1, <2>2, <2>3 DEF TransferChunk
<1> HIDE DEF n, new
<1>5. n = xfer[u].accepted + 1
  BY DEF n
<1>6. Frame(u)
  BY <1>1, <1>2, <1>3, <1>4 DEF Frame, Types
<1>7. Kept(u) /\ Drawn(u)' /\ Records(u)'
  <2>1. acked'[u] = acked[u] \/ acked'[u] \in Nat
    BY <1>1, <1>4
  <2>2. disk'[u] = disk[u] \/ Same(disk'[u], sess[u])
    BY <1>4
  <2> QED BY <1>1, <1>2, <1>4, <2>1, <2>2, KnownStays
<1>8. sess'[u] # None
  BY <1>4, RecordAssumption
<1>9. Transfers(u)'
  BY <1>1, <1>2, <1>4, <1>8 DEF Transfers, Known
<1>10. Places(u)'
  BY <1>1, <1>2, <1>3, <1>4 DEF Session, Places, Published, Known, EverPublished
<1>11. Offsets(u)'
  <2>1. /\ acked[u] <= sess[u].committed /\ sess[u].committed <= xfer[u].accepted
        /\ disk[u] # None => acked[u] <= disk[u].committed
        /\ temp[u] # None => acked[u] <= temp[u].synced /\ temp[u].synced <= temp[u].len
                             /\ temp[u].len = xfer[u].accepted
    BY <1>0, <1>1 DEF Session, Offsets
  <2>2. sess[u].committed \in Nat
    BY <1>1 DEF Record
  <2>3. temp[u] # None => temp[u].synced \in Nat /\ temp[u].len \in Nat
    BY <1>1 DEF Types, Staged
  <2>4. disk'[u] # None => acked'[u] <= disk'[u].committed
    BY <1>1, <1>4, <1>5, <2>1, <2>2
  <2>5. temp'[u] # None => /\ acked'[u] <= temp'[u].synced /\ temp'[u].synced <= temp'[u].len
                           /\ temp'[u].len = n
    BY <1>1, <1>3, <1>4, <1>5, <2>1, <2>2, <2>3
  <2>6. acked'[u] <= sess'[u].committed /\ (xfer'[u].at = "recv" => sess'[u].committed <= n)
    BY <1>1, <1>4, <1>5, <2>1, <2>2
  <2> QED BY <1>4, <2>4, <2>5, <2>6 DEF Offsets, Known
<1> QED BY <1>2, <1>6, <1>7, <1>8, <1>9, <1>10, <1>11, RequestsStay DEF Session, Session1

(* A checkpoint of all that was accepted. *)
LEMMA CheckpointStep ==
    ASSUME IInv, NEW u \in Upload, xfer[u].at \in {"recv", "finish"}, NEW ok \in BOOLEAN,
           checkpointUpload(u, xfer[u].accepted, ok), Synced(u),
           NEW at \in {"left", "finalize"}, At(u, at),
           UNCHANGED <<phase, file, pend, requests, exclusive, source, Others, call, published, todo, acked>>
    PROVE  Session1(u)
PROOF
<1> DEFINE n == xfer[u].accepted
<1>0. n = xfer[u].accepted
  OBVIOUS
<1>1. /\ Types /\ Session(u) /\ Known(u) /\ sess[u] \in Record
      /\ pend[u].step = "none" /\ phase \notin {"down", "loading"}
      /\ sess[u].state = "OPEN" /\ n \in Nat /\ acked[u] \in Int /\ acked[u] # -1
  BY Running DEF Session, Transfers
<1> HIDE DEF n
<1>2. /\ temp' \in [Upload -> Staged \cup {None}] /\ \A v \in Upload \ {u} : temp'[v] = temp[v]
      /\ temp[u] = None => temp'[u] = None
      /\ temp[u] # None => /\ temp[u] \in Staged /\ temp'[u] \in Staged /\ temp'[u] # None
                           /\ temp'[u].len = temp[u].len /\ temp'[u].synced = temp[u].len
  BY <1>1, SyncedFacts
<1>3. /\ sess' \in [Upload -> Record \cup {None}] /\ \A v \in Upload \ {u} : sess'[v] = sess[v]
      /\ sess'[u] \in Record /\ Same(sess'[u], sess[u]) /\ sess'[u].state = "OPEN"
      /\ sess'[u].committed \in {n, sess[u].committed}
      /\ disk' \in [Upload -> Record \cup {None}] /\ \A v \in Upload \ {u} : disk'[v] = disk[v]
      /\ \/ disk'[u] = disk[u]
         \/ /\ disk'[u] \in Record /\ Same(disk'[u], sess[u])
            /\ disk'[u].state = "OPEN" /\ disk'[u].committed = n
  BY <1>0, <1>1, CheckpointFacts
<1>4. /\ xfer' \in [Upload -> [at : XferAt, accepted : Nat, mark : Nat]]
      /\ \A v \in Upload \ {u} : xfer'[v] = xfer[v]
      /\ xfer'[u].at \in {"left", "finalize"}
  BY <1>1, AtFacts DEF XferAt
<1>5. Frame(u)
  BY <1>1, <1>2, <1>3, <1>4 DEF Frame, Types
<1>6. sess'[u] # None
  BY <1>3, RecordAssumption
<1>7. Kept(u) /\ Drawn(u)' /\ Records(u)'
  BY <1>1, <1>3, KnownStays
<1>8. Transfers(u)'
  BY <1>1, <1>3, <1>4, <1>6 DEF Transfers, Known
<1>9. Places(u)'
  BY <1>1, <1>2, <1>3, <1>4 DEF Session, Places, Published, Known, EverPublished
<1>10. Offsets(u)'
  <2>1. /\ acked[u] <= sess[u].committed /\ sess[u].committed <= n
        /\ disk[u] # None => acked[u] <= disk[u].committed
        /\ temp[u] # None => acked[u] <= temp[u].synced /\ temp[u].synced <= temp[u].len
    BY <1>0, <1>1 DEF Session, Offsets, Known
  <2>2. sess[u].committed \in Nat
    BY <1>1 DEF Record
  <2>3. temp[u] # None => temp[u].synced \in Nat /\ temp[u].len \in Nat
    BY <1>2 DEF Staged
  <2>4. disk'[u] # None => acked'[u] <= disk'[u].committed
    BY <1>1, <1>3, <2>1, <2>2
  <2>5. temp'[u] # None => acked'[u] <= temp'[u].synced /\ temp'[u].synced <= temp'[u].len
    BY <1>1, <1>2, <2>1, <2>3
  <2>6. acked'[u] <= sess'[u].committed
    BY <1>1, <1>3, <2>1, <2>2
  <2> QED BY <1>4, <2>4, <2>5, <2>6 DEF Offsets, Known
<1> QED BY <1>5, <1>6, <1>7, <1>8, <1>9, <1>10, RequestsStay DEF Session, Session1

LEMMA BreaksStep ==
    ASSUME IInv, NEW u \in Upload, TransferBreaks(u)
    PROVE  Session1(u)
PROOF
<1>1. UNCHANGED <<phase, file, pend, requests, exclusive, source, Others, call, published, todo, acked>>
  BY DEF TransferBreaks, Steady, peer, ghost, Others
<1>2. PICK ok \in BOOLEAN : checkpointUpload(u, xfer[u].accepted, ok)
  BY DEF TransferBreaks
<1> QED BY <1>1, <1>2, CheckpointStep DEF TransferBreaks

LEMMA FinishStep ==
    ASSUME IInv, NEW u \in Upload, TransferFinish(u)
    PROVE  Session1(u)
PROOF
<1>1. UNCHANGED <<phase, file, pend, requests, exclusive, source, Others, call, published, todo, acked>>
  BY DEF TransferFinish, Steady, peer, ghost, Others
<1>2. PICK ok \in BOOLEAN : /\ checkpointUpload(u, xfer[u].accepted, ok)
                            /\ At(u, IF ok THEN "finalize" ELSE "left")
  BY DEF TransferFinish
<1>3. PICK at \in {"left", "finalize"} : At(u, at)
  BY <1>2
<1> QED BY <1>1, <1>2, <1>3, CheckpointStep DEF TransferFinish

LEMMA FinalizeStep ==
    ASSUME IInv, NEW u \in Upload, Finalize(u)
    PROVE  Session1(u)
PROOF
<1>0. xfer[u].at = "finalize"
  BY DEF Finalize
<1>1. /\ Types /\ Session(u) /\ Known(u) /\ sess[u] \in Record
      /\ pend[u].step = "none" /\ phase \notin {"down", "loading"}
      /\ sess[u].state = "OPEN" /\ acked[u] \in Int /\ acked[u] # -1
  BY <1>0, Running DEF Session, Transfers
<1>2. UNCHANGED <<phase, file, temp, pend, requests, exclusive, source, Others, call, published, todo, acked>>
  BY DEF Finalize, Steady, peer, ghost, Others
<1>3. /\ sess' \in [Upload -> Record \cup {None}] /\ \A v \in Upload \ {u} : sess'[v] = sess[v]
      /\ sess'[u] \in Record /\ Same(sess'[u], sess[u]) /\ sess'[u].committed = sess[u].committed
      /\ disk' \in [Upload -> Record \cup {None}] /\ \A v \in Upload \ {u} : disk'[v] = disk[v]
      /\ \/ disk'[u] = disk[u]
         \/ /\ disk'[u] \in Record /\ Same(disk'[u], sess[u])
            /\ disk'[u].state = "FINALIZING" /\ disk'[u].committed = sess[u].committed
      /\ xfer' \in [Upload -> [at : XferAt, accepted : Nat, mark : Nat]]
      /\ \A v \in Upload \ {u} : xfer'[v] = xfer[v]
      /\ \/ sess'[u].state = "FINALIZING" /\ xfer'[u].at = "verify"
         \/ sess'[u].state = "OPEN" /\ xfer'[u].at = "left"
  <2>1. CASE At(u, "left") /\ UNCHANGED <<sess, disk>>
    BY <1>1, <2>1, AtFacts DEF Types, Same, XferAt
  <2>2. CASE \E ok \in BOOLEAN :
                /\ Saved(u, [sess[u] EXCEPT !.state = "FINALIZING"], ok)
                /\ At(u, IF ok THEN "verify" ELSE "left")
    <3>1. PICK r : r = [sess[u] EXCEPT !.state = "FINALIZING"]
      OBVIOUS
    <3>2. r \in Record /\ Same(r, sess[u]) /\ r.state = "FINALIZING" /\ r.committed = sess[u].committed
      BY <1>1, <3>1 DEF Record, Same, OpenStates
    <3>3. PICK ok \in BOOLEAN : Saved(u, r, ok) /\ At(u, IF ok THEN "verify" ELSE "left")
      BY <2>2, <3>1
    <3>4. /\ disk' \in [Upload -> Record \cup {None}] /\ \A v \in Upload \ {u} : disk'[v] = disk[v]
          /\ disk'[u] \in {disk[u], r}
          /\ sess' \in [Upload -> Record \cup {None}] /\ \A v \in Upload \ {u} : sess'[v] = sess[v]
          /\ sess'[u] = IF ok THEN r ELSE sess[u]
      BY <1>1, <3>2, <3>3, SavedFacts
    <3>5. PICK at \in {"verify", "left"} : At(u, at) /\ (ok <=> at = "verify")
      BY <3>3
    <3>6. /\ xfer' \in [Upload -> [at : XferAt, accepted : Nat, mark : Nat]]
          /\ \A v \in Upload \ {u} : xfer'[v] = xfer[v]
          /\ xfer'[u].at = at
      BY <1>1, <3>5, AtFacts DEF XferAt
    <3> QED BY <1>1, <3>2, <3>4, <3>5, <3>6 DEF Same
  <2> QED BY <2>1, <2>2 DEF Finalize
<1>4. Frame(u)
  BY <1>1, <1>2, <1>3 DEF Frame, Types
<1>5. sess'[u] # None
  BY <1>3, RecordAssumption
<1>6. Kept(u) /\ Drawn(u)' /\ Records(u)'
  BY <1>1, <1>2, <1>3, KnownStays
<1>7. Transfers(u)'
  BY <1>1, <1>2, <1>3, <1>5 DEF Transfers, Known
<1>8. Places(u)'
  BY <1>1, <1>2, <1>3 DEF Session, Places, Published, Known, EverPublished
<1>9. Offsets(u)'
  BY <1>1, <1>2, <1>3 DEF Session, Offsets, Known
<1> QED BY <1>2, <1>4, <1>5, <1>6, <1>7, <1>8, <1>9, RequestsStay DEF Session, Session1

(* FAILED in memory, and perhaps in the record. *)
LEMMA FailStep ==
    ASSUME IInv, NEW u \in Upload, xfer[u].at \in {"verify", "publish"}, failUpload(u),
           UNCHANGED <<phase, file, temp, requests, exclusive, source, Others, call, published, todo, acked>>
    PROVE  Session1(u)
PROOF
<1>1. /\ Types /\ Session(u) /\ Known(u) /\ sess[u] \in Record
      /\ pend[u].step = "none" /\ phase \notin {"down", "loading"}
      /\ sess[u].state = "FINALIZING" /\ acked[u] \in Int /\ acked[u] # -1
  BY Running DEF Session, Transfers
<1> DEFINE r == Ended(sess[u], "FAILED")
<1>2. r \in Record /\ Same(r, sess[u]) /\ r.state = "FAILED" /\ r.committed = sess[u].committed
  BY <1>1, EndedRecord DEF TerminalStates
<1>3. PICK ok \in BOOLEAN : persistRecord(u, r, ok)
  BY DEF failUpload
<1>4. sess' = [sess EXCEPT ![u] = r] /\ Then(u, "temp", "xfer") /\ At(u, "left")
  BY DEF failUpload
<1> HIDE DEF r
<1>5. /\ disk' \in [Upload -> Record \cup {None}] /\ \A v \in Upload \ {u} : disk'[v] = disk[v]
      /\ disk'[u] \in {disk[u], r}
  BY <1>1, <1>2, <1>3, Persisted
<1>6. /\ sess' \in [Upload -> Record \cup {None}] /\ \A v \in Upload \ {u} : sess'[v] = sess[v]
      /\ sess'[u] = r
  BY <1>1, <1>2, <1>4 DEF Types
<1>7. /\ pend' \in [Upload -> [step : {"none", "temp", "paths", "purge", "forget"}, by : Caller \cup {"none", "xfer"}]]
      /\ \A v \in Upload \ {u} : pend'[v] = pend[v]
      /\ pend'[u].step = "temp"
  BY <1>1, <1>4, ThenFacts
<1>8. /\ xfer' \in [Upload -> [at : XferAt, accepted : Nat, mark : Nat]]
      /\ \A v \in Upload \ {u} : xfer'[v] = xfer[v]
  BY <1>1, <1>4, AtFacts DEF XferAt
<1>9. xfer'[u].at = "left"
  BY <1>1, <1>4, AtFacts DEF XferAt
<1>10. Frame(u)
  BY <1>1, <1>5, <1>6, <1>7, <1>8 DEF Frame, Types
<1>11. sess'[u] # None /\ sess'[u] \in Record /\ Same(sess'[u], sess[u])
  BY <1>2, <1>6, RecordAssumption
<1>12. Kept(u) /\ Drawn(u)' /\ Records(u)'
  BY <1>1, <1>2, <1>5, <1>11, KnownStays
<1>13. Transfers(u)'
  BY <1>1, <1>2, <1>6, <1>7, <1>9, <1>11 DEF Transfers, Known, isOpenUploadState, OpenStates
<1>14. Places(u)'
  BY <1>1, <1>2, <1>5, <1>6 DEF Session, Places, Published, Known, EverPublished
<1>15. Offsets(u)'
  BY <1>1, <1>2, <1>5, <1>6, <1>9 DEF Session, Offsets, Known
<1> QED BY <1>10, <1>11, <1>12, <1>13, <1>14, <1>15, RequestsStay DEF Session, Session1

LEMMA VerifyStep ==
    ASSUME IInv, NEW u \in Upload, Verify(u)
    PROVE  Session1(u)
PROOF
<1>0. xfer[u].at = "verify"
  BY DEF Verify
<1>1. /\ Types /\ Session(u) /\ Known(u) /\ sess[u] \in Record
      /\ pend[u].step = "none" /\ phase \notin {"down", "loading"}
      /\ sess[u].state = "FINALIZING" /\ acked[u] \in Int /\ acked[u] # -1
  BY <1>0, Running DEF Session, Transfers
<1>2. UNCHANGED <<phase, file, requests, exclusive, source, Others, call, published, todo, acked>>
  BY DEF Verify, Steady, peer, ghost, Others
<1>3. CASE failUpload(u) /\ UNCHANGED temp
  BY <1>0, <1>2, <1>3, FailStep
<1>4. CASE whole(u) /\ At(u, "publish") /\ Synced(u) /\ UNCHANGED <<sess, disk, pend>>
  <2>1. /\ temp' \in [Upload -> Staged \cup {None}] /\ \A v \in Upload \ {u} : temp'[v] = temp[v]
        /\ temp[u] # None /\ temp[u] \in Staged /\ temp'[u] # None
        /\ temp'[u].len = temp[u].len
        /\ temp'[u].synced = temp[u].len /\ temp'[u].good = temp[u].good
    BY <1>1, <1>4, SyncedFacts DEF whole
  <2>2. /\ xfer' \in [Upload -> [at : XferAt, accepted : Nat, mark : Nat]]
        /\ \A v \in Upload \ {u} : xfer'[v] = xfer[v]
        /\ xfer'[u].at = "publish"
    BY <1>1, <1>4, AtFacts DEF XferAt
  <2>3. Frame(u)
    BY <1>1, <1>2, <1>4, <2>1, <2>2 DEF Frame, Types
  <2>4. Kept(u) /\ Drawn(u)' /\ Records(u)'
    <3>1. sess'[u] \in Record /\ Same(sess'[u], sess[u])
      BY <1>1, <1>4 DEF Same
    <3> QED BY <1>1, <1>2, <1>4, <3>1, KnownStays
  <2>5. Transfers(u)'
    <3>1. whole(u)'
      BY <1>4, <2>1 DEF whole
    <3> QED BY <1>1, <1>2, <1>4, <2>2, <3>1 DEF Transfers, Known
  <2>6. Places(u)'
    BY <1>0, <1>1, <1>2, <1>4, <2>1, <2>2 DEF Session, Places, Published, Known, EverPublished
  <2>7. Offsets(u)'
    <3>1. /\ acked[u] <= temp[u].synced /\ temp[u].synced <= temp[u].len
          /\ temp[u].synced \in Nat /\ temp[u].len \in Nat
      BY <1>1, <2>1 DEF Session, Offsets, Staged
    <3>2. acked'[u] <= temp'[u].synced /\ temp'[u].synced <= temp'[u].len
      BY <1>1, <1>2, <2>1, <3>1
    <3> QED BY <1>1, <1>2, <1>4, <2>2, <3>2 DEF Session, Offsets, Known
  <2> QED BY <1>1, <1>2, <1>4, <2>3, <2>4, <2>5, <2>6, <2>7, RequestsStay DEF Session, Session1, Known
<1> QED BY <1>3, <1>4 DEF Verify

LEMMA PublishStep ==
    ASSUME IInv, NEW u \in Upload, Publish(u)
    PROVE  Session1(u)
PROOF
<1>0. xfer[u].at = "publish"
  BY DEF Publish
<1>1. /\ Types /\ Session(u) /\ Known(u) /\ sess[u] \in Record
      /\ pend[u].step = "none" /\ phase \notin {"down", "loading"}
      /\ sess[u].state = "FINALIZING" /\ acked[u] \in Int /\ acked[u] # -1
  BY <1>0, Running DEF Session, Transfers
<1>2. UNCHANGED <<phase, requests, exclusive, source, Others, call, todo, acked>>
  BY DEF Publish, Steady, peer, Others
<1>3. CASE failUpload(u) /\ UNCHANGED <<temp, file, published>>
  BY <1>0, <1>2, <1>3, FailStep
<1>4. CASE /\ file' = [file EXCEPT ![sess[u].target] = IF whole(u) THEN sess[u].content ELSE "torn"]
           /\ published' = published \cup {<<u, sess[u].target, sess[u].content>>}
           /\ temp' = IF exclusive THEN temp ELSE [temp EXCEPT ![u] = None]
           /\ At(u, IF exclusive THEN "unlink" ELSE "complete")
           /\ UNCHANGED <<sess, disk, pend>>
  <2>1. sess[u].target \in Target /\ sess[u].content \in Content
    BY <1>1 DEF Record
  <2>2. file' \in [Target -> {"none", "torn"} \cup Content \cup Foreign]
    BY <1>1, <1>4, <2>1 DEF Types
  <2>3. /\ temp' \in [Upload -> Staged \cup {None}] /\ \A v \in Upload \ {u} : temp'[v] = temp[v]
        /\ temp'[u] \in {temp[u], None} /\ (~exclusive => temp'[u] = None)
    BY <1>1, <1>4 DEF Types
  <2>4. PICK at \in {"unlink", "complete"} : At(u, at)
    BY <1>4
  <2>5. /\ xfer' \in [Upload -> [at : XferAt, accepted : Nat, mark : Nat]]
        /\ \A v \in Upload \ {u} : xfer'[v] = xfer[v]
        /\ xfer'[u].at \in {"unlink", "complete"}
    BY <1>1, <2>4, AtFacts DEF XferAt
  <2>6. \A p \in published' \ published : p = <<u, sess[u].target, sess[u].content>>
    BY <1>4
  <2>7. \A p \in published' \ published : p[1] = u /\ p \in Upload \X Target \X Content
    BY <2>1, <2>6
  <2>8. published \subseteq published' /\ <<u, sess[u].target, sess[u].content>> \in published'
    BY <1>4
  <2>9. Frame(u)
    BY <1>1, <1>2, <1>4, <2>2, <2>3, <2>5, <2>7, <2>8 DEF Frame, Types
  <2>10. Kept(u) /\ Drawn(u)' /\ Records(u)'
    <3>1. sess'[u] \in Record /\ Same(sess'[u], sess[u])
      BY <1>1, <1>4 DEF Same
    <3> QED BY <1>1, <1>2, <1>4, <2>6, <3>1, KnownStays
  <2>11. Transfers(u)'
    BY <1>1, <1>2, <1>4, <2>5 DEF Transfers, Known
  <2>12. Places(u)'
    BY <1>0, <1>1, <1>2, <1>4, <2>3, <2>5, <2>8 DEF Session, Places, Published, Known, EverPublished
  <2>13. Offsets(u)'
    BY <1>1, <1>2, <1>4, <2>3, <2>5 DEF Session, Offsets, Known
  <2> QED BY <1>1, <1>2, <1>4, <2>9, <2>10, <2>11, <2>12, <2>13, RequestsStay DEF Session, Session1, Known
<1> QED BY <1>3, <1>4 DEF Publish

LEMMA UnlinkStep ==
    ASSUME IInv, NEW u \in Upload, Unlink(u)
    PROVE  Session1(u)
PROOF
<1>0. xfer[u].at = "unlink"
  BY DEF Unlink
<1>1. /\ Types /\ Session(u) /\ Known(u) /\ sess[u] \in Record
      /\ pend[u].step = "none" /\ phase \notin {"down", "loading"}
      /\ sess[u].state = "FINALIZING" /\ acked[u] \in Int /\ acked[u] # -1
  BY <1>0, Running DEF Session, Transfers
<1>2. UNCHANGED <<phase, sess, disk, file, pend, published, requests, exclusive, source, Others, call, todo, acked>>
  BY DEF Unlink, store, peer, ghost, Others
<1>3. /\ temp' \in [Upload -> Staged \cup {None}] /\ \A v \in Upload \ {u} : temp'[v] = temp[v]
      /\ temp'[u] \in {temp[u], None}
  <2>1. temp' = temp \/ temp' = [temp EXCEPT ![u] = None]
    BY DEF Unlink
  <2> QED BY <1>1, <2>1 DEF Types
<1>4. PICK at \in {"complete", "left"} : At(u, at)
  BY DEF Unlink
<1>5. /\ xfer' \in [Upload -> [at : XferAt, accepted : Nat, mark : Nat]]
      /\ \A v \in Upload \ {u} : xfer'[v] = xfer[v]
      /\ xfer'[u].at \in {"complete", "left"}
  BY <1>1, <1>4, AtFacts DEF XferAt
<1>6. Frame(u)
  BY <1>1, <1>2, <1>3, <1>5 DEF Frame, Types
<1>7. Kept(u) /\ Drawn(u)' /\ Records(u)'
  <2>1. sess'[u] \in Record /\ Same(sess'[u], sess[u])
    BY <1>1, <1>2 DEF Same
  <2> QED BY <1>1, <1>2, <2>1, KnownStays
<1>8. Transfers(u)'
  BY <1>1, <1>2, <1>5 DEF Transfers, Known
<1>9. Places(u)'
  BY <1>0, <1>1, <1>2, <1>3, <1>5 DEF Session, Places, Published, Known, EverPublished
<1>10. Offsets(u)'
  BY <1>1, <1>2, <1>3, <1>5 DEF Session, Offsets, Known
<1> QED BY <1>1, <1>2, <1>6, <1>7, <1>8, <1>9, <1>10, RequestsStay DEF Session, Session1, Known

LEMMA CompleteStep ==
    ASSUME IInv, NEW u \in Upload, Complete(u)
    PROVE  Session1(u)
PROOF
<1>0. xfer[u].at = "complete"
  BY DEF Complete
<1>1. /\ Types /\ Session(u) /\ Known(u) /\ sess[u] \in Record
      /\ pend[u].step = "none" /\ phase \notin {"down", "loading"}
      /\ sess[u].state = "FINALIZING" /\ acked[u] \in Int /\ acked[u] # -1
      /\ Published(u, sess[u])
  BY <1>0, Running DEF Session, Transfers, Places
<1>2. UNCHANGED <<phase, temp, file, published, requests, exclusive, source, Others, call, todo, acked>>
  BY DEF Complete, Steady, peer, ghost, Others
<1>3. CASE At(u, "left") /\ UNCHANGED <<sess, disk, pend>>
  <2>1. /\ xfer' \in [Upload -> [at : XferAt, accepted : Nat, mark : Nat]]
        /\ \A v \in Upload \ {u} : xfer'[v] = xfer[v]
        /\ xfer'[u].at = "left"
    BY <1>1, <1>3, AtFacts DEF XferAt
  <2>2. Frame(u)
    BY <1>1, <1>2, <1>3, <2>1 DEF Frame, Types
  <2>3. Kept(u) /\ Drawn(u)' /\ Records(u)'
    <3>1. sess'[u] \in Record /\ Same(sess'[u], sess[u])
      BY <1>1, <1>3 DEF Same
    <3> QED BY <1>1, <1>2, <1>3, <3>1, KnownStays
  <2>4. Transfers(u)' /\ Places(u)' /\ Offsets(u)'
    BY <1>1, <1>2, <1>3, <2>1 DEF Session, Transfers, Places, Offsets, Known, EverPublished, Published
  <2> QED BY <1>1, <1>2, <1>3, <2>2, <2>3, <2>4, RequestsStay DEF Session, Session1, Known
<1>4. CASE /\ sess' = [sess EXCEPT ![u] = Ended(sess[u], "COMPLETE")]
           /\ Then(u, "paths", "xfer")
           /\ \E ok \in BOOLEAN : /\ persistRecord(u, Ended(sess[u], "COMPLETE"), ok)
                                  /\ At(u, IF ok THEN "done" ELSE "left")
  <2> DEFINE r == Ended(sess[u], "COMPLETE")
  <2>1. r \in Record /\ Same(r, sess[u]) /\ r.state = "COMPLETE" /\ r.committed = sess[u].committed
    BY <1>1, EndedRecord DEF TerminalStates
  <2>2. PICK ok \in BOOLEAN : persistRecord(u, r, ok) /\ At(u, IF ok THEN "done" ELSE "left")
    BY <1>4
  <2>3. sess' = [sess EXCEPT ![u] = r]
    BY <1>4
  <2> HIDE DEF r
  <2>4. /\ disk' \in [Upload -> Record \cup {None}] /\ \A v \in Upload \ {u} : disk'[v] = disk[v]
        /\ disk'[u] \in {disk[u], r}
    BY <1>1, <2>1, <2>2, Persisted
  <2>5. /\ sess' \in [Upload -> Record \cup {None}] /\ \A v \in Upload \ {u} : sess'[v] = sess[v]
        /\ sess'[u] = r
    BY <1>1, <2>1, <2>3 DEF Types
  <2>6. /\ pend' \in [Upload -> [step : {"none", "temp", "paths", "purge", "forget"}, by : Caller \cup {"none", "xfer"}]]
        /\ \A v \in Upload \ {u} : pend'[v] = pend[v]
        /\ pend'[u].step = "paths"
    BY <1>1, <1>4, ThenFacts
  <2>7. PICK at \in {"done", "left"} : At(u, at)
    BY <2>2
  <2>8. /\ xfer' \in [Upload -> [at : XferAt, accepted : Nat, mark : Nat]]
        /\ \A v \in Upload \ {u} : xfer'[v] = xfer[v]
        /\ xfer'[u].at \in {"done", "left"}
    BY <1>1, <2>7, AtFacts DEF XferAt
  <2>9. Frame(u)
    BY <1>1, <1>2, <2>4, <2>5, <2>6, <2>8 DEF Frame, Types
  <2>10. sess'[u] # None /\ sess'[u] \in Record /\ Same(sess'[u], sess[u])
    BY <2>1, <2>5, RecordAssumption
  <2>11. Kept(u) /\ Drawn(u)' /\ Records(u)'
    BY <1>1, <1>2, <2>1, <2>4, <2>10, KnownStays
  <2>12. Transfers(u)'
    BY <1>1, <1>2, <2>1, <2>5, <2>6, <2>8, <2>10 DEF Transfers, Known, isOpenUploadState, OpenStates
  <2>13. Places(u)'
    <3>1. <<u, r.target, r.content>> \in published'
      BY <1>1, <1>2, <2>1 DEF Published, Same
    <3> QED BY <1>0, <1>1, <1>2, <2>1, <2>4, <2>5, <3>1 DEF Session, Places, Published, Known, EverPublished
  <2>14. Offsets(u)'
    BY <1>1, <1>2, <2>1, <2>4, <2>5, <2>8 DEF Session, Offsets, Known
  <2> QED BY <1>2, <2>9, <2>10, <2>11, <2>12, <2>13, <2>14, RequestsStay DEF Session, Session1
<1> QED BY <1>3, <1>4 DEF Complete

-----------------------------------------------------------------------------
(* The session calls. *)

(* A step about no session: any of them stands for it. *)
LEMMA NoStep ==
    ASSUME IInv, NEW u \in Upload,
           UNCHANGED <<sess, disk, temp, xfer, pend, acked, published, phase, exclusive, source, requests>>,
           file' \in [Target -> {"none", "torn"} \cup Content \cup Foreign],
           phase \in {"down", "loading"} => UNCHANGED <<file, todo>>,
           todo' \in [Caller -> SUBSET Upload]
    PROVE  Frame(u) /\ Kept(u) /\ RequestsFollow(u) /\ Session(u)'
PROOF
<1>0. Types /\ Session(u)
  BY DEF IInv
<1>1. Frame(u)
  BY <1>0 DEF Frame, Types
<1>2. Kept(u)
  BY DEF Kept, Same
<1>3. RequestsFollow(u)
  <2>1. \A q \in 1..MaxRequests : requests[q] = u => sess[u] # None
    BY UploadAssumption DEF IInv, Peer, Requests, Known
  <2> QED BY <1>0, <2>1 DEF RequestsFollow, Types
<1>4. Drawn(u)' /\ Records(u)' /\ Transfers(u)' /\ Offsets(u)'
  BY <1>0 DEF Session, Drawn, Records, Transfers, Offsets, Known, EverPublished, whole
<1>5. Places(u)'
  BY <1>0 DEF Session, Places, Known, EverPublished, Published
<1> QED BY <1>1, <1>2, <1>3, <1>4, <1>5 DEF Session

(* What a call holds is what the client asked, of the session of its request. *)
LEMMA CallFacts ==
    ASSUME IInv, call.op # "none"
    PROVE  /\ Types /\ phase = "serving" /\ client.at = "wait"
           /\ client.target \in Target /\ local[client.target] \in LocalRecord
           /\ call.target = client.target /\ call.request = local[client.target].request
           /\ call.content = local[client.target].content
           /\ call.target \in Target /\ call.request \in 1..MaxRequests /\ call.content \in Content
           /\ \A u \in Upload : Known(u) /\ sess[u].request = call.request =>
                 sess[u].target = call.target /\ sess[u].content = call.content
           /\ call.op \in {"get", "abort"} =>
                 call.upload \in Upload /\ Owns(call.upload, call.request)
PROOF
<1>1. /\ Types /\ phase = "serving" /\ client.at = "wait"
      /\ call.target = client.target /\ call.request = local[client.target].request
      /\ call.content = local[client.target].content
      /\ call.op \in {"get", "abort"} =>
            call.upload \in Upload /\ call.upload = local[client.target].upload
  BY DEF IInv, Peer, Calls
<1>2. client.target \in Target /\ local[client.target] # None
  BY <1>1 DEF IInv, Peer, Clients
<1>3. local[client.target] \in LocalRecord
  BY <1>1, <1>2 DEF Types
<1>4. call.target \in Target /\ call.request \in 1..MaxRequests /\ call.content \in Content
  BY <1>1, <1>2, <1>3 DEF LocalRecord
<1>5. /\ \A u \in Upload : Asked(call.request, call.target, call.content, u)
      /\ local[client.target].upload # None => Owns(local[client.target].upload, call.request)
  BY <1>1, <1>2 DEF IInv, Peer, Locals
<1>6. \A u \in Upload : Known(u) /\ sess[u].request = call.request =>
                 sess[u].target = call.target /\ sess[u].content = call.content
  BY <1>5 DEF Asked
<1>7. call.op \in {"get", "abort"} => Owns(call.upload, call.request)
  BY <1>1, <1>5, UploadAssumption
<1> QED BY <1>1, <1>2, <1>3, <1>4, <1>6, <1>7

LEMMA OwnedBy ==
    ASSUME IInv, NEW u \in Upload, Known(u)
    PROVE  Owns(u, sess[u].request)
  BY DEF IInv, Session, Drawn, Records, Owns, Known, Same

LEMMA AnswerStep ==
    ASSUME IInv, NEW u \in Upload, Frame(u), Kept(u), RequestsFollow(u), Session(u)',
           UNCHANGED Others, call.op # "none", NEW a \in Answers, Answered(a),
           a.code = "ok" => /\ a.upload \in Upload /\ Owns(a.upload, call.request)
                            /\ a.state = "COMPLETE" => <<a.upload, call.target, call.content>> \in published'
    PROVE  IInv'
PROOF
<1>0. Types /\ phase = "serving" /\ phase' = phase /\ client' = client /\ local' = local
  BY CallFacts DEF Others, Frame
<1>1. /\ call' \in CallRecord /\ call'.op = call.op /\ call'.target = call.target /\ call'.upload = call.upload
      /\ call'.request = call.request /\ call'.content = call.content /\ call'.answer = a
  <2>1. call \in CallRecord
    BY <1>0 DEF Types
  <2> QED BY <2>1 DEF Answered, CallRecord
<1>2. a.code = "ok" => Owns(a.upload, call.request)'
  <2>1. call.request' = call.request
    BY <1>1
  <2> QED BY <2>1, OwnsStays DEF Owns, Known
<1>3. Calls'
  <2>1. Calls
    BY DEF IInv, Peer
  <2> QED BY <1>0, <1>1, <1>2, <2>1 DEF Calls
<1> QED BY <1>1, <1>3, OneSession DEF Others

LEMMA CreateAgainStep ==
    ASSUME IInv, CreateAgain
    PROVE  IInv'
PROOF
<1>0. call.op # "none" /\ phase = "serving" /\ requests[call.request] # None
  BY DEF CreateAgain, MayAct, Serving
<1>1. Types /\ call.request \in 1..MaxRequests
  BY <1>0, CallFacts
<1>2. PICK u \in Upload : u = requests[call.request] /\ Known(u) /\ sess[u].request = call.request
  BY <1>0, <1>1 DEF IInv, Peer, Requests, Types
<1>3. UNCHANGED <<phase, file, xfer, acked, requests, exclusive, source, Others>>
  BY DEF CreateAgain, Steady, peer, Others
<1>4. todo' \in [Caller -> SUBSET Upload] /\ todo' = todo
  BY <1>1 DEF CreateAgain, Types
<1>5. sess[u].target = call.target /\ sess[u].content = call.content /\ Owns(u, call.request)
      /\ sess[u] \in Record
  BY <1>0, <1>1, <1>2, CallFacts, OwnedBy DEF Types, Known
<1>6. CASE /\ Answered([code |-> "ok", upload |-> u, state |-> sess[u].state])
           /\ UNCHANGED <<sess, disk, temp, pend, published>>
  <2>1. PICK a : a = [code |-> "ok", upload |-> u, state |-> sess[u].state]
    OBVIOUS
  <2>2. a \in Answers /\ a.upload = u /\ a.state = sess[u].state
    BY <1>2, <1>5, <2>1 DEF Answers, Record
  <2>3. sess[u].state = "COMPLETE" => <<u, call.target, call.content>> \in published'
    BY <1>2, <1>5, <1>6 DEF IInv, Session, Places, Published
  <2>4. Frame(u) /\ Kept(u) /\ RequestsFollow(u) /\ Session(u)'
    BY <1>0, <1>1, <1>2, <1>3, <1>4, <1>6, NoStep DEF Types
  <2> QED BY <1>0, <1>2, <1>3, <1>5, <1>6, <2>1, <2>2, <2>3, <2>4, AnswerStep
<1>7. CASE /\ Unresolved(u)
           /\ \E ok \in BOOLEAN :
                /\ Reconcile(u, ok, "call")
                /\ Answered(IF ok THEN [code |-> "ok", upload |-> u,
                                        state |-> reconciled(u).state]
                                  ELSE [code |-> "error"])
  <2>1. PICK ok \in BOOLEAN :
                /\ Reconcile(u, ok, "call")
                /\ Answered(IF ok THEN [code |-> "ok", upload |-> u,
                                        state |-> reconciled(u).state]
                                  ELSE [code |-> "error"])
    BY <1>7
  <2>2. /\ Frame(u) /\ Kept(u) /\ RequestsFollow(u) /\ Session(u)' /\ published' = published
    BY <1>0, <1>2, <1>3, <1>4, <1>7, <2>1, ReconcileStep DEF Caller
  <2>3. /\ reconciled(u).state \in {"COMPLETE", "OPEN", "FAILED"} /\ Published(u, sess[u])
    BY <1>2, <1>7, Reconciled
  <2>4. PICK a : a = IF ok THEN [code |-> "ok", upload |-> u, state |-> reconciled(u).state]
                     ELSE [code |-> "error"]
    OBVIOUS
  <2>5. a \in Answers /\ (a.code = "ok" => a.upload = u) /\ Answered(a)
    BY <1>2, <2>1, <2>3, <2>4 DEF Answers, OpenStates, TerminalStates
  <2>6. <<u, call.target, call.content>> \in published'
    BY <1>5, <2>2, <2>3 DEF Published
  <2> QED BY <1>0, <1>2, <1>3, <1>5, <2>2, <2>5, <2>6, AnswerStep
<1> QED BY <1>2, <1>6, <1>7 DEF CreateAgain

LEMMA GetStep ==
    ASSUME IInv, GetUploadSession
    PROVE  IInv'
PROOF
<1>0. call.op # "none" /\ call.op = "get" /\ phase = "serving"
  BY DEF GetUploadSession, MayAct, Serving
<1>1. Types /\ call.upload \in Upload /\ Owns(call.upload, call.request)
  BY <1>0, CallFacts
<1>2. PICK u \in Upload : u = call.upload /\ Owns(u, call.request)
  BY <1>1
<1>3. UNCHANGED <<phase, file, xfer, acked, requests, exclusive, source, Others>>
  BY DEF GetUploadSession, Steady, peer, Others
<1>4. todo' \in [Caller -> SUBSET Upload] /\ todo' = todo
  BY <1>1 DEF GetUploadSession, Types
<1>5. Known(u) => /\ sess[u].request = call.request /\ sess[u].target = call.target
                  /\ sess[u].content = call.content /\ sess[u] \in Record
  <2>1. Known(u) => sess[u].request = call.request
    BY <1>2 DEF Owns
  <2> QED BY <1>0, <1>1, <2>1, CallFacts DEF Types, Known
<1>6. CASE /\ ~Known(u) /\ Answered([code |-> "NotFound"])
           /\ UNCHANGED <<sess, disk, temp, pend, published>>
  <2>1. PICK a : a = [code |-> "NotFound"]
    OBVIOUS
  <2>2. a \in Answers /\ a.code # "ok"
    BY <2>1 DEF Answers
  <2>4. Frame(u) /\ Kept(u) /\ RequestsFollow(u) /\ Session(u)'
    BY <1>0, <1>1, <1>2, <1>3, <1>4, <1>6, NoStep DEF Types
  <2> QED BY <1>0, <1>1, <1>2, <1>3, <1>6, <2>1, <2>2, <2>4, AnswerStep
<1>7. CASE /\ Known(u) /\ Answered([code |-> "ok", upload |-> u, state |-> sess[u].state])
           /\ UNCHANGED <<sess, disk, temp, pend, published>>
  <2>1. PICK a : a = [code |-> "ok", upload |-> u, state |-> sess[u].state]
    OBVIOUS
  <2>2. a \in Answers /\ a.upload = u /\ a.state = sess[u].state
    BY <1>1, <1>2, <1>5, <1>7, <2>1 DEF Answers, Record
  <2>3. sess[u].state = "COMPLETE" => <<u, call.target, call.content>> \in published'
    BY <1>1, <1>2, <1>5, <1>7 DEF IInv, Session, Places, Published
  <2>4. Frame(u) /\ Kept(u) /\ RequestsFollow(u) /\ Session(u)'
    BY <1>0, <1>1, <1>2, <1>3, <1>4, <1>7, NoStep DEF Types
  <2> QED BY <1>0, <1>1, <1>2, <1>3, <1>7, <2>1, <2>2, <2>3, <2>4, AnswerStep
<1>8. CASE /\ Known(u) /\ Unresolved(u)
           /\ \E ok \in BOOLEAN :
                /\ Reconcile(u, ok, "call")
                /\ Answered(IF ok THEN [code |-> "ok", upload |-> u,
                                        state |-> reconciled(u).state]
                                  ELSE [code |-> "error"])
  <2>1. PICK ok \in BOOLEAN :
                /\ Reconcile(u, ok, "call")
                /\ Answered(IF ok THEN [code |-> "ok", upload |-> u,
                                        state |-> reconciled(u).state]
                                  ELSE [code |-> "error"])
    BY <1>8
  <2>2. /\ Frame(u) /\ Kept(u) /\ RequestsFollow(u) /\ Session(u)' /\ published' = published
    BY <1>0, <1>1, <1>2, <1>3, <1>4, <1>8, <2>1, ReconcileStep DEF Caller
  <2>3. /\ reconciled(u).state \in {"COMPLETE", "OPEN", "FAILED"} /\ Published(u, sess[u])
    BY <1>1, <1>2, <1>8, Reconciled
  <2>4. PICK a : a = IF ok THEN [code |-> "ok", upload |-> u, state |-> reconciled(u).state]
                     ELSE [code |-> "error"]
    OBVIOUS
  <2>5. a \in Answers /\ (a.code = "ok" => a.upload = u) /\ Answered(a)
    BY <1>1, <2>1, <2>3, <2>4 DEF Answers, OpenStates, TerminalStates
  <2>6. <<u, call.target, call.content>> \in published'
    BY <1>5, <1>8, <2>2, <2>3 DEF Published
  <2> QED BY <1>0, <1>1, <1>2, <1>3, <2>2, <2>5, <2>6, AnswerStep
<1> QED BY <1>2, <1>6, <1>7, <1>8 DEF GetUploadSession

LEMMA AbortStep ==
    ASSUME IInv, AbortUploadSession
    PROVE  IInv'
PROOF
<1>0. call.op # "none" /\ call.op = "abort" /\ phase = "serving"
  BY DEF AbortUploadSession, MayAct, Serving
<1>1. Types /\ call.upload \in Upload
  BY <1>0, CallFacts
<1>2. PICK u \in Upload : u = call.upload
  BY <1>1
<1>3. UNCHANGED <<phase, file, xfer, acked, requests, exclusive, source, Others>>
  BY DEF AbortUploadSession, Steady, peer, Others
<1>4. todo' \in [Caller -> SUBSET Upload] /\ todo' = todo
  BY <1>1 DEF AbortUploadSession, Types
<1>5. PICK a : a = [code |-> "ended"]
  OBVIOUS
<1>6. a \in Answers /\ a.code # "ok"
  BY <1>5 DEF Answers
<1>7. CASE Answered([code |-> "ended"]) /\ UNCHANGED <<sess, disk, temp, pend, published>>
  <2>1. Frame(u) /\ Kept(u) /\ RequestsFollow(u) /\ Session(u)'
    BY <1>0, <1>1, <1>3, <1>4, <1>7, NoStep DEF Types
  <2> QED BY <1>0, <1>1, <1>3, <1>5, <1>6, <1>7, <2>1, AnswerStep
<1>8. CASE /\ Known(u) /\ Unresolved(u)
           /\ \E ok \in BOOLEAN :
                /\ Reconcile(u, ok, "call")
                /\ IF ok /\ reconciled(u).state = "OPEN" THEN UNCHANGED call
                   ELSE Answered([code |-> "ended"])
  <2>1. PICK ok \in BOOLEAN :
                /\ Reconcile(u, ok, "call")
                /\ \/ UNCHANGED call
                   \/ Answered([code |-> "ended"])
    BY <1>8
  <2>2. Frame(u) /\ Kept(u) /\ RequestsFollow(u) /\ Session(u)'
    BY <1>0, <1>1, <1>3, <1>4, <1>8, <2>1, ReconcileStep DEF Caller
  <2>3. CASE UNCHANGED call
    <3>1. Session1(u)
      BY <1>3, <2>2, <2>3 DEF Session1
    <3> QED BY <1>1, <3>1, ServerStep
  <2>4. CASE Answered([code |-> "ended"])
    <3> QED BY <1>0, <1>1, <1>3, <1>5, <1>6, <2>2, <2>4, AnswerStep
  <2> QED BY <2>1, <2>3, <2>4
<1>9. CASE /\ Known(u) /\ ~active(u) /\ sess[u].state = "OPEN"
           /\ \E ok \in BOOLEAN :
                /\ Saved(u, Ended(sess[u], "ABORTED"), ok)
                /\ IF ok THEN Then(u, "temp", "call") ELSE UNCHANGED pend
           /\ Answered([code |-> "ended"])
           /\ UNCHANGED <<temp, published>>
  <2>1. PICK ok \in BOOLEAN :
                /\ Saved(u, Ended(sess[u], "ABORTED"), ok)
                /\ IF ok THEN Then(u, "temp", "call") ELSE UNCHANGED pend
    BY <1>9
  <2>2. Frame(u) /\ Kept(u) /\ RequestsFollow(u) /\ Session(u)'
    BY <1>0, <1>1, <1>3, <1>4, <1>9, <2>1, EndStep DEF Caller
  <2> QED BY <1>0, <1>1, <1>3, <1>5, <1>6, <1>9, <2>2, AnswerStep
<1> QED BY <1>2, <1>7, <1>8, <1>9 DEF AbortUploadSession

LEMMA RefusedStep ==
    ASSUME IInv, CreateRefused
    PROVE  IInv'
PROOF
<1>0. call.op # "none" /\ call.op = "create" /\ phase = "serving" /\ Types
  BY DEF CreateRefused, MayAct, Serving, IInv
<1>1. UNCHANGED <<sess, disk, temp, xfer, pend, acked, published, phase, exclusive, source, requests, file,
                  todo, Others>>
  BY DEF CreateRefused, store, files, peer, ghost, Others
<1>2. PICK u \in Upload : TRUE
  BY UploadAssumption
<1>3. PICK a : a = [code |-> "error"]
  OBVIOUS
<1>4. a \in Answers /\ a.code # "ok"
  BY <1>3 DEF Answers
<1>5. Answered(a)
  BY <1>3 DEF CreateRefused
<1>6. Frame(u) /\ Kept(u) /\ RequestsFollow(u) /\ Session(u)'
  BY <1>0, <1>1, NoStep DEF Types
<1> QED BY <1>0, <1>1, <1>4, <1>5, <1>6, AnswerStep

(* A new session, or a record alone when the call failed half way. *)
LEMMA CreateStep ==
    ASSUME IInv, NEW u \in Upload, CreateUploadSession(u)
    PROVE  IInv'
PROOF
<1>0. call.op # "none" /\ call.op = "create" /\ phase = "serving" /\ acked[u] = -1
  BY DEF CreateUploadSession, MayAct, Serving, newUploadID
<1>1. /\ Types /\ client.at = "wait"
      /\ client.target \in Target /\ local[client.target] \in LocalRecord
      /\ call.target = client.target /\ call.request = local[client.target].request
      /\ call.content = local[client.target].content
      /\ call.target \in Target /\ call.request \in 1..MaxRequests /\ call.content \in Content
  BY <1>0, CallFacts
<1>2. /\ sess[u] = None /\ disk[u] = None /\ temp[u] = None /\ pend[u].step = "none" /\ ~EverPublished(u)
      /\ xfer[u].at = "no"
  BY <1>0 DEF IInv, Session, Drawn, Transfers, Known
<1>3. UNCHANGED <<phase, file, xfer, pend, todo, exclusive, source, Others, published>>
  BY DEF CreateUploadSession, peer, Others
<1>4. PICK r : r = [target |-> call.target, request |-> call.request, content |-> call.content,
                    state |-> "OPEN", committed |-> 0, due |-> FALSE]
  OBVIOUS
<1>5. /\ r \in Record /\ r.target = call.target /\ r.request = call.request /\ r.content = call.content
      /\ r.state = "OPEN" /\ r.committed = 0
  BY <1>1, <1>4 DEF Record, OpenStates
<1>6. acked' \in [Upload -> Int] /\ (\A v \in Upload \ {u} : acked'[v] = acked[v]) /\ acked'[u] = 0
  BY <1>1 DEF CreateUploadSession, Types
<1>7. PICK ok \in BOOLEAN :
         /\ persistRecord(u, r, ok)
         /\ IF ok
            THEN /\ sess' = [sess EXCEPT ![u] = r]
                 /\ temp' = [temp EXCEPT ![u] = [len |-> 0, synced |-> 0, good |-> TRUE]]
                 /\ requests' = [requests EXCEPT ![r.request] = u]
                 /\ Answered([code |-> "ok", upload |-> u, state |-> "OPEN"])
            ELSE /\ UNCHANGED <<sess, temp, requests>>
                 /\ Answered([code |-> "error"])
  <2>1. CASE /\ persistRecord(u, r, TRUE)
             /\ sess' = [sess EXCEPT ![u] = r]
             /\ temp' = [temp EXCEPT ![u] = [len |-> 0, synced |-> 0, good |-> TRUE]]
             /\ requests' = [requests EXCEPT ![r.request] = u]
             /\ Answered([code |-> "ok", upload |-> u, state |-> "OPEN"])
    BY <2>1
  <2>2. CASE persistRecord(u, r, FALSE) /\ Answered([code |-> "error"]) /\ UNCHANGED <<store, temp>>
    BY <2>2 DEF store
  <2> QED BY <1>4, <2>1, <2>2 DEF CreateUploadSession
<1>8. /\ disk' \in [Upload -> Record \cup {None}] /\ \A v \in Upload \ {u} : disk'[v] = disk[v]
      /\ disk'[u] \in {None, r}
  BY <1>1, <1>2, <1>5, <1>7, Persisted
<1>9. /\ sess' \in [Upload -> Record \cup {None}] /\ \A v \in Upload \ {u} : sess'[v] = sess[v]
      /\ sess'[u] = IF ok THEN r ELSE None
  BY <1>1, <1>2, <1>5, <1>7 DEF Types
<1>10. /\ temp' \in [Upload -> Staged \cup {None}] /\ \A v \in Upload \ {u} : temp'[v] = temp[v]
       /\ temp'[u] # None => temp'[u].synced = 0 /\ temp'[u].len = 0
  <2>1. CASE ok
    <3>1. PICK d : d = [len |-> 0, synced |-> 0, good |-> TRUE]
      OBVIOUS
    <3>2. d \in Staged /\ d.len = 0 /\ d.synced = 0
      BY <3>1 DEF Staged
    <3>3. temp' = [temp EXCEPT ![u] = d]
      BY <1>7, <2>1, <3>1
    <3> QED BY <1>1, <3>2, <3>3 DEF Types
  <2>2. CASE ~ok
    BY <1>1, <1>2, <1>7, <2>2 DEF Types
  <2> QED BY <2>1, <2>2
<1>11. /\ requests' \in [1..MaxRequests -> Upload \cup {None}]
       /\ \A q \in 1..MaxRequests : requests'[q] = requests[q] \/ (q = r.request /\ ok /\ requests'[q] = u)
  BY <1>1, <1>5, <1>7 DEF Types
<1>12. /\ call' \in CallRecord /\ call'.op = call.op /\ call'.target = call.target /\ call'.upload = call.upload
       /\ call'.request = call.request /\ call'.content = call.content
       /\ call'.answer # None /\ call'.answer.code = "ok" => ok /\ call'.answer.upload = u /\ call'.answer.state = "OPEN"
  <2>0. call \in CallRecord
    BY <1>1 DEF Types
  <2>1. CASE ok
    <3>1. PICK a : a = [code |-> "ok", upload |-> u, state |-> "OPEN"]
      OBVIOUS
    <3>2. a \in Answers /\ a.upload = u /\ a.state = "OPEN"
      BY <3>1 DEF Answers, OpenStates
    <3>3. call' = [call EXCEPT !.answer = a]
      BY <1>7, <2>1, <3>1 DEF Answered
    <3> QED BY <2>0, <2>1, <3>2, <3>3 DEF CallRecord
  <2>2. CASE ~ok
    <3>1. PICK a : a = [code |-> "error"]
      OBVIOUS
    <3>2. a \in Answers /\ a.code # "ok"
      BY <3>1 DEF Answers
    <3>3. call' = [call EXCEPT !.answer = a]
      BY <1>7, <2>2, <3>1 DEF Answered
    <3> QED BY <2>0, <3>2, <3>3 DEF CallRecord
  <2> QED BY <2>1, <2>2
<1>13. local' = local /\ client' = client /\ nextReq' = nextReq
  BY <1>3 DEF Others
<1>14. Frame(u)
  BY <1>0, <1>1, <1>3, <1>6, <1>8, <1>9, <1>10 DEF Frame, Types
<1>15. Types'
  BY <1>11, <1>12, <1>13, <1>14, FrameTypes
<1>16. Session(u)'
  <2>1. Drawn(u)' /\ Records(u)'
    BY <1>2, <1>3, <1>5, <1>6, <1>8, <1>9 DEF Drawn, Records, Known, Same, EverPublished
  <2>2. Transfers(u)'
    BY <1>0, <1>2, <1>3 DEF Transfers, Known
  <2>3. Places(u)'
    BY <1>0, <1>2, <1>3, <1>5, <1>8, <1>9 DEF Places, Known, Published, EverPublished
  <2>4. Offsets(u)'
    BY <1>2, <1>3, <1>5, <1>6, <1>8, <1>9, <1>10 DEF Offsets, Known
  <2> QED BY <2>1, <2>2, <2>3, <2>4 DEF Session
<1>17. Requests /\ Locals /\ Clients /\ Calls
  BY DEF IInv, Peer
<1>18. Requests'
  <2>1. ASSUME NEW q \in 1..MaxRequests, requests'[q] # None
        PROVE  sess'[requests'[q]] # None /\ sess'[requests'[q]].request = q
    <3>1. CASE q = r.request /\ ok /\ requests'[q] = u
      BY <1>5, <1>9, <3>1, RecordAssumption
    <3>2. CASE requests'[q] = requests[q]
      <4>1. requests[q] \in Upload /\ sess[requests[q]] # None /\ sess[requests[q]].request = q
        BY <1>1, <1>17, <2>1, <3>2 DEF Requests, Types, Known
      <4> QED BY <1>2, <1>9, <3>2, <4>1
    <3> QED BY <1>11, <3>1, <3>2
  <2>2. r.request < nextReq
    BY <1>1, <1>5, <1>17, RecordAssumption DEF Requests
  <2>3. \A v \in Upload : /\ sess'[v] # None => sess'[v].request < nextReq
                          /\ disk'[v] # None => disk'[v].request < nextReq
    BY <1>8, <1>9, <1>17, <2>2 DEF Requests, Known
  <2> QED BY <1>13, <1>17, <2>1, <2>3 DEF Requests, Known
<1>19. Locals'
  <2> SUFFICES ASSUME NEW t \in Target, local[t] # None
      PROVE /\ \A v \in Upload : Asked(local[t].request, t, local[t].content, v)'
            /\ local[t].upload # None => Owns(local[t].upload, local[t].request)'
    BY <1>13 DEF Locals
  <2>1. ASSUME NEW v \in Upload PROVE Asked(local[t].request, t, local[t].content, v)'
    <3>1. CASE v # u
      BY <1>8, <1>9, <1>13, <1>17, <3>1 DEF Locals, Asked, Known
    <3>2. CASE v = u
      <4>1. r.request = local[t].request => t = client.target
        BY <1>1, <1>5, <1>17, RecordAssumption DEF Requests
      <4> QED BY <1>1, <1>5, <1>8, <1>9, <1>13, <3>2, <4>1 DEF Asked, Known
    <3> QED BY <3>1, <3>2
  <2>2. ASSUME local[t].upload # None PROVE Owns(local[t].upload, local[t].request)'
    <3>1. local[t].upload \in Upload /\ Owns(local[t].upload, local[t].request)
      BY <1>1, <1>17, <2>2 DEF Locals, Types, LocalRecord
    <3>2. local[t].upload # u
      BY <1>0, <3>1 DEF Owns
    <3> QED BY <1>6, <1>8, <1>9, <1>13, <3>1, <3>2 DEF Owns, Known
  <2> QED BY <2>1, <2>2
<1>20. Clients'
  BY <1>13, <1>17 DEF Clients
<1>21. Calls'
  <2>1. ok => Owns(u, call.request)'
    BY <1>5, <1>6, <1>8, <1>9, <1>12 DEF Owns, Known
  <2>2. call'.answer # None /\ call'.answer.code = "ok" =>
          /\ call'.answer.upload \in Upload /\ Owns(call.answer.upload, call.request)'
          /\ call'.answer.state # "COMPLETE"
    BY <1>12, <2>1
  <2> QED BY <1>0, <1>3, <1>12, <1>13, <1>17, <2>2 DEF Calls
<1>22. \A v \in Upload : Session(v)'
  BY <1>14, <1>16, OtherSessions
<1> QED BY <1>15, <1>18, <1>19, <1>20, <1>21, <1>22 DEF IInv, Peer

-----------------------------------------------------------------------------
(* Crashes, restarts and plain calls. *)

LEMMA NoCallFacts == NoCall \in CallRecord /\ NoCall.op = "none" /\ NoCall.answer = None
  BY DEF NoCall, CallRecord

(* The memory of the controller is gone; the records are of the same uploads. *)
LEMMA PeerWithout ==
    ASSUME IInv, UNCHANGED <<local, client, nextReq, acked>>, call' = NoCall,
           \A v \in Upload : sess'[v] = None,
           \A v \in Upload : disk'[v] # None => disk[v] # None /\ Same(disk'[v], disk[v]),
           requests' = [r \in 1..MaxRequests |-> None]
    PROVE  Peer'
PROOF
<1>0. Types /\ Requests /\ Locals /\ Clients /\ local' = local /\ client' = client /\ nextReq' = nextReq
  BY DEF IInv, Peer
<1>1. Requests'
  BY <1>0 DEF Requests, Known, Same
<1>2. Locals'
  <2> SUFFICES ASSUME NEW t \in Target, local[t] # None
      PROVE /\ \A v \in Upload : Asked(local[t].request, t, local[t].content, v)'
            /\ local[t].upload # None => Owns(local[t].upload, local[t].request)'
    BY <1>0 DEF Locals
  <2>1. ASSUME NEW v \in Upload PROVE Asked(local[t].request, t, local[t].content, v)'
    BY <1>0 DEF Locals, Asked, Known, Same
  <2>2. ASSUME local[t].upload # None PROVE Owns(local[t].upload, local[t].request)'
    <3>1. local[t].upload \in Upload /\ Owns(local[t].upload, local[t].request)
      BY <1>0, <2>2 DEF Locals, Types, LocalRecord
    <3> QED BY <1>0, <3>1 DEF Owns, Known, Same
  <2> QED BY <2>1, <2>2
<1>3. Clients' /\ Calls'
  BY <1>0, NoCallFacts DEF Clients, Calls
<1> QED BY <1>1, <1>2, <1>3 DEF Peer

LEMMA CrashStep ==
    ASSUME IInv, Crash
    PROVE  IInv'
PROOF
<1>0. Types
  BY DEF IInv
<1>1. /\ phase' = "down" /\ sess' = [u \in Upload |-> None] /\ requests' = [r \in 1..MaxRequests |-> None]
      /\ xfer' = [u \in Upload |-> NoXfer] /\ pend' = [u \in Upload |-> NoPend]
      /\ todo' = [a \in Caller |-> {}] /\ call' = NoCall
      /\ UNCHANGED <<disk, file, local, client, nextReq, acked, exclusive, source, published>>
  BY DEF Crash, peer, ghost
<1>2. PICK keep \in [Upload -> 0..Bytes] :
          /\ \A u \in Upload : IF temp[u] = None THEN keep[u] = 0
                               ELSE keep[u] \in temp[u].synced..temp[u].len
          /\ temp' = [u \in Upload |-> IF temp[u] = None THEN None
                                       ELSE [temp[u] EXCEPT !.len = keep[u]]]
  BY DEF Crash
<1>3. ASSUME NEW u \in Upload
      PROVE  /\ temp[u] = None => temp'[u] = None
             /\ temp[u] # None => /\ temp[u] \in Staged /\ temp'[u] \in Staged /\ temp'[u].synced = temp[u].synced
                                  /\ temp'[u].synced <= temp'[u].len
  <2>1. CASE temp[u] = None
    BY <1>2, <2>1
  <2>2. CASE temp[u] # None
    <3>1. temp[u] \in Staged /\ temp[u].synced \in Nat /\ temp[u].len \in Nat
      BY <1>0, <2>2 DEF Types, Staged
    <3>2. keep[u] \in Nat /\ temp[u].synced <= keep[u]
      BY <1>2, <2>2, <3>1, UploadAssumption
    <3>3. PICK k \in Nat : k = keep[u]
      BY <3>2
    <3>4. PICK d : d = [temp[u] EXCEPT !.len = k]
      OBVIOUS
    <3>5. d \in Staged /\ d.len = k /\ d.synced = temp[u].synced
      BY <3>1, <3>4 DEF Staged
    <3>6. temp'[u] = d
      BY <1>2, <2>2, <3>3, <3>4
    <3> QED BY <2>2, <3>1, <3>2, <3>3, <3>5, <3>6
  <2> QED BY <2>1, <2>2
<1>4. temp' \in [Upload -> Staged \cup {None}]
  <2>1. temp' = [u \in Upload |-> temp'[u]]
    BY <1>2
  <2>2. \A u \in Upload : temp'[u] \in Staged \cup {None}
    BY <1>3
  <2> HIDE <1>2
  <2> QED BY <2>1, <2>2
<1>5. Types'
  <2>1. /\ xfer' \in [Upload -> [at : XferAt, accepted : Nat, mark : Nat]]
        /\ pend' \in [Upload -> [step : {"none", "temp", "paths", "purge", "forget"}, by : Caller \cup {"none", "xfer"}]]
    BY <1>1 DEF NoXfer, NoPend, XferAt
  <2>2. /\ sess' \in [Upload -> Record \cup {None}] /\ requests' \in [1..MaxRequests -> Upload \cup {None}]
        /\ todo' \in [Caller -> SUBSET Upload]
    BY <1>1
  <2>3. call' \in CallRecord
    BY <1>1, NoCallFacts
  <2> QED BY <1>0, <1>1, <1>4, <2>1, <2>2, <2>3 DEF Types
<1>6. ASSUME NEW u \in Upload PROVE Session(u)'
  <2>0. Session(u)
    BY DEF IInv
  <2>1. sess'[u] = None /\ xfer'[u].at = "no" /\ pend'[u].step = "none" /\ disk'[u] = disk[u] /\ acked'[u] = acked[u]
    BY <1>1 DEF NoXfer, NoPend
  <2>2. Drawn(u)' /\ Records(u)'
    BY <1>1, <1>3, <2>0, <2>1 DEF Session, Drawn, Records, Known, EverPublished
  <2>3. Transfers(u)'
    BY <2>1 DEF Transfers, Known
  <2>4. Places(u)'
    BY <1>1, <1>3, <2>0, <2>1 DEF Session, Places, Known, Published, EverPublished
  <2>5. Offsets(u)'
    BY <1>1, <1>3, <2>0, <2>1 DEF Session, Offsets, Known
  <2> QED BY <2>2, <2>3, <2>4, <2>5 DEF Session
<1>7. Peer'
  BY <1>1, PeerWithout DEF Same
<1> QED BY <1>5, <1>6, <1>7 DEF IInv

LEMMA RestartStep ==
    ASSUME IInv, Restart
    PROVE  IInv'
PROOF
<1>0. Types /\ phase = "down" /\ phase' = "loading"
  BY DEF IInv, Restart
<1>1. /\ UNCHANGED <<sess, requests, disk, temp, file, xfer, pend, call, local, client, nextReq, acked,
                     exclusive, source, published>>
  BY DEF Restart, store, files, peer, ghost
<1>2. todo' \in [Caller -> SUBSET Upload] /\ todo'["gc"] = {u \in Upload : disk[u] # None}
  BY <1>0 DEF Restart, Types, Caller
<1>3. Types'
  BY <1>0, <1>1, <1>2 DEF Types
<1>4. ASSUME NEW u \in Upload PROVE Session(u)'
  <2>0. Session(u)
    BY DEF IInv
  <2>1. Drawn(u)' /\ Records(u)' /\ Offsets(u)'
    BY <1>1, <2>0 DEF Session, Drawn, Records, Offsets, Known, EverPublished
  <2>2. Transfers(u)'
    BY <1>0, <1>1, <2>0 DEF Session, Transfers, Known, whole
  <2>3. Places(u)'
    BY <1>0, <1>1, <1>2, <2>0 DEF Session, Places, Transfers, Known, Published, EverPublished
  <2> QED BY <2>1, <2>2, <2>3 DEF Session
<1>5. Peer'
  <2>1. Requests /\ Locals /\ Clients /\ Calls
    BY DEF IInv, Peer
  <2>2. Requests' /\ Locals' /\ Clients'
    BY <1>1, <2>1 DEF Requests, Locals, Clients, Known, Asked, Owns
  <2>3. Calls'
    BY <1>0, <1>1, <2>1 DEF Calls
  <2> QED BY <2>2, <2>3 DEF Peer
<1> QED BY <1>3, <1>4, <1>5 DEF IInv

LEMMA LoadedStep ==
    ASSUME IInv, Loaded
    PROVE  IInv'
PROOF
<1>0. Types /\ phase \in {"loading", "sweeping"} /\ phase' \in {"sweeping", "serving"} /\ todo["gc"] = {}
  BY DEF IInv, Loaded
<1>1. /\ UNCHANGED <<sess, requests, disk, temp, file, xfer, pend, call, local, client, nextReq, acked,
                     exclusive, source, published>>
  BY DEF Loaded, store, files, peer, ghost
<1>2. todo' \in [Caller -> SUBSET Upload]
  BY <1>0 DEF Loaded, Types, Caller
<1>3. Types'
  BY <1>0, <1>1, <1>2 DEF Types
<1>4. ASSUME NEW u \in Upload PROVE Session(u)'
  <2>0. Session(u)
    BY DEF IInv
  <2>1. Drawn(u)' /\ Records(u)' /\ Offsets(u)'
    BY <1>1, <2>0 DEF Session, Drawn, Records, Offsets, Known, EverPublished
  <2>2. Transfers(u)'
    BY <1>0, <1>1, <2>0 DEF Session, Transfers, Known, whole
  <2>3. Places(u)'
    BY <1>0, <1>1, <2>0 DEF Session, Places, Known, Published, EverPublished
  <2> QED BY <2>1, <2>2, <2>3 DEF Session
<1>5. Peer'
  <2>1. Requests /\ Locals /\ Clients /\ Calls
    BY DEF IInv, Peer
  <2>2. Requests' /\ Locals' /\ Clients'
    BY <1>1, <2>1 DEF Requests, Locals, Clients, Known, Asked, Owns
  <2>3. Calls'
    BY <1>0, <1>1, <2>1 DEF Calls
  <2> QED BY <2>2, <2>3 DEF Peer
<1> QED BY <1>3, <1>4, <1>5 DEF IInv

LEMMA RecoveredFacts ==
    ASSUME IInv, NEW u \in Upload, disk[u] # None
    PROVE  /\ recovered(u) \in Record /\ Same(recovered(u), disk[u])
           /\ recovered(u).committed = disk[u].committed
           /\ recovered(u).state # "FINALIZING"
           /\ recovered(u).state = "OPEN" => temp[u] # None /\ temp[u].len >= disk[u].committed
           /\ recovered(u).state = "COMPLETE" =>
                 \/ disk[u].state = "COMPLETE"
                 \/ file[disk[u].target] = disk[u].content
           /\ disk[u].state = "COMPLETE" => recovered(u).state = "COMPLETE"
PROOF
<1>0. disk[u] \in Record
  BY DEF IInv, Types
<1>1. /\ "COMPLETE" \in OpenStates \cup TerminalStates /\ "FAILED" \in OpenStates \cup TerminalStates
      /\ "OPEN" \in OpenStates \cup TerminalStates
  BY DEF OpenStates, TerminalStates
<1>2. CASE ~isOpenUploadState(disk[u])
  BY <1>0, <1>2 DEF recovered, isOpenUploadState, OpenStates, Same
<1>3. CASE /\ isOpenUploadState(disk[u]) /\ disk[u].state = "FINALIZING" /\ verifyPublishedUpload(disk[u])
           /\ (temp[u] = None \/ temp[u].len >= disk[u].committed)
  <2>1. recovered(u) = Ended(disk[u], "COMPLETE")
    BY <1>3 DEF recovered
  <2> QED BY <1>0, <1>1, <1>3, <2>1, EndedRecord DEF verifyPublishedUpload
<1>4. CASE /\ isOpenUploadState(disk[u])
           /\ ~(disk[u].state = "FINALIZING" /\ verifyPublishedUpload(disk[u])
                /\ (temp[u] = None \/ temp[u].len >= disk[u].committed))
           /\ temp[u] = None \/ temp[u].len < disk[u].committed
  <2>1. recovered(u) = Ended(disk[u], "FAILED")
    BY <1>4 DEF recovered
  <2>2. /\ Ended(disk[u], "FAILED") \in Record /\ Same(Ended(disk[u], "FAILED"), disk[u])
        /\ Ended(disk[u], "FAILED").state = "FAILED"
        /\ Ended(disk[u], "FAILED").committed = disk[u].committed
    BY <1>0, <1>1, EndedRecord
  <2>3. disk[u].state \in {"OPEN", "FINALIZING"}
    BY <1>4 DEF isOpenUploadState, OpenStates
  <2> QED BY <2>1, <2>2, <2>3
<1>5. CASE /\ isOpenUploadState(disk[u])
           /\ ~(disk[u].state = "FINALIZING" /\ verifyPublishedUpload(disk[u])
                /\ (temp[u] = None \/ temp[u].len >= disk[u].committed))
           /\ ~(temp[u] = None \/ temp[u].len < disk[u].committed)
  <2>1. PICK r : r = [disk[u] EXCEPT !.state = "OPEN"]
    OBVIOUS
  <2>2. recovered(u) = r
    BY <1>5, <2>1 DEF recovered
  <2>3. r \in Record /\ Same(r, disk[u]) /\ r.state = "OPEN" /\ r.committed = disk[u].committed
    BY <1>0, <1>1, <2>1 DEF Record, Same
  <2>4. temp[u] # None /\ temp[u].len >= disk[u].committed
    <3>1. temp[u] # None /\ ~(temp[u].len < disk[u].committed)
      BY <1>5
    <3>2. temp[u].len \in Nat /\ disk[u].committed \in Nat
      BY <1>0, <3>1 DEF IInv, Types, Staged, Record
    <3> QED BY <3>1, <3>2
  <2> QED BY <1>5, <2>2, <2>3, <2>4 DEF isOpenUploadState, OpenStates
<1> QED BY <1>2, <1>3, <1>4, <1>5

LEMMA TruncatedFacts ==
    ASSUME Types, NEW u \in Upload, temp[u] # None, NEW n \in Nat, temp' = Truncated(u, n)
    PROVE  /\ temp' \in [Upload -> Staged \cup {None}] /\ \A v \in Upload \ {u} : temp'[v] = temp[v]
           /\ temp'[u] \in Staged /\ temp'[u] # None /\ temp'[u].len = n
           /\ temp'[u].synced = IF temp[u].synced < n THEN temp[u].synced ELSE n
           /\ temp'[u].synced <= n
PROOF
<1>1. temp[u] \in Staged /\ temp[u].synced \in Nat
  BY DEF Types, Staged
<1>2. PICK m \in Nat : m = IF temp[u].synced < n THEN temp[u].synced ELSE n
  BY <1>1
<1>3. PICK d : d = [temp[u] EXCEPT !.len = n, !.synced = m]
  OBVIOUS
<1>4. d \in Staged /\ d.len = n /\ d.synced = m
  BY <1>1, <1>3 DEF Staged
<1>5. temp' = [temp EXCEPT ![u] = d]
  BY <1>2, <1>3 DEF Truncated
<1> QED BY <1>1, <1>2, <1>4, <1>5, RecordAssumption DEF Types

LEMMA LoadStep ==
    ASSUME IInv, NEW u \in Upload, LoadSession(u)
    PROVE  IInv'
PROOF
<1> DEFINE r == recovered(u)
<1>0. Types /\ Session(u) /\ phase = "loading" /\ u \in todo["gc"] /\ disk[u] # None /\ disk[u] \in Record
  BY DEF IInv, LoadSession, Session, Places, Types
<1>1. /\ r \in Record /\ Same(r, disk[u]) /\ r.committed = disk[u].committed
      /\ r.state # "FINALIZING"
      /\ r.state = "OPEN" => temp[u] # None /\ temp[u].len >= disk[u].committed
      /\ r.state = "COMPLETE" => disk[u].state = "COMPLETE" \/ file[disk[u].target] = disk[u].content
      /\ disk[u].state = "COMPLETE" => r.state = "COMPLETE"
  BY <1>0, RecoveredFacts
<1>2. acked[u] # -1 /\ acked[u] \in Int /\ xfer[u].at = "no" /\ pend[u].step = "none" /\ r.committed \in Nat
  BY <1>0, <1>1 DEF Session, Drawn, Transfers, Types, Record
<1>3. UNCHANGED <<file, xfer, pend, call, local, client, nextReq, acked, exclusive, source>>
  BY DEF LoadSession, peer
<1>4. temp' = IF isOpenUploadState(r) THEN Truncated(u, r.committed)
              ELSE IF r.state \in {"COMPLETE"} \/ ~isOpenUploadState(disk[u])
                   THEN [temp EXCEPT ![u] = None] ELSE temp
  BY DEF LoadSession
<1>5. \/ /\ IF r = disk[u] THEN UNCHANGED <<disk, troubles>> ELSE persistRecord(u, r, TRUE)
         /\ sess' = [sess EXCEPT ![u] = r]
         /\ requests' = [requests EXCEPT ![r.request] = u]
         /\ Placed(u, r)
         /\ todo' = [todo EXCEPT !["gc"] = @ \ {u}]
         /\ UNCHANGED phase
      \/ /\ r # disk[u] /\ persistRecord(u, r, FALSE)
         /\ phase' = "down"
         /\ sess' = [v \in Upload |-> None]
         /\ requests' = [q \in 1..MaxRequests |-> None]
         /\ todo' = [todo EXCEPT !["gc"] = {}]
         /\ UNCHANGED published
  BY DEF LoadSession
<1> HIDE DEF r
<1>6. isOpenUploadState(r) <=> r.state = "OPEN"
  BY <1>1 DEF isOpenUploadState, OpenStates
<1>7. /\ temp' \in [Upload -> Staged \cup {None}] /\ \A v \in Upload \ {u} : temp'[v] = temp[v]
      /\ r.state = "COMPLETE" => temp'[u] = None
      /\ temp[u] = None => temp'[u] = None
      /\ temp'[u] # None => acked'[u] <= temp'[u].synced /\ temp'[u].synced <= temp'[u].len
  <2>1. CASE r.state = "OPEN"
    <3>1. /\ temp[u] # None /\ acked[u] <= temp[u].synced /\ acked[u] <= r.committed /\ temp[u].synced \in Nat
      BY <1>0, <1>1, <2>1 DEF Session, Offsets, Types, Staged
    <3>2. temp' = Truncated(u, r.committed)
      BY <1>4, <1>6, <2>1
    <3> QED BY <1>0, <1>2, <1>3, <2>1, <3>1, <3>2, TruncatedFacts
  <2>2. CASE r.state # "OPEN"
    <3>1. /\ temp' = temp \/ temp' = [temp EXCEPT ![u] = None]
          /\ r.state = "COMPLETE" => temp' = [temp EXCEPT ![u] = None]
      BY <1>4, <1>6, <2>2
    <3>2. /\ temp' \in [Upload -> Staged \cup {None}] /\ \A v \in Upload \ {u} : temp'[v] = temp[v]
          /\ temp'[u] \in {temp[u], None} /\ (r.state = "COMPLETE" => temp'[u] = None)
      BY <1>0, <3>1 DEF Types
    <3> QED BY <1>0, <1>3, <3>2 DEF Session, Offsets
  <2> QED BY <2>1, <2>2
<1>8. CASE /\ IF r = disk[u] THEN UNCHANGED <<disk, troubles>> ELSE persistRecord(u, r, TRUE)
           /\ sess' = [sess EXCEPT ![u] = r]
           /\ requests' = [requests EXCEPT ![r.request] = u]
           /\ Placed(u, r)
           /\ todo' = [todo EXCEPT !["gc"] = @ \ {u}]
           /\ UNCHANGED phase
  <2>1. /\ disk' \in [Upload -> Record \cup {None}] /\ \A v \in Upload \ {u} : disk'[v] = disk[v]
        /\ disk'[u] = r
    <3>1. CASE r = disk[u]
      BY <1>0, <1>8, <3>1 DEF Types
    <3>2. CASE r # disk[u]
      <4>1. PICK ok \in BOOLEAN : ok /\ persistRecord(u, r, ok)
        BY <1>8, <3>2
      <4> QED BY <1>0, <1>1, <4>1, Persisted
    <3> QED BY <3>1, <3>2
  <2>2. /\ sess' \in [Upload -> Record \cup {None}] /\ \A v \in Upload \ {u} : sess'[v] = sess[v]
        /\ sess'[u] = r /\ r # None
    BY <1>0, <1>1, <1>8, RecordAssumption DEF Types
  <2>3. r.target \in Target /\ r.content \in Content /\ r.request \in 1..MaxRequests
    BY <1>1 DEF Record
  <2>4. /\ \A p \in published' \ published : p = <<u, r.target, r.content>>
        /\ published \subseteq published'
        /\ r.state = "COMPLETE" => <<u, r.target, r.content>> \in published'
        /\ r.state # "COMPLETE" => published' = published
    <3>1. CASE r.state = "COMPLETE" /\ \A p \in published : p[1] # u
      BY <1>8, <3>1 DEF Placed
    <3>2. CASE ~(r.state = "COMPLETE" /\ \A p \in published : p[1] # u)
      <4>1. published' = published
        BY <1>8, <3>2 DEF Placed
      <4>2. ASSUME r.state = "COMPLETE" PROVE <<u, r.target, r.content>> \in published
        <5>1. PICK p \in published : p[1] = u
          BY <3>2, <4>2
        <5>2. p[2] = r.target /\ p[3] = r.content
          BY <1>0, <1>1, <5>1 DEF Session, Records, Same
        <5>3. p \in Upload \X Target \X Content
          BY <1>0 DEF Types
        <5> QED BY <5>1, <5>2, <5>3
      <4> QED BY <4>1, <4>2
    <3> QED BY <3>1, <3>2
  <2>5. todo' \in [Caller -> SUBSET Upload] /\ todo'["gc"] = todo["gc"] \ {u}
    BY <1>0, <1>8 DEF Types, Caller
  <2>6. Frame(u)
    <3>1. \A p \in published' \ published : p[1] = u /\ p \in Upload \X Target \X Content
      BY <2>3, <2>4
    <3> QED BY <1>0, <1>3, <1>7, <1>8, <2>1, <2>2, <2>4, <2>5, <3>1 DEF Frame, Types
  <2>7. Kept(u)
    BY <1>0, <1>1, <1>2, <1>3, <2>1, <2>2 DEF Kept
  <2>8. RequestsFollow(u)
    BY <1>0, <1>8, <2>2, <2>3 DEF RequestsFollow, Types
  <2>9. Drawn(u)'
    BY <1>2, <1>3 DEF Drawn
  <2>10. Records(u)'
    <3>1. \A p \in published' : p[1] = u => p[2] = r.target /\ p[3] = r.content
      BY <1>0, <1>1, <2>4 DEF Session, Records, Same
    <3> QED BY <2>1, <2>2, <3>1 DEF Records, Same
  <2>11. Transfers(u)'
    BY <1>0, <1>2, <1>3, <1>8 DEF Transfers, Known
  <2>12. Places(u)'
    <3>1. ~exclusive /\ EverPublished(u)' => temp'[u] = None
      BY <1>0, <1>7, <2>4 DEF Session, Places, EverPublished
    <3> QED BY <1>1, <1>3, <2>1, <2>2, <2>4, <2>5, <3>1 DEF Places, Published, Known
  <2>13. Offsets(u)'
    <3>1. acked[u] <= r.committed
      BY <1>0, <1>1 DEF Session, Offsets
    <3> QED BY <1>2, <1>3, <1>7, <2>1, <2>2, <3>1 DEF Offsets, Known
  <2>14. Session1(u)
    BY <1>3, <2>6, <2>7, <2>8, <2>9, <2>10, <2>11, <2>12, <2>13 DEF Session1, Session, Others
  <2> QED BY <2>14, ServerStep
<1>9. CASE /\ persistRecord(u, r, FALSE)
           /\ phase' = "down"
           /\ sess' = [v \in Upload |-> None]
           /\ requests' = [q \in 1..MaxRequests |-> None]
           /\ todo' = [todo EXCEPT !["gc"] = {}]
           /\ UNCHANGED published
  <2>1. /\ disk' \in [Upload -> Record \cup {None}] /\ \A v \in Upload \ {u} : disk'[v] = disk[v]
        /\ disk'[u] \in {disk[u], r}
    <3>1. PICK ok \in BOOLEAN : persistRecord(u, r, ok)
      BY <1>9
    <3> QED BY <1>0, <1>1, <3>1, Persisted
  <2>2. sess' \in [Upload -> Record \cup {None}] /\ \A v \in Upload : sess'[v] = None
    BY <1>9
  <2>3. requests' \in [1..MaxRequests -> Upload \cup {None}]
    BY <1>9
  <2>4. todo' \in [Caller -> SUBSET Upload]
    BY <1>0, <1>9 DEF Types, Caller
  <2>5. Types'
    BY <1>0, <1>3, <1>7, <1>9, <2>1, <2>2, <2>3, <2>4 DEF Types
  <2>6. ASSUME NEW v \in Upload, v # u PROVE Session(v)'
    <3>0. Session(v)
      BY DEF IInv
    <3>1. /\ sess'[v] = None /\ disk'[v] = disk[v] /\ temp'[v] = temp[v] /\ xfer'[v] = xfer[v]
          /\ pend'[v] = pend[v] /\ acked'[v] = acked[v] /\ published' = published /\ exclusive' = exclusive
          /\ file' = file /\ phase' = "down"
      BY <1>3, <1>7, <1>9, <2>1, <2>2, <2>6
    <3>2. Drawn(v)' /\ Records(v)'
      BY <3>0, <3>1 DEF Session, Drawn, Records, Known, EverPublished
    <3>3. Transfers(v)'
      BY <1>0, <3>0, <3>1 DEF Session, Transfers, Known
    <3>4. Places(v)'
      BY <3>0, <3>1 DEF Session, Places, Known, Published, EverPublished
    <3>5. Offsets(v)'
      <4>1. xfer[v].at = "no"
        BY <1>0, <3>0 DEF Session, Transfers
      <4> QED BY <3>0, <3>1, <4>1 DEF Session, Offsets, Known
    <3> QED BY <3>2, <3>3, <3>4, <3>5 DEF Session
  <2>7. Session(u)'
    <3>1. disk'[u] # None => Same(disk'[u], disk[u]) /\ disk'[u].committed = disk[u].committed
      BY <1>1, <2>1 DEF Same
    <3>2. Drawn(u)' /\ Records(u)'
      BY <1>0, <1>2, <1>3, <1>9, <2>2, <3>1 DEF Session, Drawn, Records, Known, Same
    <3>3. Transfers(u)'
      BY <1>2, <1>3, <2>2 DEF Transfers, Known
    <3>4. Places(u)'
      <4>1. /\ disk'[u] # None /\ disk'[u].state = "COMPLETE" =>
               \/ <<u, disk'[u].target, disk'[u].content>> \in published'
               \/ phase' = "down" /\ file'[disk'[u].target] = disk'[u].content
        BY <1>0, <1>1, <1>3, <1>9, <2>1, <3>1 DEF Session, Places, Published, Same
      <4>2. ~exclusive /\ EverPublished(u)' => temp'[u] = None
        BY <1>0, <1>7, <1>9 DEF Session, Places, EverPublished
      <4> QED BY <1>3, <1>9, <2>2, <4>1, <4>2 DEF Places, Known, Published
    <3>5. Offsets(u)'
      BY <1>0, <1>2, <1>3, <1>7, <2>2, <3>1 DEF Session, Offsets, Known
    <3> QED BY <3>2, <3>3, <3>4, <3>5 DEF Session
  <2>8. Peer'
    <3>1. call' = NoCall
      BY <1>0, <1>3 DEF IInv, Peer, Calls
    <3>2. \A v \in Upload : disk'[v] # None => disk[v] # None /\ Same(disk'[v], disk[v])
      BY <1>0, <1>1, <2>1 DEF Same
    <3> QED BY <1>3, <1>9, <2>2, <3>1, <3>2, PeerWithout
  <2> QED BY <2>5, <2>6, <2>7, <2>8 DEF IInv
<1> QED BY <1>5, <1>8, <1>9

LEMMA QuietStep ==
    ASSUME IInv,
           UNCHANGED <<sess, disk, temp, xfer, pend, acked, published, phase, exclusive, source, requests,
                       Others, call>>,
           file' \in [Target -> {"none", "torn"} \cup Content \cup Foreign],
           phase = "serving",
           todo' \in [Caller -> SUBSET Upload]
    PROVE  IInv'
PROOF
<1>1. PICK u \in Upload : TRUE
  BY UploadAssumption
<1>2. Session1(u)
  BY NoStep DEF Session1
<1> QED BY <1>2, ServerStep

LEMMA CollectStep ==
    ASSUME IInv, CollectGarbage
    PROVE  IInv'
PROOF
<1>1. /\ UNCHANGED <<sess, disk, temp, xfer, pend, acked, published, phase, exclusive, source, requests,
                     Others, call, file>>
      /\ phase = "serving"
  BY DEF CollectGarbage, store, files, peer, ghost, Others, Serving
<1>2. /\ todo' \in [Caller -> SUBSET Upload]
      /\ file' \in [Target -> {"none", "torn"} \cup Content \cup Foreign]
  BY <1>1 DEF CollectGarbage, IInv, Types
<1> QED BY <1>1, <1>2, QuietStep

LEMMA PlainStep ==
    ASSUME IInv, Plain
    PROVE  IInv'
PROOF
<1>0. Types
  BY DEF IInv
<1>1. CASE \E path \in Target \cup {"tree"} : PlainChecks(path)
  <2>1. /\ UNCHANGED <<sess, disk, temp, xfer, pend, acked, published, phase, exclusive, source, requests,
                       Others, call, file, todo>>
        /\ phase = "serving"
    BY <1>1 DEF PlainChecks, store, files, calls, peer, ghost, Others, Serving
  <2> QED BY <1>0, <2>1, QuietStep DEF Types
<1>2. ASSUME NEW t \in Target, NEW f \in Foreign,
             PlainChmod(t, f) \/ \E over \in BOOLEAN : PlainWrites(t, f, over)
      PROVE  IInv'
  <2>1. /\ UNCHANGED <<sess, disk, temp, xfer, pend, acked, published, phase, exclusive, source, requests,
                       Others, call, todo>>
        /\ phase = "serving"
    BY <1>2 DEF PlainChmod, PlainWrites, PlainEnds, store, calls, peer, ghost, Others, Serving
  <2>2. file' \in [Target -> {"none", "torn"} \cup Content \cup Foreign]
    <3>1. file' = file \/ file' = [file EXCEPT ![t] = f]
      BY <1>2 DEF PlainChmod, PlainWrites
    <3> QED BY <1>0, <3>1 DEF Types
  <2>3. todo' \in [Caller -> SUBSET Upload]
    BY <1>0, <2>1 DEF Types
  <2> QED BY <2>1, <2>2, <2>3, QuietStep
<1>3. ASSUME NEW t \in Target, PlainRemoves(t)
      PROVE  IInv'
  <2>1. /\ UNCHANGED <<sess, disk, temp, xfer, pend, acked, published, phase, exclusive, source, requests,
                       Others, call, todo>>
        /\ phase = "serving"
    BY <1>3 DEF PlainRemoves, PlainEnds, store, calls, peer, ghost, Others, Serving
  <2>2. file' \in [Target -> {"none", "torn"} \cup Content \cup Foreign]
    BY <1>0, <1>3 DEF PlainRemoves, Types
  <2>3. todo' \in [Caller -> SUBSET Upload]
    BY <1>0, <2>1 DEF Types
  <2> QED BY <2>1, <2>2, <2>3, QuietStep
<1>4. CASE PlainRemovesTree
  <2>1. /\ UNCHANGED <<sess, disk, xfer, pend, acked, published, phase, exclusive, source, requests,
                       call, todo, local, client, nextReq>>
        /\ phase = "serving"
    BY <1>4 DEF PlainRemovesTree, PlainEnds, store, calls, peer, ghost, Serving
  <2>2. file' \in [Target -> {"none", "torn"} \cup Content \cup Foreign]
    BY <1>4 DEF PlainRemovesTree
  <2>3. temp' = [u \in Upload |-> None]
    BY <1>4 DEF PlainRemovesTree
  <2>4. Types'
    BY <1>0, <2>1, <2>2, <2>3 DEF Types
  <2>5. ASSUME NEW u \in Upload PROVE Session(u)'
    <3>0. Session(u) /\ temp'[u] = None
      BY <2>3 DEF IInv
    <3>1. Drawn(u)' /\ Records(u)' /\ Offsets(u)' /\ Transfers(u)'
      BY <2>1, <3>0 DEF Session, Drawn, Records, Offsets, Transfers, Known, EverPublished
    <3>2. Places(u)'
      BY <2>1, <3>0 DEF Session, Places, Known, Published, EverPublished
    <3> QED BY <3>1, <3>2 DEF Session
  <2>6. Peer'
    BY <2>1 DEF IInv, Peer, Requests, Locals, Clients, Calls, Known, Asked, Owns
  <2> QED BY <2>4, <2>5, <2>6 DEF IInv
<1> QED BY <1>1, <1>2, <1>3, <1>4 DEF Plain

-----------------------------------------------------------------------------
(* The client. *)

(* A step of the client leaves the sessions as they are. *)
Settled == UNCHANGED <<sess, disk, acked, requests, published>>

LEMMA LocalsSame ==
    ASSUME IInv, Settled, UNCHANGED <<local, nextReq>>
    PROVE  Requests' /\ Locals'
  BY DEF IInv, Peer, Settled, Requests, Locals, Known, Asked, Owns

(* A state file that is gone, or written anew with a request of its own. *)
LEMMA LocalsRenewed ==
    ASSUME IInv, Settled, NEW t \in Target,
           NEW c \in Content,
           \/ local' = [local EXCEPT ![t] = None] /\ nextReq' = nextReq
           \/ /\ nextReq <= MaxRequests /\ nextReq' = nextReq + 1
              /\ local' = [local EXCEPT ![t] = [request |-> nextReq, upload |-> None, content |-> c]]
    PROVE  /\ Requests' /\ Locals' /\ local' \in [Target -> LocalRecord \cup {None}]
           /\ nextReq' \in Nat /\ nextReq' > 0
           /\ \/ local'[t] = None
              \/ local'[t] # None /\ nextReq' = nextReq + 1
PROOF
<1>0. Types /\ Requests /\ Locals
  BY DEF IInv, Peer
<1>1. CASE local' = [local EXCEPT ![t] = None] /\ nextReq' = nextReq
  <2>1. /\ local' \in [Target -> LocalRecord \cup {None}] /\ local'[t] = None
        /\ \A s \in Target \ {t} : local'[s] = local[s]
    BY <1>0, <1>1 DEF Types
  <2>2. Requests'
    BY <1>0, <1>1, <2>1 DEF Requests, Settled, Known
  <2>3. Locals'
    BY <1>0, <1>1, <2>1 DEF Locals, Settled, Known, Asked, Owns
  <2> QED BY <1>0, <1>1, <2>1, <2>2, <2>3 DEF Types
<1>2. CASE /\ nextReq <= MaxRequests /\ nextReq' = nextReq + 1
           /\ local' = [local EXCEPT ![t] = [request |-> nextReq, upload |-> None, content |-> c]]
  <2>1. PICK l : l = [request |-> nextReq, upload |-> None, content |-> c]
    OBVIOUS
  <2>2. nextReq \in 1..MaxRequests
    BY <1>0, <1>2, UploadAssumption DEF Types
  <2>3. l \in LocalRecord /\ l.request = nextReq /\ l.upload = None /\ l # None
    BY <2>1, <2>2, RecordAssumption DEF LocalRecord
  <2>4. /\ local' \in [Target -> LocalRecord \cup {None}] /\ local'[t] = l
        /\ \A s \in Target \ {t} : local'[s] = local[s]
    BY <1>0, <1>2, <2>1, <2>3 DEF Types
  <2>5. \A s \in Target : local[s] # None => local[s].request \in Nat /\ local[s].request < nextReq
    BY <1>0 DEF Requests, Types, LocalRecord
  <2>6. \A u \in Upload : /\ sess[u] # None => sess[u].request \in Nat /\ sess[u].request < nextReq
                          /\ disk[u] # None => disk[u].request \in Nat /\ disk[u].request < nextReq
    BY <1>0 DEF Requests, Types, Record, Known
  <2>7. Requests'
    <3>1. \A r \in 1..MaxRequests : requests'[r] # None =>
            sess'[requests'[r]] # None /\ sess'[requests'[r]].request = r
      BY <1>0 DEF Requests, Settled, Known
    <3>2. \A u \in Upload : /\ sess'[u] # None => sess'[u].request < nextReq'
                            /\ disk'[u] # None => disk'[u].request < nextReq'
      BY <1>0, <1>2, <2>6 DEF Settled, Types
    <3>3. \A s \in Target : local'[s] # None => local'[s].request < nextReq'
      BY <1>0, <1>2, <2>3, <2>4, <2>5 DEF Types
    <3>4. \A s, z \in Target : local'[s] # None /\ local'[z] # None /\ local'[s].request = local'[z].request => z = s
      BY <1>0, <2>3, <2>4, <2>5 DEF Requests, Types
    <3> QED BY <3>1, <3>2, <3>3, <3>4 DEF Requests, Known, Settled
  <2>8. Locals'
    <3> SUFFICES ASSUME NEW s \in Target, local'[s] # None
        PROVE /\ \A u \in Upload : /\ sess[u] # None /\ sess[u].request = local'[s].request
                                        => sess[u].target = s /\ sess[u].content = local'[s].content
                                   /\ disk[u] # None /\ disk[u].request = local'[s].request
                                        => disk[u].target = s /\ disk[u].content = local'[s].content
              /\ local'[s].upload # None =>
                    /\ acked[local'[s].upload] # -1
                    /\ sess[local'[s].upload] # None => sess[local'[s].upload].request = local'[s].request
                    /\ disk[local'[s].upload] # None => disk[local'[s].upload].request = local'[s].request
      BY DEF Locals, Settled, Known, Asked, Owns
    <3>1. CASE s = t
      BY <1>0, <2>3, <2>4, <2>6, <3>1 DEF Types
    <3>2. CASE s # t
      BY <1>0, <2>4, <3>2 DEF Locals, Known, Asked, Owns
    <3> QED BY <3>1, <3>2
  <2>9. nextReq' \in Nat /\ nextReq' > 0
    BY <1>0, <1>2 DEF Types
  <2> QED BY <1>2, <2>3, <2>4, <2>7, <2>8, <2>9
<1> QED BY <1>1, <1>2

(* The state file names another session, one of its request. *)
LEMMA LocalsNamed ==
    ASSUME IInv, Settled, NEW t \in Target, local[t] # None, NEW w \in Upload \cup {None},
           w # None => Owns(w, local[t].request),
           local' = [local EXCEPT ![t].upload = w], nextReq' = nextReq
    PROVE  /\ Requests' /\ Locals' /\ local' \in [Target -> LocalRecord \cup {None}]
           /\ local'[t] # None /\ local'[t].upload = w
PROOF
<1>0. Types /\ Requests /\ Locals
  BY DEF IInv, Peer
<1>1. local[t] \in LocalRecord
  BY <1>0 DEF Types
<1>2. PICK l : l = [local[t] EXCEPT !.upload = w]
  OBVIOUS
<1>3. l \in LocalRecord /\ l.request = local[t].request /\ l.content = local[t].content /\ l.upload = w /\ l # None
  BY <1>1, <1>2, RecordAssumption DEF LocalRecord
<1>4. /\ local' \in [Target -> LocalRecord \cup {None}] /\ local'[t] = l
      /\ \A s \in Target \ {t} : local'[s] = local[s]
  BY <1>0, <1>2, <1>3 DEF Types
<1>5. Requests'
  BY <1>0, <1>3, <1>4 DEF Requests, Settled, Known
<1>6. Locals'
  BY <1>0, <1>3, <1>4 DEF Locals, Settled, Known, Asked, Owns
<1> QED BY <1>3, <1>4, <1>5, <1>6

(* What a step of the client keeps of the sessions when it is about none. *)
Server == UNCHANGED <<phase, sess, disk, temp, file, requests, xfer, pend, acked, published, exclusive>>

LEMMA ClientStep ==
    ASSUME IInv, Server, todo' \in [Caller -> SUBSET Upload], phase = "loading" => todo' = todo,
           source' \in Content, Requests', Locals', Clients', Calls',
           local' \in [Target -> LocalRecord \cup {None}], client' \in ClientRecord, call' \in CallRecord,
           nextReq' \in Nat, nextReq' > 0
    PROVE  IInv'
PROOF
<1>1. Types'
  BY DEF IInv, Types, Server
<1>2. ASSUME NEW u \in Upload PROVE Session(u)'
  <2>0. Session(u)
    BY DEF IInv
  <2>1. Drawn(u)' /\ Records(u)' /\ Offsets(u)' /\ Transfers(u)'
    BY <2>0 DEF Server, Session, Drawn, Records, Offsets, Transfers, Known, EverPublished, whole
  <2>2. Places(u)'
    BY <2>0 DEF Server, Session, Places, Known, Published, EverPublished
  <2> QED BY <2>1, <2>2 DEF Session
<1> QED BY <1>1, <1>2 DEF IInv, Peer

(* A step away from every call. *)
LEMMA NoCallStays ==
    ASSUME IInv, call.op = "none", call' = call
    PROVE  Calls' /\ call' \in CallRecord
  BY DEF IInv, Types, Peer, Calls, NoCall

LEMMA NewRequestStep ==
    ASSUME IInv, Server, NEW t \in Target, NEW c \in Content, NewRequest(t, c), source' = source,
           todo' \in [Caller -> SUBSET Upload], phase = "loading" => todo' = todo,
           Calls', call' \in CallRecord
    PROVE  IInv'
PROOF
<1>0. Types /\ Settled /\ source \in Content
  BY DEF IInv, Types, Server, Settled
<1>1. CASE nextReq <= MaxRequests
  <2>1. /\ local' = [local EXCEPT ![t] = [request |-> nextReq, upload |-> None, content |-> c]]
        /\ nextReq' = nextReq + 1
        /\ client' = [at |-> "ensure", target |-> t, why |-> "none"]
    BY <1>1 DEF NewRequest
  <2>2. /\ Requests' /\ Locals' /\ local' \in [Target -> LocalRecord \cup {None}]
        /\ nextReq' \in Nat /\ nextReq' > 0
    BY <1>0, <1>1, <2>1, LocalsRenewed
  <2>3. local'[t] # None
    <3>1. PICK l : l = [request |-> nextReq, upload |-> None, content |-> c]
      OBVIOUS
    <3>2. nextReq \in 1..MaxRequests
      BY <1>0, <1>1, UploadAssumption DEF Types
    <3>3. l # None
      BY <3>1, <3>2, RecordAssumption DEF LocalRecord
    <3> QED BY <1>0, <2>1, <3>1, <3>3 DEF Types
  <2>4. client' \in ClientRecord /\ Clients'
    BY <2>1, <2>3 DEF ClientRecord, Clients
  <2> QED BY <1>0, <2>2, <2>4, ClientStep
<1>2. CASE ~(nextReq <= MaxRequests)
  <2>1. client' = Idle /\ UNCHANGED <<local, nextReq>>
    BY <1>2 DEF NewRequest
  <2>2. client' \in ClientRecord /\ Clients'
    BY <2>1 DEF ClientRecord, Clients, Idle
  <2> QED BY <1>0, <2>1, <2>2, LocalsSame, ClientStep DEF Types
<1> QED BY <1>1, <1>2

(* The client goes elsewhere with its state files as they are. *)
LEMMA SameLocalsStep ==
    ASSUME IInv, Server, UNCHANGED <<local, nextReq>>, source' = source,
           todo' \in [Caller -> SUBSET Upload], phase = "loading" => todo' = todo,
           client' \in ClientRecord, Clients', Calls', call' \in CallRecord
    PROVE  IInv'
  BY LocalsSame, ClientStep DEF IInv, Types, Server, Settled

LEMMA ReportedStep ==
    ASSUME IInv, Server, NEW t \in Target, Reported(t), nextReq' = nextReq, source' = source,
           todo' \in [Caller -> SUBSET Upload], phase = "loading" => todo' = todo,
           Calls', call' \in CallRecord
    PROVE  IInv'
PROOF
<1>0. Types /\ Settled /\ source \in Content
  BY DEF IInv, Types, Server, Settled
<1>1. local' = [local EXCEPT ![t] = None] /\ client' = Idle
  BY DEF Reported
<1>2. /\ Requests' /\ Locals' /\ local' \in [Target -> LocalRecord \cup {None}]
      /\ nextReq' \in Nat /\ nextReq' > 0
  BY <1>0, <1>1, LocalsRenewed
<1>3. client' \in ClientRecord /\ Clients'
  BY <1>1 DEF ClientRecord, Clients, Idle
<1> QED BY <1>0, <1>2, <1>3, ClientStep

LEMMA NamedStep ==
    ASSUME IInv, Server, NEW t \in Target, local[t] # None, NEW w \in Upload \cup {None},
           w # None => Owns(w, local[t].request),
           local' = [local EXCEPT ![t].upload = w], nextReq' = nextReq, source' = source,
           todo' \in [Caller -> SUBSET Upload], phase = "loading" => todo' = todo,
           client' \in ClientRecord, client'.at # "idle" => client'.target = t,
           \/ client'.at = "idle" \/ (client'.at = "ensure" /\ client'.why = "known")
           \/ (client'.at = "open" /\ w # None),
           Calls', call' \in CallRecord
    PROVE  IInv'
PROOF
<1>0. Types /\ Settled /\ source \in Content
  BY DEF IInv, Types, Server, Settled
<1>1. /\ Requests' /\ Locals' /\ local' \in [Target -> LocalRecord \cup {None}]
      /\ local'[t] # None /\ local'[t].upload = w
  BY <1>0, LocalsNamed
<1>2. Clients'
  BY <1>1 DEF Clients
<1>3. nextReq' \in Nat /\ nextReq' > 0
  BY <1>0 DEF Types
<1> QED BY <1>0, <1>1, <1>2, <1>3, ClientStep

LEMMA ServerFrame ==
    ASSUME IInv, UNCHANGED server, UNCHANGED <<exclusive, acked, published>>
    PROVE  Server
  BY DEF server, store, files, Server

LEMMA UploadFileStep ==
    ASSUME IInv, NEW t \in Target, UploadFile(t)
    PROVE  IInv'
PROOF
<1>0. Types /\ client = Idle /\ source \in Content
  BY DEF IInv, Types, UploadFile
<1>1. /\ Server /\ source' = source /\ todo' \in [Caller -> SUBSET Upload] /\ todo' = todo
  BY <1>0, ServerFrame DEF UploadFile, ghost, Types
<1>2. Calls' /\ call' \in CallRecord
  <2>1. call.op = "none" /\ call' = call
    BY <1>0 DEF UploadFile, IInv, Peer, Calls, Idle
  <2> QED BY <2>1, NoCallStays
<1>3. CASE NewRequest(t, source)
  BY <1>0, <1>1, <1>2, <1>3, NewRequestStep
<1>4. CASE /\ local[t] # None /\ client' = [at |-> "ensure", target |-> t, why |-> "none"]
           /\ UNCHANGED <<local, nextReq>>
  <2>1. client' \in ClientRecord /\ Clients'
    BY <1>4 DEF ClientRecord, Clients
  <2> QED BY <1>1, <1>2, <1>4, <2>1, SameLocalsStep
<1>5. CASE /\ local[t] # None /\ local[t].upload # None
           /\ client' = [at |-> "stale", target |-> t, why |-> "stale"]
           /\ UNCHANGED <<local, nextReq>>
  <2>1. client' \in ClientRecord /\ Clients'
    BY <1>5 DEF ClientRecord, Clients
  <2> QED BY <1>1, <1>2, <1>5, <2>1, SameLocalsStep
<1> QED BY <1>3, <1>4, <1>5 DEF UploadFile

LEMMA ClientAtStep ==
    ASSUME IInv, Server, UNCHANGED <<local, nextReq>>, source' = source, todo' = todo,
           Calls', call' \in CallRecord, client' \in ClientRecord,
           \/ client' = Idle
           \/ /\ client.at # "idle" /\ client'.target = client.target
              /\ client'.at # "ensure"
              /\ \/ client.at \in {"open", "stream", "await", "query", "stale"}
                 \/ client.at = "wait" /\ client.why # "new"
    PROVE  IInv'
PROOF
<1>1. Clients'
  BY DEF IInv, Peer, Clients, Idle
<1>2. todo' \in [Caller -> SUBSET Upload]
  BY DEF IInv, Types
<1> QED BY <1>1, <1>2, SameLocalsStep

(* No call runs while the client is elsewhere, or the controller down. *)
LEMMA NoCallRuns ==
    ASSUME IInv, client.at # "wait" \/ phase # "serving"
    PROVE  call.op = "none"
  BY DEF IInv, Peer, Calls

LEMMA ClientMoves ==
    ASSUME IInv, NEW at \in {"query", "wait", "open", "stream", "await", "ensure"},
           NEW why \in {"none", "stale", "known", "new", "retry", "error"}, NEW c,
           \/ c = [client EXCEPT !.at = at]
           \/ c = [client EXCEPT !.at = at, !.why = why]
    PROVE  c \in ClientRecord /\ c.target = client.target /\ c.at = at /\ c.why \in {client.why, why}
  BY DEF IInv, Types, ClientRecord

LEMMA ClientCallsStep ==
    ASSUME IInv, ClientCalls
    PROVE  IInv'
PROOF
<1>0. Types /\ Clients /\ Serving /\ call = NoCall
  BY DEF IInv, Peer, ClientCalls, BeginCall
<1>1. client.at \in {"stale", "ensure", "query"}
  BY DEF ClientCalls
<1>2. PICK t \in Target : t = client.target /\ local[t] # None /\ local[t] \in LocalRecord
  BY <1>0, <1>1 DEF Clients, Types
<1>3. Server /\ source' = source /\ UNCHANGED <<local, nextReq>>
  BY ServerFrame DEF ClientCalls, ghost
<1>4. PICK op \in {"create", "get", "abort"} :
        /\ BeginCall(op)
        /\ op # "create" => local[t].upload # None
        /\ client' = [client EXCEPT !.at = "wait"] \/ client' = [client EXCEPT !.at = "wait", !.why = "known"]
           \/ client' = [client EXCEPT !.at = "wait", !.why = "new"]
        /\ client'.why # "new" => local[t].upload # None
  <2>1. CASE client.at = "stale" /\ BeginCall("abort") /\ client' = [client EXCEPT !.at = "wait"]
    BY <1>0, <1>2, <2>1 DEF Clients
  <2>2. CASE client.at = "ensure" /\ local[client.target].upload # None /\ BeginCall("get")
             /\ client' = [client EXCEPT !.at = "wait", !.why = "known"]
    BY <1>2, <2>2
  <2>3. CASE client.at = "ensure" /\ local[client.target].upload = None /\ BeginCall("create")
             /\ client' = [client EXCEPT !.at = "wait", !.why = "new"]
    <3>1. client'.why = "new"
      BY <1>0, <2>3 DEF Types, ClientRecord
    <3> QED BY <1>2, <2>3, <3>1
  <2>4. CASE client.at = "query" /\ BeginCall("get") /\ client' = [client EXCEPT !.at = "wait"]
    BY <1>0, <1>2, <2>4 DEF Clients
  <2> QED BY <2>1, <2>2, <2>3, <2>4 DEF ClientCalls
<1>5. client' \in ClientRecord /\ client'.target = t /\ client'.at = "wait"
  BY <1>2, <1>4, ClientMoves
<1>6. PICK c : c = [op |-> op, target |-> t, upload |-> local[t].upload,
                    request |-> local[t].request, content |-> local[t].content, answer |-> None]
  OBVIOUS
<1>7. /\ c \in CallRecord /\ c.op = op /\ c.target = t /\ c.upload = local[t].upload
      /\ c.request = local[t].request /\ c.content = local[t].content /\ c.answer = None
  BY <1>2, <1>6 DEF CallRecord, LocalRecord
<1>8. call' = c
  BY <1>2, <1>4, <1>6 DEF BeginCall
<1>9. Calls'
  <2>1. local[t].upload # None => local[t].upload \in Upload
    BY <1>2 DEF LocalRecord
  <2>2. phase' = "serving"
    BY <1>0, <1>3 DEF Server, Serving
  <2> QED BY <1>3, <1>4, <1>5, <1>7, <1>8, <2>1, <2>2 DEF Calls
<1>10. Clients'
  BY <1>2, <1>3, <1>4, <1>5 DEF Clients
<1>11. todo' \in [Caller -> SUBSET Upload] /\ (phase = "loading" => todo' = todo)
  BY <1>0, <1>4 DEF BeginCall, Types, Caller, Serving
<1> QED BY <1>3, <1>5, <1>7, <1>8, <1>9, <1>10, <1>11, SameLocalsStep

(* The call is over, or was never made. *)
LEMMA UnavailableStep ==
    ASSUME IInv, Server, source' = source, todo' = todo, Calls', call' \in CallRecord,
           client.at \in {"wait", "stale", "ensure", "query"}, Unavailable
    PROVE  IInv'
PROOF
<1>0. Types /\ Clients
  BY DEF IInv, Peer
<1>1. PICK t \in Target : t = client.target /\ local[t] # None
  BY <1>0 DEF Clients
<1>2. todo' \in [Caller -> SUBSET Upload] /\ source \in Content
  BY <1>0 DEF Types
<1>3. CASE NewRequest(client.target, source)
  BY <1>1, <1>2, <1>3, NewRequestStep
<1>4. CASE Stop
  <2>1. client' = Idle /\ client' \in ClientRecord /\ UNCHANGED <<local, nextReq>>
    BY <1>4 DEF Stop, Idle, ClientRecord
  <2> QED BY <2>1, ClientAtStep
<1>5. CASE client.why = "retry" /\ Again("open")
  <2>1. client' = [client EXCEPT !.at = "open"] /\ UNCHANGED <<local, nextReq>>
    BY <1>5 DEF Again
  <2>2. client' \in ClientRecord /\ client'.target = client.target /\ client'.at = "open"
    BY <2>1, ClientMoves
  <2>3. client.at = "ensure" \/ client.at \in {"stale", "query"} \/ (client.at = "wait" /\ client.why # "new")
    BY <1>5
  <2>4. CASE client.at # "ensure"
    BY <2>1, <2>2, <2>3, <2>4, ClientAtStep
  <2>5. client.at # "ensure"
    BY <1>0, <1>5 DEF Clients
  <2> QED BY <2>4, <2>5
<1> QED BY <1>3, <1>4, <1>5 DEF Unavailable

LEMMA ReturnsStep ==
    ASSUME IInv, CallReturns
    PROVE  IInv'
PROOF
<1>0. /\ Types /\ client.at = "wait" /\ call.answer # None /\ call' = NoCall /\ source' = source /\ todo' = todo
      /\ source \in Content /\ todo' \in [Caller -> SUBSET Upload]
  BY DEF IInv, Types, CallReturns
<1>1. Server
  BY ServerFrame DEF CallReturns
<1>2. Calls' /\ call' \in CallRecord
  BY <1>0, NoCallFacts DEF Calls
<1>3. call.op # "none"
  BY <1>0, NoCallFacts DEF IInv, Peer, Calls
<1>4. PICK t \in Target : t = client.target /\ local[t] \in LocalRecord /\ local[t] # None
  BY <1>3, CallFacts, RecordAssumption
<1>5. CASE Unavailable
  BY <1>0, <1>1, <1>2, <1>5, UnavailableStep
<1>6. ASSUME Stop PROVE IInv'
  <2>1. client' = Idle /\ client' \in ClientRecord /\ UNCHANGED <<local, nextReq>>
    BY <1>6 DEF Stop, Idle, ClientRecord
  <2> QED BY <1>0, <1>1, <1>2, <2>1, ClientAtStep
<1>7. ASSUME Reported(t), UNCHANGED nextReq PROVE IInv'
  BY <1>0, <1>1, <1>2, <1>7, ReportedStep
<1>8. ASSUME NEW c \in Content, NewRequest(t, c) PROVE IInv'
  BY <1>0, <1>1, <1>2, <1>8, NewRequestStep
<1>9. PICK a : a = call.answer
  OBVIOUS
<1>10. a \in Answers /\ (a.code = "ok" => a.upload \in Upload /\ Owns(a.upload, local[t].request))
  <2>1. a \in Answers
    BY <1>0, <1>9 DEF Types, CallRecord
  <2>2. a.code = "ok" => a.upload \in Upload /\ Owns(a.upload, call.request)
    BY <1>0, <1>3, <1>9 DEF IInv, Peer, Calls
  <2> QED BY <1>3, <1>4, <2>1, <2>2, CallFacts
<1>11. ASSUME Ensured(a), a.code = "ok" PROVE IInv'
  <2>1. a.upload \in Upload /\ Owns(a.upload, local[t].request)
    BY <1>10, <1>11
  <2>2. CASE a.state = "COMPLETE"
    BY <1>4, <1>7, <1>11, <2>2 DEF Ensured
  <2>3. CASE a.state = "OPEN"
    <3>1. /\ local' = [local EXCEPT ![t].upload = a.upload] /\ nextReq' = nextReq
          /\ client' = [client EXCEPT !.at = "open"]
      BY <1>4, <1>11, <2>3 DEF Ensured
    <3>2. client' \in ClientRecord /\ client'.target = t /\ client'.at = "open"
      BY <1>4, <3>1, ClientMoves
    <3> QED BY <1>0, <1>1, <1>2, <1>4, <2>1, <3>1, <3>2, NamedStep, UploadAssumption
  <2>4. CASE a.state = "FINALIZING"
    <3>1. /\ local' = [local EXCEPT ![t].upload = a.upload] /\ nextReq' = nextReq /\ client' = Idle
      BY <1>4, <1>11, <2>4 DEF Ensured
    <3>2. client' \in ClientRecord /\ client'.at = "idle"
      BY <3>1 DEF Idle, ClientRecord
    <3> QED BY <1>0, <1>1, <1>2, <1>4, <2>1, <3>1, <3>2, NamedStep, UploadAssumption
  <2>5. CASE a.state \notin {"COMPLETE", "OPEN", "FINALIZING"}
    <3>1. NewRequest(t, local[t].content)
      BY <1>4, <1>11, <2>5 DEF Ensured
    <3>2. local[t].content \in Content
      BY <1>4 DEF LocalRecord
    <3> QED BY <1>8, <3>1, <3>2
  <2> QED BY <2>2, <2>3, <2>4, <2>5
<1>12. CASE ClientReads(a)
  <2>1. CASE client.why = "stale"
    BY <1>0, <1>4, <1>8, <1>12, <2>1 DEF ClientReads
  <2>2. CASE client.why = "known"
    <3>1. CASE a.code = "ok"
      BY <1>11, <1>12, <2>2, <3>1 DEF ClientReads
    <3>2. CASE a.code = "NotFound"
      <4>1. /\ local' = [local EXCEPT ![t].upload = None] /\ nextReq' = nextReq
            /\ client' = [client EXCEPT !.at = "ensure"]
        BY <1>4, <1>12, <2>2, <3>2 DEF ClientReads
      <4>2. client' \in ClientRecord /\ client'.target = t /\ client'.at = "ensure" /\ client'.why = "known"
        BY <1>0, <1>4, <2>2, <4>1 DEF Types, ClientRecord
      <4> QED BY <1>0, <1>1, <1>2, <1>4, <4>1, <4>2, NamedStep
    <3>3. CASE a.code \notin {"ok", "NotFound"}
      BY <1>6, <1>12, <2>2, <3>3 DEF ClientReads
    <3> QED BY <3>1, <3>2, <3>3
  <2>3. CASE client.why = "new"
    BY <1>6, <1>11, <1>12, <2>3 DEF ClientReads
  <2>4. CASE client.why \notin {"stale", "known", "new"}
    <3>1. CASE Reported(t) /\ UNCHANGED nextReq
      BY <1>7, <3>1
    <3>2. CASE Stop
      BY <1>6, <3>2
    <3>3. CASE Again("open")
      <4>1. client' = [client EXCEPT !.at = "open"] /\ UNCHANGED <<local, nextReq>>
        BY <3>3 DEF Again
      <4>2. client' \in ClientRecord /\ client'.target = client.target /\ client'.at = "open"
        BY <4>1, ClientMoves
      <4> QED BY <1>0, <1>1, <1>2, <2>4, <4>1, <4>2, ClientAtStep
    <3> QED BY <1>4, <1>12, <2>4, <3>1, <3>2, <3>3 DEF ClientReads
  <2> QED BY <2>1, <2>2, <2>3, <2>4
<1> QED BY <1>5, <1>9, <1>12 DEF CallReturns

LEMMA FailsStep ==
    ASSUME IInv, CallFails
    PROVE  IInv'
PROOF
<1>1. phase # "serving" /\ Unavailable /\ UNCHANGED <<call, source, todo>>
      /\ client.at \in {"wait", "stale", "ensure", "query"}
  BY DEF CallFails, Serving
<1>2. Server
  BY ServerFrame DEF CallFails
<1>3. Calls' /\ call' \in CallRecord
  BY <1>1, NoCallRuns, NoCallStays
<1> QED BY <1>1, <1>2, <1>3, UnavailableStep

(* The client stops, or asks how far the stream came. *)
LEMMA LeavesStep ==
    ASSUME IInv, Server, UNCHANGED <<local, nextReq, call, source, todo>>, client.at # "wait",
           \/ client' = Idle
           \/ /\ client.at \in {"open", "stream", "await"}
              /\ \E at \in {"query", "stream", "await"}, why \in {"retry", "error"} :
                    \/ client' = [client EXCEPT !.at = at]
                    \/ client' = [client EXCEPT !.at = at, !.why = why]
    PROVE  IInv'
PROOF
<1>1. Calls' /\ call' \in CallRecord
  BY NoCallRuns, NoCallStays
<1>2. CASE client' = Idle
  <2>1. client' \in ClientRecord
    BY <1>2 DEF Idle, ClientRecord
  <2> QED BY <1>1, <1>2, <2>1, ClientAtStep
<1>3. CASE /\ client.at \in {"open", "stream", "await"}
           /\ \E at \in {"query", "stream", "await"}, why \in {"retry", "error"} :
                    \/ client' = [client EXCEPT !.at = at]
                    \/ client' = [client EXCEPT !.at = at, !.why = why]
  <2>1. PICK at \in {"query", "stream", "await"}, why \in {"retry", "error"} :
             \/ client' = [client EXCEPT !.at = at]
             \/ client' = [client EXCEPT !.at = at, !.why = why]
    BY <1>3
  <2>2. client' \in ClientRecord /\ client'.target = client.target /\ client'.at = at
    <3>1. client \in ClientRecord
      BY DEF IInv, Types
    <3>2. CASE client' = [client EXCEPT !.at = at]
      BY <3>1, <3>2 DEF ClientRecord
    <3>3. CASE client' = [client EXCEPT !.at = at, !.why = why]
      BY <3>1, <3>3 DEF ClientRecord
    <3> QED BY <2>1, <3>2, <3>3
  <2>3. client'.at # "ensure" /\ client.at # "idle"
    BY <1>3, <2>2
  <2> QED BY <1>1, <1>3, <2>2, <2>3, ClientAtStep
<1> QED BY <1>2, <1>3

LEMMA OtherClientSteps ==
    ASSUME IInv, SourceChanged \/ StreamBreaks \/ ClientCrashes \/ EditSource
    PROVE  IInv'
PROOF
<1>1. Server
  BY ServerFrame DEF SourceChanged, StreamBreaks, ClientCrashes, EditSource, ghost
<1>2. CASE SourceChanged
  <2>1. client.at # "wait" /\ client' = Idle /\ UNCHANGED <<local, nextReq, call, source, todo>>
    BY <1>2 DEF SourceChanged, Stop
  <2> QED BY <1>1, <2>1, LeavesStep
<1>3. CASE StreamBreaks
  <2>1. /\ client.at \in {"open", "stream", "await"} /\ UNCHANGED <<local, nextReq, call, source, todo>>
        /\ client' = [client EXCEPT !.at = "query", !.why = "retry"]
    BY <1>3 DEF StreamBreaks
  <2>2. client.at # "wait"
    BY <2>1
  <2>3. \E at \in {"query", "stream", "await"}, why \in {"retry", "error"} :
            \/ client' = [client EXCEPT !.at = at]
            \/ client' = [client EXCEPT !.at = at, !.why = why]
    BY <2>1
  <2> QED BY <1>1, <2>1, <2>2, <2>3, LeavesStep
<1>4. CASE ClientCrashes
  <2>1. client.at # "wait" /\ client' = Idle /\ UNCHANGED <<local, nextReq, call, source, todo>>
    BY <1>4 DEF ClientCrashes
  <2> QED BY <1>1, <2>1, LeavesStep
<1>5. CASE EditSource
  <2>1. source' \in Content /\ UNCHANGED <<local, nextReq, call, client, todo>>
    BY <1>5 DEF EditSource
  <2>2. /\ Types /\ Requests /\ Locals /\ Clients /\ Calls /\ Settled
    BY <1>1 DEF IInv, Peer, Server, Settled
  <2>3. Requests' /\ Locals'
    BY <2>1, <2>2, LocalsSame
  <2>4. Clients' /\ Calls'
    <3>1. phase' = phase /\ published' = published /\ sess' = sess /\ disk' = disk /\ acked' = acked
      BY <1>1 DEF Server
    <3> QED BY <2>1, <2>2, <3>1 DEF Clients, Calls, Owns, Known
  <2>5. /\ local' \in [Target -> LocalRecord \cup {None}] /\ client' \in ClientRecord /\ call' \in CallRecord
        /\ nextReq' \in Nat /\ nextReq' > 0 /\ todo' \in [Caller -> SUBSET Upload]
    BY <2>1, <2>2 DEF Types
  <2> QED BY <1>1, <2>1, <2>3, <2>4, <2>5, ClientStep
<1> QED BY <1>2, <1>3, <1>4, <1>5

(* A step of the transfer that its client takes part in. *)
LEMMA TogetherStep ==
    ASSUME IInv, NEW u \in Upload, Frame(u), Session(u)', Settled, Requests', Locals', Clients',
           UNCHANGED <<call, source>>, client.at # "wait",
           client' \in ClientRecord, local' \in [Target -> LocalRecord \cup {None}], nextReq' = nextReq
    PROVE  IInv'
PROOF
<1>1. Calls' /\ call' \in CallRecord
  BY NoCallRuns, NoCallStays
<1>2. requests' \in [1..MaxRequests -> Upload \cup {None}]
  BY DEF Settled, IInv, Types
<1>3. Types'
  BY <1>1, <1>2 DEF IInv, Types, Frame
<1>4. \A v \in Upload : Session(v)'
  BY OtherSessions
<1> QED BY <1>1, <1>3, <1>4 DEF IInv, Peer

LEMMA OpensStep ==
    ASSUME IInv, NEW u \in Upload, TransferOpens(u)
    PROVE  IInv'
PROOF
<1>0. Types /\ Session(u) /\ Clients /\ client.at = "open" /\ phase = "serving"
  BY DEF IInv, Peer, TransferOpens, Serving
<1>1. UNCHANGED <<phase, sess, requests, disk, file, pend, todo, call, local, source, exclusive, nextReq,
                  acked, published>>
  BY DEF TransferOpens, store, ghost
<1>2. CASE UNCHANGED <<xfer, temp>> /\ \E why \in {"retry", "error"} : client' = [client EXCEPT !.at = "query", !.why = why]
  <2>1. Server
    BY <1>1, <1>2 DEF Server
  <2>2. \E at \in {"query", "stream", "await"}, why \in {"retry", "error"} :
            \/ client' = [client EXCEPT !.at = at]
            \/ client' = [client EXCEPT !.at = at, !.why = why]
    BY <1>2
  <2> QED BY <1>0, <1>1, <2>1, <2>2, LeavesStep
<1>3. CASE /\ MayOpen(u) /\ client' = [client EXCEPT !.at = "stream"]
           /\ xfer' = [xfer EXCEPT ![u] = [at |-> "recv", accepted |-> sess[u].committed,
                                          mark |-> sess[u].committed]]
           /\ temp' = Truncated(u, sess[u].committed)
  <2>1. /\ Known(u) /\ xfer[u].at = "no" /\ sess[u].state = "OPEN" /\ temp[u] # None
        /\ sess[u] \in Record /\ sess[u].committed \in Nat /\ pend[u].step = "none"
        /\ acked[u] \in Int /\ acked[u] <= sess[u].committed /\ acked[u] # -1
        /\ acked[u] <= temp[u].synced
    BY <1>0, <1>3 DEF MayOpen, active, Types, Known, Record, Session, Transfers, Offsets, Drawn,
                      isOpenUploadState, OpenStates
  <2>2. PICK n \in Nat : n = sess[u].committed
    BY <2>1
  <2>3. /\ temp' \in [Upload -> Staged \cup {None}] /\ \A v \in Upload \ {u} : temp'[v] = temp[v]
        /\ temp'[u] \in Staged /\ temp'[u] # None /\ temp'[u].len = n
        /\ temp'[u].synced = IF temp[u].synced < n THEN temp[u].synced ELSE n
        /\ temp'[u].synced <= n
    BY <1>0, <1>3, <2>1, <2>2, TruncatedFacts
  <2>4. PICK x : x = [at |-> "recv", accepted |-> n, mark |-> n]
    OBVIOUS
  <2>5. x \in [at : XferAt, accepted : Nat, mark : Nat] /\ x.at = "recv" /\ x.accepted = n
    BY <2>4 DEF XferAt
  <2>6. /\ xfer' \in [Upload -> [at : XferAt, accepted : Nat, mark : Nat]]
        /\ \A v \in Upload \ {u} : xfer'[v] = xfer[v]
        /\ xfer'[u] = x
    BY <1>0, <1>3, <2>2, <2>4, <2>5 DEF Types
  <2>7. Frame(u)
    BY <1>0, <1>1, <2>3, <2>6 DEF Frame, Types
  <2>8. Drawn(u)' /\ Records(u)'
    BY <1>0, <1>1, <2>1 DEF Session, Drawn, Records, Known
  <2>9. Transfers(u)'
    BY <1>0, <1>1, <2>1, <2>5, <2>6 DEF Transfers, Known
  <2>10. Places(u)'
    BY <1>0, <1>1, <2>1, <2>3, <2>5, <2>6 DEF Session, Places, Published, Known, EverPublished
  <2>11. Offsets(u)'
    <3>1. acked'[u] <= temp'[u].synced
      BY <1>1, <2>1, <2>2, <2>3
    <3> QED BY <1>0, <1>1, <2>1, <2>2, <2>3, <2>5, <2>6, <3>1 DEF Session, Offsets, Known
  <2>12. client' \in ClientRecord /\ client'.target = client.target /\ client'.at = "stream"
    BY <1>3, ClientMoves
  <2>13. Clients' /\ Settled
    BY <1>0, <1>1, <2>12 DEF Clients, Settled
  <2>14. Requests' /\ Locals' /\ local' \in [Target -> LocalRecord \cup {None}]
    BY <1>0, <1>1, <2>13, LocalsSame DEF Types
  <2> QED BY <1>0, <1>1, <2>7, <2>8, <2>9, <2>10, <2>11, <2>12, <2>13, <2>14, TogetherStep DEF Session
<1> QED BY <1>2, <1>3 DEF TransferOpens

LEMMA SendFinishStep ==
    ASSUME IInv, NEW u \in Upload, SendFinish(u)
    PROVE  IInv'
PROOF
<1>0. Types /\ Session(u) /\ Clients /\ client.at = "stream" /\ xfer[u].at = "recv"
  BY DEF IInv, Peer, SendFinish
<1>1. UNCHANGED <<phase, sess, requests, disk, temp, file, pend, todo, call, local, source, exclusive, nextReq,
                  acked, published>>
  BY DEF SendFinish, store, files, ghost
<1>2. /\ xfer' \in [Upload -> [at : XferAt, accepted : Nat, mark : Nat]]
      /\ \A v \in Upload \ {u} : xfer'[v] = xfer[v]
      /\ xfer'[u].at = "finish" /\ xfer'[u].accepted = xfer[u].accepted
  BY <1>0, AtFacts DEF SendFinish, XferAt
<1>3. Frame(u)
  BY <1>0, <1>1, <1>2 DEF Frame, Types
<1>4. Drawn(u)' /\ Records(u)'
  BY <1>0, <1>1 DEF Session, Drawn, Records, Known, EverPublished
<1>5. Transfers(u)' /\ Places(u)' /\ Offsets(u)'
  BY <1>0, <1>1, <1>2 DEF Session, Transfers, Places, Offsets, Known, Published, EverPublished
<1>6. client' \in ClientRecord /\ client'.target = client.target /\ client'.at = "await"
  <2>1. client' = [client EXCEPT !.at = "await"]
    BY DEF SendFinish
  <2> QED BY <2>1, ClientMoves
<1>7. Clients' /\ Settled
  BY <1>0, <1>1, <1>6 DEF Clients, Settled
<1>8. Requests' /\ Locals' /\ local' \in [Target -> LocalRecord \cup {None}]
  BY <1>0, <1>1, <1>7, LocalsSame DEF Types
<1> QED BY <1>0, <1>1, <1>3, <1>4, <1>5, <1>6, <1>7, <1>8, TogetherStep DEF Session

LEMMA EndTransferStep ==
    ASSUME IInv, NEW u \in Upload, EndTransfer(u)
    PROVE  IInv'
PROOF
<1>0. Types /\ Session(u) /\ Clients /\ xfer[u].at \in {"done", "left"} /\ pend[u].step = "none"
  BY DEF IInv, Peer, EndTransfer, NoPend
<1>1. UNCHANGED <<phase, sess, requests, disk, temp, file, pend, todo, call, source, exclusive, nextReq,
                  acked, published>>
  BY DEF EndTransfer, store, files
<1>2. /\ xfer' \in [Upload -> [at : XferAt, accepted : Nat, mark : Nat]]
      /\ \A v \in Upload \ {u} : xfer'[v] = xfer[v]
      /\ xfer'[u].at = "no"
  <2>1. NoXfer \in [at : XferAt, accepted : Nat, mark : Nat] /\ NoXfer.at = "no"
    BY DEF NoXfer, XferAt
  <2>2. xfer' = [xfer EXCEPT ![u] = NoXfer]
    BY DEF EndTransfer
  <2> QED BY <1>0, <2>1, <2>2 DEF Types
<1>3. Frame(u)
  BY <1>0, <1>1, <1>2 DEF Frame, Types
<1>4. Kept(u) /\ RequestsFollow(u)
  <2>1. Kept(u)
    BY <1>1 DEF Kept, Same
  <2>2. \A q \in 1..MaxRequests : requests[q] = u => sess[u] # None
    BY UploadAssumption DEF IInv, Peer, Requests, Known
  <2> QED BY <1>0, <1>1, <2>1, <2>2 DEF RequestsFollow, Types
<1>5. Session(u)'
  <2>1. Drawn(u)' /\ Records(u)'
    BY <1>0, <1>1 DEF Session, Drawn, Records, Known, EverPublished
  <2>2. Transfers(u)' /\ Places(u)' /\ Offsets(u)'
    BY <1>0, <1>1, <1>2 DEF Session, Transfers, Places, Offsets, Known, Published, EverPublished
  <2> QED BY <2>1, <2>2 DEF Session
<1>6. Settled
  BY <1>1 DEF Settled
<1>7. CASE UNCHANGED <<local, client>>
  <2>1. Session1(u)
    BY <1>1, <1>3, <1>4, <1>5, <1>7 DEF Session1, Others
  <2> QED BY <2>1, ServerStep
<1>8. CASE Connected(u) /\ Reported(client.target)
  <2>1. client.target \in Target /\ client.at # "wait"
    BY <1>0, <1>8 DEF Clients, Connected
  <2>2. PICK c \in Content : TRUE
    BY <1>0 DEF Types
  <2>3. local' = [local EXCEPT ![client.target] = None] /\ client' = Idle /\ nextReq' = nextReq
    BY <1>1, <1>8 DEF Reported
  <2>4. Requests' /\ Locals' /\ local' \in [Target -> LocalRecord \cup {None}]
    BY <1>6, <2>1, <2>2, <2>3, LocalsRenewed
  <2>5. client' \in ClientRecord /\ Clients'
    BY <2>3 DEF ClientRecord, Clients, Idle
  <2> QED BY <1>1, <1>3, <1>5, <1>6, <2>1, <2>4, <2>5, TogetherStep
<1>9. CASE Connected(u) /\ client' = [client EXCEPT !.at = "query", !.why = "error"] /\ UNCHANGED local
  <2>1. client.at \in {"stream", "await"}
    BY <1>9 DEF Connected
  <2>2. client' \in ClientRecord /\ client'.target = client.target /\ client'.at = "query"
    BY <1>9, ClientMoves
  <2>3. Clients'
    BY <1>0, <1>9, <2>1, <2>2 DEF Clients
  <2>4. Requests' /\ Locals' /\ local' \in [Target -> LocalRecord \cup {None}]
    BY <1>0, <1>1, <1>6, <1>9, LocalsSame DEF Types
  <2> QED BY <1>1, <1>3, <1>5, <1>6, <2>1, <2>2, <2>3, <2>4, TogetherStep
<1> QED BY <1>7, <1>8, <1>9 DEF EndTransfer

-----------------------------------------------------------------------------
(* The invariant. *)

LEMMA InitInvariant == Init => IInv
PROOF
<1> SUFFICES ASSUME Init PROVE IInv
  OBVIOUS
<1>1. /\ phase = "serving" /\ sess = [u \in Upload |-> None] /\ requests = [r \in 1..MaxRequests |-> None]
      /\ disk = [u \in Upload |-> None] /\ temp = [u \in Upload |-> None]
      /\ file \in [Target -> {"none"} \cup Foreign] /\ xfer = [u \in Upload |-> NoXfer]
      /\ pend = [u \in Upload |-> NoPend] /\ todo = [a \in Caller |-> {}] /\ call = NoCall
      /\ local = [t \in Target |-> None] /\ source \in Content /\ client = Idle /\ nextReq = 1
      /\ acked = [u \in Upload |-> -1] /\ published = {}
  BY DEF Init
<1>2. Types
  <2>1. file \in [Target -> {"none", "torn"} \cup Content \cup Foreign]
    BY <1>1
  <2>2. xfer \in [Upload -> [at : XferAt, accepted : Nat, mark : Nat]]
    BY <1>1 DEF NoXfer, XferAt
  <2>3. pend \in [Upload -> [step : {"none", "temp", "paths", "purge", "forget"}, by : Caller \cup {"none", "xfer"}]]
    BY <1>1 DEF NoPend
  <2>4. call \in CallRecord /\ client \in ClientRecord
    BY <1>1, NoCallFacts DEF Idle, ClientRecord
  <2> QED BY <1>1, <2>1, <2>2, <2>3, <2>4 DEF Types
<1>3. ASSUME NEW u \in Upload PROVE Session(u)
  <2>1. /\ sess[u] = None /\ disk[u] = None /\ temp[u] = None /\ xfer[u].at = "no" /\ pend[u].step = "none"
        /\ ~EverPublished(u)
    BY <1>1 DEF NoXfer, NoPend, EverPublished
  <2> QED BY <1>1, <2>1 DEF Session, Drawn, Records, Transfers, Places, Offsets, Known, EverPublished
<1>4. Peer
  BY <1>1, NoCallFacts DEF Peer, Requests, Locals, Clients, Calls, Known, Idle
<1> QED BY <1>2, <1>3, <1>4 DEF IInv

LEMMA NextInvariant == IInv /\ [Next]_vars => IInv'
PROOF
<1> SUFFICES ASSUME IInv, [Next]_vars PROVE IInv'
  OBVIOUS
<1>1. ASSUME NEW u \in Upload, Cleanup(u) PROVE IInv'
  <2>1. PICK a \in Caller : Sweep(a, u)
    BY <1>1 DEF Cleanup
  <2>2. Session1(u)
    BY <2>1, SweepStep DEF Session1
  <2> QED BY <2>2, ServerStep
<1>2. ASSUME NEW u \in Upload, Released(u) PROVE IInv'
  BY <1>2, RemoveTempStep, ReleaseStep, PurgeStep, ForgetStep, ServerStep DEF Released
<1>3. ASSUME NEW u \in Upload, Transfer(u) PROVE IInv'
  BY <1>3, BreaksStep, FinishStep, FinalizeStep, VerifyStep, PublishStep, UnlinkStep, CompleteStep,
     ServerStep, EndTransferStep DEF Transfer
<1>4. ASSUME NEW u \in Upload, Streaming(u) PROVE IInv'
  BY <1>4, OpensStep, SendFinishStep, ChunkStep, ServerStep DEF Streaming
<1>5. ASSUME NEW u \in Upload, Tick(u) PROVE IInv'
  BY <1>5, TickStep, ServerStep
<1>6. CASE Served
  BY <1>6, CreateAgainStep, RefusedStep, CreateStep, GetStep, AbortStep, ReturnsStep DEF Served
<1>7. CASE Client
  BY <1>7, UploadFileStep, ClientCallsStep, FailsStep, OtherClientSteps DEF Client
<1>8. CASE EditSource \/ Plain \/ CollectGarbage
  BY <1>8, OtherClientSteps, PlainStep, CollectStep
<1>9. CASE Crash \/ Restart \/ Loaded
  BY <1>9, CrashStep, RestartStep, LoadedStep
<1>10. ASSUME NEW u \in Upload, LoadSession(u) PROVE IInv'
  BY <1>10, LoadStep
<1>11. CASE UNCHANGED vars
  <2>1. Server /\ Settled /\ UNCHANGED <<todo, local, client, call, source, nextReq>>
    BY <1>11 DEF vars, store, files, calls, peer, ghost, Server, Settled
  <2>2. Types /\ Calls /\ Clients
    BY DEF IInv, Peer
  <2>3. Calls' /\ Clients'
    BY <2>1, <2>2 DEF Calls, Clients, Server, Owns, Known
  <2> QED BY <2>1, <2>2, <2>3, SameLocalsStep DEF Types
<1> QED BY <1>1, <1>2, <1>3, <1>4, <1>5, <1>6, <1>7, <1>8, <1>9, <1>10, <1>11 DEF Next

(* The inductive invariant holds. *)
THEOREM UploadsInductive == Spec => []IInv
PROOF
<1> QED BY InitInvariant, NextInvariant, PTL DEF Spec

(* AnsweredIsDurable: what a client was told is committed is in the record *)
(* and on disk (checkpointUpload persists before it answers), for every    *)
(* number of uploads, targets, crashes and failing writes.                 *)
THEOREM AnswersAreDurable == Spec => []AnsweredIsDurable
PROOF
<1>1. IInv => AnsweredIsDurable
  BY DEF IInv, Session, Offsets, AnsweredIsDurable
<1> QED BY <1>1, UploadsInductive, PTL

-----------------------------------------------------------------------------
(* The contract. *)

Unseen == UNCHANGED <<exclusive, file, published, reported>>

LEMMA StepUnseen ==
    ASSUME Unseen
    PROVE  [UC!Next]_UC!vars
  BY DEF Unseen, UC!vars

LEMMA ContractInit == Init => UC!Init
  BY DEF Init, UC!Init

LEMMA PublishKept ==
    ASSUME IInv, NEW u \in Upload, Publish(u)
    PROVE  [UC!Next]_UC!vars
PROOF
<1>0. /\ Types /\ Session(u) /\ xfer[u].at = "publish" /\ Known(u) /\ sess[u] \in Record
      /\ UNCHANGED <<exclusive, reported>>
  BY Running DEF Publish, peer
<1>1. CASE UNCHANGED <<file, published>>
  BY <1>0, <1>1, StepUnseen DEF Unseen
<1>2. CASE /\ temp[u] # None /\ (exclusive => file[sess[u].target] = "none")
           /\ file' = [file EXCEPT ![sess[u].target] = IF whole(u) THEN sess[u].content ELSE "torn"]
           /\ published' = published \cup {<<u, sess[u].target, sess[u].content>>}
  <2>1. PICK t \in Target, c \in Content : t = sess[u].target /\ c = sess[u].content
    BY <1>0 DEF Record
  <2>2. whole(u)
    BY <1>0, <1>2 DEF Session, Transfers
  <2>3. ~exclusive => \A p \in published : p[1] # u
    BY <1>0, <1>2 DEF Session, Places, EverPublished
  <2>4. UC!Publish(u, t, c)
    BY <1>0, <1>2, <2>1, <2>2, <2>3 DEF UC!Publish
  <2> QED BY <2>4 DEF UC!Next
<1> QED BY <1>1, <1>2 DEF Publish

LEMMA LoadKept ==
    ASSUME IInv, NEW u \in Upload, LoadSession(u)
    PROVE  [UC!Next]_UC!vars
PROOF
<1> DEFINE r == recovered(u)
<1>0. Types /\ Session(u) /\ phase = "loading" /\ u \in todo["gc"] /\ disk[u] # None /\ disk[u] \in Record
  BY DEF IInv, LoadSession, Session, Places, Types
<1>1. /\ r \in Record /\ Same(r, disk[u])
      /\ r.state = "COMPLETE" => disk[u].state = "COMPLETE" \/ file[disk[u].target] = disk[u].content
  BY <1>0, RecoveredFacts
<1>2. UNCHANGED <<exclusive, file, reported>> /\ (Placed(u, r) \/ UNCHANGED published)
  BY DEF LoadSession, peer
<1> HIDE DEF r
<1>3. CASE published' = published
  BY <1>2, <1>3, StepUnseen DEF Unseen
<1>4. CASE /\ r.state = "COMPLETE" /\ \A p \in published : p[1] # u
           /\ published' = published \cup {<<u, r.target, r.content>>}
  <2>1. PICK t \in Target, c \in Content : t = r.target /\ c = r.content
    BY <1>1 DEF Record
  <2>2. disk[u].state = "COMPLETE" => file[disk[u].target] = disk[u].content
    <3>1. ~Published(u, disk[u])
      BY <1>4 DEF Published
    <3> QED BY <1>0, <3>1 DEF Session, Places
  <2>3. file[t] = c
    BY <1>1, <1>4, <2>1, <2>2 DEF Same
  <2>4. file' = [file EXCEPT ![t] = c]
    BY <1>0, <1>2, <2>3 DEF Types
  <2>5. UC!Publish(u, t, c)
    BY <1>2, <1>4, <2>1, <2>3, <2>4 DEF UC!Publish
  <2> QED BY <2>5 DEF UC!Next
<1> QED BY <1>2, <1>3, <1>4 DEF Placed

(* The client is told what is in place for its target. *)
LEMMA ReportKept ==
    ASSUME IInv, NEW t \in Target, local[t] \in LocalRecord, Reported(t),
           NEW u \in Upload, <<u, t, local[t].content>> \in published,
           UNCHANGED <<exclusive, file, published>>
    PROVE  [UC!Next]_UC!vars
PROOF
<1>1. PICK c \in Content : c = local[t].content
  BY DEF LocalRecord
<1>2. UC!Report(t, c)
  BY <1>1 DEF Reported, UC!Report
<1> QED BY <1>2 DEF UC!Next

LEMMA EndKept ==
    ASSUME IInv, NEW u \in Upload, EndTransfer(u)
    PROVE  [UC!Next]_UC!vars
PROOF
<1>1. UNCHANGED <<exclusive, file, published>>
  BY DEF EndTransfer, files
<1>2. CASE UNCHANGED reported
  BY <1>1, <1>2, StepUnseen DEF Unseen
<1>3. CASE Connected(u) /\ xfer[u].at = "done" /\ Reported(client.target)
  <2>1. PICK t \in Target : t = client.target /\ local[t] # None /\ local[t].upload = u
    BY <1>3 DEF IInv, Peer, Clients, Connected
  <2>2. local[t] \in LocalRecord
    BY <2>1 DEF IInv, Types
  <2>3. Asked(local[t].request, t, local[t].content, u) /\ Owns(u, local[t].request)
    BY <2>1, UploadAssumption DEF IInv, Peer, Locals
  <2>4. Known(u) /\ Published(u, sess[u])
    BY <1>3 DEF IInv, Session, Transfers, Places
  <2>5. <<u, t, local[t].content>> \in published
    BY <2>3, <2>4 DEF Asked, Owns, Published
  <2> QED BY <1>1, <1>3, <2>1, <2>2, <2>5, ReportKept
<1> QED BY <1>2, <1>3 DEF EndTransfer

LEMMA ReturnsKept ==
    ASSUME IInv, CallReturns
    PROVE  [UC!Next]_UC!vars
PROOF
<1>0. /\ Types /\ call.answer # None /\ UNCHANGED <<exclusive, file, published>>
  BY DEF IInv, CallReturns, server, files
<1>1. call.op # "none"
  BY <1>0, NoCallFacts DEF IInv, Peer, Calls
<1>2. PICK t \in Target : t = client.target /\ local[t] \in LocalRecord /\ call.target = t
                          /\ call.content = local[t].content
  BY <1>1, CallFacts
<1>3. CASE UNCHANGED reported
  BY <1>0, <1>3, StepUnseen DEF Unseen
<1>4. CASE call.answer.code = "ok" /\ call.answer.state = "COMPLETE" /\ Reported(t)
  <2>1. PICK u \in Upload : u = call.answer.upload
    BY <1>0, <1>1, <1>4 DEF IInv, Peer, Calls
  <2>2. <<u, t, local[t].content>> \in published
    BY <1>0, <1>1, <1>2, <1>4, <2>1 DEF IInv, Peer, Calls
  <2> QED BY <1>0, <1>2, <1>4, <2>2, ReportKept
<1>5. CASE Unavailable
  BY <1>3, <1>5 DEF Unavailable, Again, Stop
<1>6. PICK a : a = call.answer
  OBVIOUS
<1>7. ASSUME Reported(t), a.code = "ok", a.state = "COMPLETE"
      PROVE  [UC!Next]_UC!vars
  BY <1>4, <1>6, <1>7
<1>8. ASSUME Ensured(a), a.code = "ok"
      PROVE  [UC!Next]_UC!vars
  <2>1. CASE a.state = "COMPLETE"
    BY <1>2, <1>7, <1>8, <2>1 DEF Ensured
  <2>2. CASE a.state \in {"OPEN", "FINALIZING"}
    BY <1>3, <1>8, <2>2 DEF Ensured
  <2>3. CASE a.state \notin {"COMPLETE", "OPEN", "FINALIZING"}
    BY <1>3, <1>8, <2>3 DEF Ensured
  <2> QED BY <2>1, <2>2, <2>3
<1>9. CASE ClientReads(a)
  <2>1. CASE client.why = "stale"
    BY <1>3, <1>9, <2>1 DEF ClientReads
  <2>2. CASE client.why = "known"
    BY <1>3, <1>8, <1>9, <2>2 DEF ClientReads, Stop
  <2>3. CASE client.why = "new"
    BY <1>3, <1>8, <1>9, <2>3 DEF ClientReads, Stop
  <2>4. CASE client.why \notin {"stale", "known", "new"}
    BY <1>2, <1>3, <1>7, <1>9, <2>4 DEF ClientReads, Stop, Again
  <2> QED BY <2>1, <2>2, <2>3, <2>4
<1> QED BY <1>5, <1>6, <1>9 DEF CallReturns

(* To reconcile a session publishes nothing: it was published before. *)
LEMMA ReconcileKept ==
    ASSUME IInv, NEW u \in Upload, Known(u), Unresolved(u), NEW ok \in BOOLEAN, NEW by,
           Reconcile(u, ok, by)
    PROVE  published' = published
PROOF
<1>1. Same(reconciled(u), sess[u]) /\ EverPublished(u)
  BY Reconciled
<1> QED BY <1>1 DEF Reconcile, Placed, EverPublished

LEMMA CallsKept ==
    ASSUME IInv, CreateAgain \/ GetUploadSession \/ AbortUploadSession
    PROVE  Unseen
PROOF
<1>1. UNCHANGED <<exclusive, file, reported>>
  BY DEF CreateAgain, GetUploadSession, AbortUploadSession, peer
<1>2. call.op # "none"
  BY DEF CreateAgain, GetUploadSession, AbortUploadSession, MayAct
<1>3. CASE CreateAgain
  <2>1. Types /\ call.request \in 1..MaxRequests /\ requests[call.request] # None
    BY <1>2, <1>3, CallFacts DEF CreateAgain
  <2>2. PICK u \in Upload : u = requests[call.request] /\ Known(u)
    BY <2>1 DEF IInv, Peer, Requests, Types
  <2>3. \/ UNCHANGED published
        \/ Unresolved(u) /\ \E ok \in BOOLEAN : Reconcile(u, ok, "call")
    BY <1>3, <2>2 DEF CreateAgain
  <2> QED BY <1>1, <2>2, <2>3, ReconcileKept DEF Unseen
<1>4. CASE GetUploadSession
  <2>1. PICK u \in Upload : u = call.upload
    BY <1>2, <1>4, CallFacts DEF GetUploadSession, MayAct
  <2>2. \/ UNCHANGED published
        \/ Known(u) /\ Unresolved(u) /\ \E ok \in BOOLEAN : Reconcile(u, ok, "call")
    BY <1>4, <2>1 DEF GetUploadSession
  <2> QED BY <1>1, <2>2, ReconcileKept DEF Unseen
<1>5. CASE AbortUploadSession
  <2>1. PICK u \in Upload : u = call.upload
    BY <1>2, <1>5, CallFacts DEF AbortUploadSession, MayAct
  <2>2. \/ UNCHANGED published
        \/ Known(u) /\ Unresolved(u) /\ \E ok \in BOOLEAN : Reconcile(u, ok, "call")
    BY <1>5, <2>1 DEF AbortUploadSession
  <2> QED BY <1>1, <2>2, ReconcileKept DEF Unseen
<1> QED BY <1>3, <1>4, <1>5

(* Plain calls write what they write, or nothing. *)
LEMMA PlainKept ==
    ASSUME IInv, Plain
    PROVE  [UC!Next]_UC!vars
PROOF
<1>1. CASE \E path \in Target \cup {"tree"} : PlainChecks(path)
  BY <1>1, StepUnseen DEF PlainChecks, files, peer, ghost, Unseen
<1>2. ASSUME NEW t \in Target, NEW f \in Foreign,
             PlainChmod(t, f) \/ \E over \in BOOLEAN : PlainWrites(t, f, over)
      PROVE  [UC!Next]_UC!vars
  <2>1. UNCHANGED <<exclusive, published, reported>>
    BY <1>2 DEF PlainChmod, PlainWrites, PlainEnds, peer, ghost
  <2>2. file' = file \/ file' = [file EXCEPT ![t] = f]
    BY <1>2 DEF PlainChmod, PlainWrites
  <2>3. CASE file' = file
    BY <2>1, <2>3, StepUnseen DEF Unseen
  <2>4. CASE file' = [file EXCEPT ![t] = f]
    BY <2>1, <2>4 DEF UC!Plain, UC!Next
  <2> QED BY <2>2, <2>3, <2>4
<1>3. ASSUME NEW t \in Target, PlainRemoves(t)
      PROVE  [UC!Next]_UC!vars
  <2>1. UC!Plain(t, "none")
    BY <1>3 DEF PlainRemoves, PlainEnds, peer, ghost, UC!Plain
  <2> QED BY <2>1 DEF UC!Next
<1>4. CASE PlainRemovesTree
  BY <1>4 DEF PlainRemovesTree, PlainEnds, peer, ghost, UC!PlainRemoveAll, UC!Next
<1> QED BY <1>1, <1>2, <1>3, <1>4 DEF Plain

(* Every step is a step of the contract, or none that it sees. *)
LEMMA StepKept == IInv /\ [Next]_vars => [UC!Next]_UC!vars
PROOF
<1> SUFFICES ASSUME IInv, [Next]_vars PROVE [UC!Next]_UC!vars
  OBVIOUS
<1>1. ASSUME NEW u \in Upload, Cleanup(u) PROVE [UC!Next]_UC!vars
  <2>1. PICK a \in Caller : Sweep(a, u)
    BY <1>1 DEF Cleanup
  <2>2. published' = published
    BY <2>1, SweepStep
  <2> QED BY <2>1, <2>2, StepUnseen DEF Sweep, peer, Unseen
<1>2. ASSUME NEW u \in Upload, Released(u) PROVE [UC!Next]_UC!vars
  <2>1. CASE removeSessionTemp(u) \/ releasePaths(u)
    BY <2>1, StepUnseen DEF removeSessionTemp, releasePaths, files, peer, ghost, Unseen
  <2>2. CASE Purge(u) \/ Forget(u)
    BY <2>2, StepUnseen DEF Purge, Forget, peer, ghost, Unseen
  <2> QED BY <1>2, <2>1, <2>2 DEF Released
<1>3. ASSUME NEW u \in Upload, Transfer(u) PROVE [UC!Next]_UC!vars
  <2>1. CASE TransferBreaks(u) \/ TransferFinish(u) \/ Finalize(u)
    BY <2>1, StepUnseen DEF TransferBreaks, TransferFinish, Finalize, peer, ghost, Unseen
  <2>2. CASE Verify(u) \/ Unlink(u) \/ Complete(u)
    BY <2>2, StepUnseen DEF Verify, Unlink, Complete, peer, ghost, Unseen
  <2> QED BY <1>3, <2>1, <2>2, PublishKept, EndKept DEF Transfer
<1>4. ASSUME NEW u \in Upload, Streaming(u) PROVE [UC!Next]_UC!vars
  <2>1. CASE TransferOpens(u) \/ SendFinish(u)
    BY <2>1, StepUnseen DEF TransferOpens, SendFinish, files, ghost, Unseen
  <2>2. ASSUME NEW check \in BOOLEAN, TransferChunk(u, check) PROVE Unseen
    BY <2>2 DEF TransferChunk, peer, Unseen
  <2> QED BY <1>4, <2>1, <2>2, StepUnseen DEF Streaming
<1>5. ASSUME NEW u \in Upload, Tick(u) PROVE [UC!Next]_UC!vars
  BY <1>5, StepUnseen DEF Tick, peer, ghost, Unseen
<1>6. CASE Served
  <2>1. ASSUME NEW u \in Upload, CreateUploadSession(u) PROVE Unseen
    BY <2>1 DEF CreateUploadSession, peer, Unseen
  <2>2. CASE CreateRefused
    BY <2>2, StepUnseen DEF CreateRefused, files, peer, ghost, Unseen
  <2> QED BY <1>6, <2>1, <2>2, CallsKept, ReturnsKept, StepUnseen DEF Served
<1>7. CASE Client
  <2>1. ASSUME NEW t \in Target, UploadFile(t) PROVE Unseen
    BY <2>1 DEF UploadFile, server, files, ghost, Unseen
  <2>2. CASE ClientCalls \/ StreamBreaks \/ ClientCrashes
    BY <2>2, StepUnseen DEF ClientCalls, StreamBreaks, ClientCrashes, server, files, ghost, Unseen
  <2>3. CASE CallFails \/ SourceChanged
    BY <2>3, StepUnseen DEF CallFails, SourceChanged, Unavailable, Again, Stop, server, files, Unseen
  <2> QED BY <1>7, <2>1, <2>2, <2>3, StepUnseen DEF Client
<1>8. CASE EditSource \/ CollectGarbage
  BY <1>8, StepUnseen DEF EditSource, CollectGarbage, server, files, peer, ghost, Unseen
<1>9. CASE Plain
  BY <1>9, PlainKept
<1>10. CASE Crash \/ Restart \/ Loaded
  BY <1>10, StepUnseen DEF Crash, Restart, Loaded, files, peer, ghost, Unseen
<1>11. ASSUME NEW u \in Upload, LoadSession(u) PROVE [UC!Next]_UC!vars
  BY <1>11, LoadKept
<1>12. CASE UNCHANGED vars
  BY <1>12, StepUnseen DEF vars, files, peer, ghost, Unseen
<1> QED BY <1>1, <1>2, <1>3, <1>4, <1>5, <1>6, <1>7, <1>8, <1>9, <1>10, <1>11, <1>12 DEF Next

(* Contract: the workspace and the clients see UploadContract, whatever is *)
(* lost, retried or restarted: a target changes from what it was to the    *)
(* whole of a content, an upload that may overwrite does so once, one that *)
(* may not replaces nothing (finalizeUpload, recoverSession and            *)
(* reconcileFinalizingUploadLocked), and a client is told "uploaded"       *)
(* (finishLocalUploadState) only of what was published.                    *)
THEOREM UploadsKeepTheContract == Spec => Contract
PROOF
<1> QED BY ContractInit, UploadsInductive, StepKept, PTL DEF Contract, UC!Spec, Spec

-----------------------------------------------------------------------------
(* The reservations: what a table of targets counts and declares, and the  *)
(* inductive invariant that every step keeps.                              *)

(* The targets that a table reserves, and what it reserves for each *)
Reserved(tg) == {t \in Target : tg[t] # None}
Weights(tg, ss) == [t \in Reserved(tg) |-> Size(ss[tg[t]].content)]

Tables == [Target -> Upload \cup {None}]

(* The bytes a table declares are a sum over what it reserves. *)
LEMMA BytesAreSummed ==
    ASSUME NEW tg, NEW ss, IsFiniteSet(Reserved(tg))
    PROVE  \E h : Sums(h, Reserved(tg), Weights(tg, ss)) /\ DeclaredBytes(tg, ss) = h[Reserved(tg)]
PROOF
<1> DEFINE D == Reserved(tg)
           w == Weights(tg, ss)
           pick(s) == CHOOSE x \in s : TRUE
<1>1. \A x \in D : w[x] \in Nat
  BY UploadAssumption DEF Weights, Size
<1>2. PICK ch : ch = [s \in SUBSET D |-> pick(s)]
  OBVIOUS
<1>3. \A s \in SUBSET D : s # {} => ch[s] \in s
  BY <1>2
<1> DEFINE it == CHOOSE iter : iter = [s \in SUBSET D |-> IF s = {} THEN 0
                                  ELSE Size(ss[tg[pick(s)]].content) + iter[s \ {pick(s)}]]
<1>4. DeclaredBytes(tg, ss) = it[D]
  BY Zenon DEF DeclaredBytes, MapThenSumSet, MapThenFoldSet, Reserved
<1> HIDE DEF pick
<1>5. PICK h : SumsBy(h, D, w, ch)
  BY <1>1, <1>3, SumDefined, Zenon
<1>6. ASSUME NEW g
      PROVE  g = [s \in SUBSET D |-> IF s = {} THEN 0 ELSE Size(ss[tg[pick(s)]].content) + g[s \ {pick(s)}]]
             <=> SumsBy(g, D, w, ch)
  <2>1. ASSUME NEW s \in SUBSET D
        PROVE  (IF s = {} THEN 0 ELSE Size(ss[tg[pick(s)]].content) + g[s \ {pick(s)}])
               = (IF s = {} THEN 0 ELSE w[ch[s]] + g[s \ {ch[s]}])
    <3>1. CASE s # {}
      <4>1. ch[s] = pick(s) /\ pick(s) \in D
        BY <1>2, <1>3, <3>1
      <4>2. w[ch[s]] = Size(ss[tg[pick(s)]].content)
        BY <4>1 DEF Weights
      <4> QED BY <4>1, <4>2
    <3> QED BY <3>1
  <2> QED BY <2>1, Zenon DEF SumsBy
<1>7. SumsBy(it, D, w, ch)
  <2>1. h = [s \in SUBSET D |-> IF s = {} THEN 0 ELSE Size(ss[tg[pick(s)]].content) + h[s \ {pick(s)}]]
    BY <1>5, <1>6, Zenon
  <2>2. it = [s \in SUBSET D |-> IF s = {} THEN 0 ELSE Size(ss[tg[pick(s)]].content) + it[s \ {pick(s)}]]
    BY <2>1, Zenon
  <2> QED BY <1>6, <2>2, Zenon
<1> HIDE DEF it
<1>8. Sums(it, D, w)
  BY <1>1, <1>3, <1>7, SumChosen, Zenon
<1> QED BY <1>4, <1>8, Zenon

(* Every reservation of one table is one of the other, of the same size. *)
Within(tg, ss, tb, sb) ==
    \A t \in Target : tg[t] # None => tb[t] # None /\ Size(ss[tg[t]].content) = Size(sb[tb[t]].content)

(* A table that reserves less declares less. *)
LEMMA BytesLess ==
    ASSUME NEW tg, NEW ss, NEW tb, NEW sb, IsFiniteSet(Reserved(tb)), Within(tg, ss, tb, sb)
    PROVE  /\ IsFiniteSet(Reserved(tg)) /\ Reserved(tg) \subseteq Reserved(tb)
           /\ Cardinality(Reserved(tg)) \in Nat /\ Cardinality(Reserved(tb)) \in Nat
           /\ Cardinality(Reserved(tg)) <= Cardinality(Reserved(tb))
           /\ DeclaredBytes(tg, ss) \in Nat /\ DeclaredBytes(tb, sb) \in Nat
           /\ DeclaredBytes(tg, ss) <= DeclaredBytes(tb, sb)
PROOF
<1> DEFINE S == Reserved(tg)
           D == Reserved(tb)
           v == Weights(tg, ss)
           w == Weights(tb, sb)
<1>1. S \subseteq D
  BY DEF Reserved, Within
<1>2. IsFiniteSet(S)
  BY <1>1, FS_Subset, Zenon
<1>3. Cardinality(S) \in Nat /\ Cardinality(D) \in Nat /\ Cardinality(S) <= Cardinality(D)
  BY <1>1, <1>2, FS_Subset, FS_CardinalityType, Zenon
<1>4. \A x \in D : w[x] \in Nat
  BY UploadAssumption DEF Weights, Size
<1>5. \A x \in S : v[x] = w[x]
  BY <1>1 DEF Weights, Reserved, Within
<1>6. PICK g : Sums(g, S, v) /\ DeclaredBytes(tg, ss) = g[S]
  BY <1>2, BytesAreSummed, Zenon
<1>7. PICK h : Sums(h, D, w) /\ DeclaredBytes(tb, sb) = h[D]
  BY BytesAreSummed, Zenon
<1> HIDE DEF S, D, v, w
<1>8. h[S] \in Nat /\ h[D] \in Nat /\ h[S] <= h[D]
  BY <1>1, <1>4, <1>7, SumGrows DEF D
<1>9. g[S] = h[S]
  BY <1>1, <1>2, <1>5, <1>6, <1>7, SumSame
<1> QED BY <1>1, <1>2, <1>3, <1>6, <1>7, <1>8, <1>9 DEF S, D

(* The sum depends on the sizes alone. *)
LEMMA BytesSame ==
    ASSUME NEW tg, NEW ss, NEW sb, IsFiniteSet(Reserved(tg)),
           \A t \in Target : tg[t] # None => Size(ss[tg[t]].content) = Size(sb[tg[t]].content)
    PROVE  DeclaredBytes(tg, ss) = DeclaredBytes(tg, sb)
PROOF
<1>1. Within(tg, ss, tg, sb) /\ Within(tg, sb, tg, ss)
  BY DEF Within
<1>2. DeclaredBytes(tg, ss) <= DeclaredBytes(tg, sb)
      /\ DeclaredBytes(tg, ss) \in Nat /\ DeclaredBytes(tg, sb) \in Nat
  BY <1>1, BytesLess
<1>3. DeclaredBytes(tg, sb) <= DeclaredBytes(tg, ss)
  BY <1>1, BytesLess
<1> QED BY <1>2, <1>3

(* One more target is reserved, and the others declare what they did. *)
Adds(tg, tb, t, u) == tg[t] = None /\ tb[t] = u /\ \A s \in Target \ {t} : tb[s] = tg[s]
SameSizes(tg, ss, sb) == \A s \in Target : tg[s] # None => Size(ss[tg[s]].content) = Size(sb[tg[s]].content)

(* One more reservation counts one, and its bytes. *)
LEMMA BytesMore ==
    ASSUME NEW tg, NEW ss, NEW tb, NEW sb, NEW t \in Target, NEW u \in Upload,
           Adds(tg, tb, t, u), SameSizes(tg, ss, sb), IsFiniteSet(Reserved(tg))
    PROVE  /\ IsFiniteSet(Reserved(tb))
           /\ Cardinality(Reserved(tg)) \in Nat
           /\ Cardinality(Reserved(tb)) = Cardinality(Reserved(tg)) + 1
           /\ DeclaredBytes(tg, ss) \in Nat
           /\ DeclaredBytes(tb, sb) = DeclaredBytes(tg, ss) + Size(sb[u].content)
PROOF
<1> DEFINE S == Reserved(tg)
           D == Reserved(tb)
           v == Weights(tg, ss)
           w == Weights(tb, sb)
<1>1. /\ D = S \cup {t} /\ t \notin S /\ tb[t] = u
      /\ \A s \in S : tb[s] = tg[s]
  BY UploadAssumption DEF Reserved, Adds
<1>2. IsFiniteSet(D)
  BY <1>1, FS_AddElement, Zenon
<1>3. Cardinality(S) \in Nat /\ Cardinality(D) = Cardinality(S) + 1
  BY <1>1, FS_AddElement, FS_CardinalityType
<1>4. \A x \in S : v[x] = w[x]
  <2> SUFFICES ASSUME NEW x \in S PROVE v[x] = w[x]
    OBVIOUS
  <2>1. x \in Target /\ tg[x] # None /\ x \in D /\ tb[x] = tg[x]
    BY <1>1 DEF Reserved
  <2>2. v[x] = Size(ss[tg[x]].content) /\ w[x] = Size(sb[tb[x]].content)
    BY <2>1 DEF Weights
  <2> QED BY <2>1, <2>2 DEF SameSizes
<1>5. PICK g : Sums(g, S, v) /\ DeclaredBytes(tg, ss) = g[S]
  BY BytesAreSummed, Zenon
<1>6. PICK h : Sums(h, D, w) /\ DeclaredBytes(tb, sb) = h[D]
  BY <1>2, BytesAreSummed, Zenon
<1>7. w[t] = Size(sb[u].content)
  BY <1>1 DEF Weights
<1> HIDE DEF S, D, v, w
<1>8. h[D] = w[t] + h[D \ {t}]
  <2>1. D \in SUBSET D /\ t \in D
    BY <1>1
  <2> QED BY <1>6, <2>1, Zenon DEF Sums
<1>9. D \ {t} = S
  BY <1>1
<1>10. g[S] = h[S]
  BY <1>1, <1>4, <1>5, <1>6, SumSame DEF S
<1>11. g[S] \in Nat
  BY <1>5 DEF Sums
<1>12. Size(sb[u].content) \in Nat
  BY UploadAssumption DEF Size
<1>13. h[D] = Size(sb[u].content) + g[S]
  BY <1>7, <1>8, <1>9, <1>10, Zenon
<1>14. h[D] = g[S] + Size(sb[u].content)
  BY <1>11, <1>12, <1>13
<1>15. DeclaredBytes(tb, sb) = DeclaredBytes(tg, ss) + Size(sb[u].content) /\ DeclaredBytes(tg, ss) \in Nat
  BY <1>5, <1>6, <1>11, <1>14, Zenon
<1> QED BY <1>2, <1>3, <1>15 DEF S, D

(* An empty table counts and declares nothing. *)
LEMMA BytesNone ==
    ASSUME NEW tg, NEW ss, \A t \in Target : tg[t] = None
    PROVE  IsFiniteSet(Reserved(tg)) /\ Cardinality(Reserved(tg)) = 0 /\ DeclaredBytes(tg, ss) = 0
PROOF
<1>1. Reserved(tg) = {}
  BY DEF Reserved
<1>2. IsFiniteSet(Reserved(tg)) /\ Cardinality(Reserved(tg)) = 0
  BY <1>1, FS_EmptySet
<1>3. PICK h : Sums(h, Reserved(tg), Weights(tg, ss)) /\ DeclaredBytes(tg, ss) = h[Reserved(tg)]
  BY <1>2, BytesAreSummed, Zenon
<1> QED BY <1>1, <1>2, <1>3 DEF Sums

(* A session holds its target while it is open, and until its paths are    *)
(* released.                                                               *)
Holds(u) == isOpenUploadState(sess[u]) \/ pend[u].step \in {"temp", "paths"}

(* A session that is known has its target, or has given it back. *)
Claims(u) ==
    Known(u) =>
        /\ (targets[sess[u].target] = u) <=> Holds(u)
        /\ isOpenUploadState(sess[u]) => u \in temps
        /\ pend[u].step \in {"temp", "paths"} => ~sess[u].due

(* What is reserved is reserved by a session of that target. *)
Borne ==
    /\ targets \in Tables /\ temps \subseteq Upload /\ nextReq <= MaxRequests + 1
    /\ \A t \in Target : targets[t] # None => Known(targets[t]) /\ sess[targets[t]].target = t

(* The counters are those of the table, within the limits. *)
Counted ==
    /\ IsFiniteSet(Reserved(targets))
    /\ activeUploads = Cardinality(Reserved(targets)) /\ activeUploads <= MaxUploadSessions
    /\ reservedBytes = DeclaredBytes(targets, sess) /\ reservedBytes <= MaxStagingBytes

(* What a start takes up again is known, or there is still to be loaded. *)
Loads(u) ==
    /\ phase \in {"sweeping", "serving"} /\ ~Known(u) => ~Reopens(u)
    /\ phase = "loading" /\ u \in todo["gc"] => ~Known(u)
    /\ phase = "loading" /\ u \notin todo["gc"] /\ ~Known(u) => disk[u] = None
    /\ phase = "loading" /\ Known(u) /\ isOpenUploadState(sess[u]) => Reopens(u)

(* There is a table, within the limits, for all that a start takes up. *)
Room(b) ==
    /\ b \in Tables /\ IsFiniteSet(Reserved(b))
    /\ Cardinality(Reserved(b)) <= MaxUploadSessions /\ DeclaredBytes(b, disk) <= MaxStagingBytes
    /\ \A u \in Upload : Reopens(u) => b[disk[u].target] = u

(* Of a controller that is down, or loads, all that is saved fits. *)
Fits == phase \in {"down", "loading"} => \E b \in Tables : Room(b)

(* The inductive invariant *)
RInv == (\A u \in Upload : Claims(u) /\ Loads(u)) /\ Borne /\ Counted /\ Fits

(* No session is called None. *)
LEMMA Drawable == None \notin Upload
  BY UploadAssumption

(* The sums stay when every session goes on, or ends, as the upload it is. *)
LEMMA CountedStays ==
    ASSUME RInv, UNCHANGED <<targets, activeUploads, reservedBytes>>,
           \A t \in Target : targets[t] # None => sess'[targets[t]].content = sess[targets[t]].content
    PROVE  Counted'
PROOF
<1>1. DeclaredBytes(targets, sess) = DeclaredBytes(targets, sess')
  BY BytesSame DEF RInv, Counted
<1> QED BY <1>1 DEF RInv, Counted

(* A session goes on: it holds its target as before. *)
LEMMA GoesOn ==
    ASSUME IInv, RInv, NEW u \in Upload, Frame(u), Kept(u), Known(u), sess'[u] # None,
           phase \notin {"down", "loading"},
           Holds(u)' <=> Holds(u), isOpenUploadState(sess'[u]) => isOpenUploadState(sess[u]),
           pend'[u].step \in {"temp", "paths"} => ~sess'[u].due,
           UNCHANGED <<targets, temps, activeUploads, reservedBytes, nextReq>>
    PROVE  RInv'
PROOF
<1>0. /\ phase \in {"sweeping", "serving"} /\ phase' = phase /\ Same(sess'[u], sess[u])
      /\ \A v \in Upload \ {u} : sess'[v] = sess[v] /\ disk'[v] = disk[v]
                                /\ temp'[v] = temp[v] /\ pend'[v] = pend[v]
  BY Identity DEF Frame, IInv, Types
<1>1. \A v \in Upload : Known(v) => Known(v)' /\ Same(sess'[v], sess[v])
  BY <1>0 DEF Known, Same
<1>2. ASSUME NEW v \in Upload PROVE Claims(v)'
  <2>1. Claims(v)
    BY DEF RInv
  <2>2. CASE v = u
    BY <1>0, <2>1, <2>2 DEF Claims, Known, Same
  <2>3. CASE v # u
    BY <1>0, <2>1, <2>3 DEF Claims, Known, Holds
  <2> QED BY <2>2, <2>3
<1>3. ASSUME NEW v \in Upload PROVE Loads(v)'
  <2>1. Loads(v)
    BY DEF RInv
  <2>2. CASE v = u
    BY <1>0, <1>1, <2>2 DEF Loads
  <2>3. CASE v # u
    BY <1>0, <2>1, <2>3 DEF Loads, Known, Reopens
  <2> QED BY <2>2, <2>3
<1>4. Borne'
  BY <1>1 DEF RInv, Borne, Tables, Same
<1>5. Counted'
  <2>1. \A t \in Target : targets[t] # None => Known(targets[t]) /\ targets[t] \in Upload
    BY DEF RInv, Borne, Tables
  <2> QED BY <1>1, <2>1, CountedStays DEF Same
<1>6. Fits'
  BY <1>0 DEF Fits
<1> QED BY <1>2, <1>3, <1>4, <1>5, <1>6 DEF RInv

(* A step that changes no session; other staging files than theirs are     *)
(* only taken away, and not before all is loaded.                          *)
LEMMA Unclaimed ==
    ASSUME RInv, UNCHANGED <<phase, sess, disk, pend, targets, temps, activeUploads, reservedBytes>>,
           nextReq' <= MaxRequests + 1,
           \/ UNCHANGED <<temp, todo>>
           \/ /\ phase \in {"sweeping", "serving"}
              /\ \A v \in Upload : ~Known(v) => temp'[v] \in {temp[v], None}
    PROVE  RInv'
PROOF
<1>1. ASSUME NEW v \in Upload PROVE Claims(v)'
  BY DEF RInv, Claims, Known, Holds
<1>2. \A v \in Upload : temp'[v] \in {temp[v], None} => (Reopens(v)' => Reopens(v))
  BY DEF Reopens
<1>3. UNCHANGED temp => \A v \in Upload : Reopens(v)' <=> Reopens(v)
  BY DEF Reopens
<1>4. ASSUME NEW v \in Upload PROVE Loads(v)'
  <2>1. Loads(v)
    BY DEF RInv
  <2>2. CASE UNCHANGED <<temp, todo>>
    BY <1>3, <2>1, <2>2 DEF Loads, Known
  <2>3. CASE phase \in {"sweeping", "serving"}
    BY <1>2, <2>1, <2>3 DEF Loads, Known
  <2> QED BY <2>2, <2>3
<1>5. Borne'
  BY DEF RInv, Borne, Known
<1>6. Counted'
  BY CountedStays
<1>7. Fits'
  <2>1. UNCHANGED temp => \A b : Room(b) => Room(b)'
    BY <1>3 DEF Room
  <2> QED BY <2>1 DEF RInv, Fits
<1> QED BY <1>1, <1>4, <1>5, <1>6, <1>7 DEF RInv

(* No reservation is made or given back. *)
Untouched == UNCHANGED <<targets, temps, activeUploads, reservedBytes, nextReq>>

(* A session that ends starts a new time to live (failUpload, abort,       *)
(* expiry and the end of finalizeUpload set ExpiresAt).                    *)
LEMMA EndedDue == ASSUME NEW r \in Record, NEW state PROVE ~Ended(r, state).due
  BY DEF Ended, Record

(* So does one that reconciliation ends. *)
LEMMA ReconciledDue ==
    ASSUME IInv, NEW u \in Upload, Known(u), Unresolved(u), reconciled(u).state # "OPEN"
    PROVE  ~reconciled(u).due
PROOF
<1>0. sess[u] \in Record
  BY Reconciled
<1>1. CASE verifyPublishedUpload(sess[u])
  BY <1>0, <1>1, EndedDue DEF reconciled
<1>2. CASE ~verifyPublishedUpload(sess[u]) /\ temp[u] = None
  BY <1>0, <1>2, EndedDue DEF reconciled
<1>3. CASE ~verifyPublishedUpload(sess[u]) /\ temp[u] # None
  <2>1. PICK r : r = [sess[u] EXCEPT !.state = "OPEN"]
    OBVIOUS
  <2>2. r.state = "OPEN"
    BY <1>0, <2>1 DEF Record
  <2>3. reconciled(u) = r
    BY <1>3, <2>1 DEF reconciled
  <2> QED BY <2>2, <2>3
<1> QED BY <1>1, <1>2, <1>3

(* What is open holds its target, and so does what is left to be released. *)
LEMMA ReconcileHolds ==
    ASSUME IInv, RInv, NEW u \in Upload, Known(u), Unresolved(u), NEW ok \in BOOLEAN, NEW by \in Caller,
           Reconcile(u, ok, by), Frame(u), Kept(u), sess'[u] # None,
           phase \notin {"down", "loading"}, Untouched
    PROVE  RInv'
PROOF
<1>0. Types /\ sess[u].state = "FINALIZING" /\ pend[u].step = "none"
  BY Reconciled DEF IInv, Unresolved
<1>1. PICK r \in Record : r = reconciled(u)
  BY Reconciled
<1>2. /\ r.state \in {"COMPLETE", "OPEN", "FAILED"}
      /\ r.state # "OPEN" => ~r.due
  BY <1>1, Reconciled, ReconciledDue
<1>3. Saved(u, r, ok) /\ IF ok /\ r.state # "OPEN" THEN Then(u, "paths", by) ELSE UNCHANGED pend
  BY <1>1 DEF Reconcile
<1>4. sess'[u] = IF ok THEN r ELSE sess[u]
  BY <1>0, <1>3, SavedFacts
<1>5. pend'[u].step = IF ok /\ r.state # "OPEN" THEN "paths" ELSE "none"
  BY <1>0, <1>3, ThenFacts
<1>6. Holds(u) /\ Holds(u)' /\ isOpenUploadState(sess[u])
  BY <1>0, <1>2, <1>4, <1>5 DEF Holds, isOpenUploadState, OpenStates
<1>7. pend'[u].step \in {"temp", "paths"} => ~sess'[u].due
  BY <1>2, <1>4, <1>5
<1> QED BY <1>6, <1>7, GoesOn DEF Untouched

(* Expiry and abort keep the target until the paths are released. *)
LEMMA EndHolds ==
    ASSUME IInv, RInv, NEW u \in Upload, Known(u), sess[u].state = "OPEN", NEW ok \in BOOLEAN,
           NEW state \in {"EXPIRED", "ABORTED"}, NEW by \in Caller,
           Saved(u, Ended(sess[u], state), ok), IF ok THEN Then(u, "temp", by) ELSE UNCHANGED pend,
           Frame(u), Kept(u), sess'[u] # None, phase \notin {"down", "loading"}, Untouched
    PROVE  RInv'
PROOF
<1>0. Types /\ sess[u] \in Record /\ isOpenUploadState(sess[u])
  BY DEF IInv, Types, Known, isOpenUploadState, OpenStates
<1>1. pend[u].step \notin {"temp", "paths"}
  BY <1>0 DEF IInv, Session, Transfers
<1>2. PICK r \in Record : r = Ended(sess[u], state) /\ ~r.due
  BY <1>0, EndedRecord, EndedDue DEF TerminalStates
<1>3. sess'[u] = IF ok THEN r ELSE sess[u]
  BY <1>0, <1>2, SavedFacts
<1>4. pend'[u].step = IF ok THEN "temp" ELSE pend[u].step
  BY <1>0, ThenFacts
<1>5. Holds(u) /\ Holds(u)'
  BY <1>0, <1>3, <1>4 DEF Holds
<1>6. pend'[u].step \in {"temp", "paths"} => ~sess'[u].due
  BY <1>1, <1>2, <1>3, <1>4
<1> QED BY <1>0, <1>5, <1>6, GoesOn DEF Untouched

(* Cleanup reconciles, expires, or starts to purge what ended. *)
LEMMA SweepHolds ==
    ASSUME IInv, RInv, NEW u \in Upload, NEW a \in Caller, Sweep(a, u)
    PROVE  RInv'
PROOF
<1>0. /\ Types /\ phase \in {"sweeping", "serving"} /\ phase' = phase /\ Untouched
      /\ nextReq <= MaxRequests + 1
  BY DEF IInv, RInv, Borne, Sweep, Steady, peer, Untouched
<1>1. Frame(u) /\ Kept(u)
  BY SweepStep
<1>2. CASE UNCHANGED <<sess, disk, temp, pend>>
  BY <1>0, <1>2, Unclaimed DEF Untouched
<1>3. ASSUME Known(u), Unresolved(u), NEW ok \in BOOLEAN, Reconcile(u, ok, a) PROVE RInv'
  <2>1. sess'[u] # None
    <3>1. sess'[u] = reconciled(u) \/ sess'[u] = sess[u]
      BY <1>0, <1>3, Reconciled DEF Reconcile, Saved, Types
    <3> QED BY <1>3, <3>1, Reconciled, RecordAssumption DEF Known
  <2> QED BY <1>0, <1>1, <1>3, <2>1, ReconcileHolds
<1>4. ASSUME Known(u), sess[u].state = "OPEN", NEW ok \in BOOLEAN,
             Saved(u, Ended(sess[u], "EXPIRED"), ok), IF ok THEN Then(u, "temp", a) ELSE UNCHANGED pend
      PROVE  RInv'
  <2>1. Ended(sess[u], "EXPIRED") \in Record /\ sess[u] \in Record
    BY <1>0, <1>4, EndedRecord DEF TerminalStates, Types, Known
  <2>2. sess'[u] # None
    BY <1>0, <1>4, <2>1, SavedFacts, RecordAssumption
  <2> QED BY <1>0, <1>1, <1>4, <2>2, EndHolds
<1>5. CASE /\ Known(u) /\ ~isOpenUploadState(sess[u]) /\ sess[u].due /\ Then(u, "purge", a)
           /\ UNCHANGED <<sess, disk, temp>>
  <2>1. pend[u].step \notin {"temp", "paths"}
    BY <1>5 DEF RInv, Claims
  <2>2. pend'[u].step = "purge"
    BY <1>0, <1>5, ThenFacts
  <2> QED BY <1>0, <1>1, <1>5, <2>1, <2>2, GoesOn DEF Holds, Known, Untouched
<1> QED BY <1>3, <1>4, <1>5, <1>2 DEF Sweep

(* Whether or not the staging file goes, the target is released next. *)
LEMMA RemoveTempHolds ==
    ASSUME IInv, RInv, NEW u \in Upload, removeSessionTemp(u)
    PROVE  RInv'
PROOF
<1>0. Types /\ Frame(u) /\ Kept(u)
  BY RemoveTempStep DEF IInv, Session1
<1>1. /\ UNCHANGED <<phase, sess, targets, temps, activeUploads, reservedBytes, nextReq>>
      /\ pend[u].step = "temp" /\ Then(u, "paths", pend[u].by)
  BY DEF removeSessionTemp, store, peer
<1>2. pend'[u].step = "paths"
  <2>1. pend[u].by \in Caller \cup {"none", "xfer"}
    BY <1>0 DEF Types
  <2> QED BY <1>0, <1>1, <2>1, ThenFacts
<1>3. Known(u) /\ phase \notin {"down", "loading"}
  BY <1>0, <1>1 DEF IInv, Session, Transfers
<1>4. ~sess[u].due
  BY <1>1, <1>3 DEF RInv, Claims
<1> QED BY <1>0, <1>1, <1>2, <1>3, <1>4, GoesOn DEF Holds, Known

(* The target is free again, and one reservation less is counted. *)
LEMMA ReleaseHolds ==
    ASSUME IInv, RInv, NEW u \in Upload, releasePaths(u)
    PROVE  RInv'
PROOF
<1>0. Types /\ Frame(u) /\ Kept(u)
  BY ReleaseStep DEF IInv, Session1
<1>1. /\ UNCHANGED <<phase, sess, disk, temp, todo, nextReq>>
      /\ pend[u].step = "paths" /\ pend' = [pend EXCEPT ![u] = NoPend]
  BY DEF releasePaths, files, peer
<1>2. pend'[u].step = "none" /\ \A v \in Upload \ {u} : pend'[v] = pend[v]
  BY <1>0, <1>1, NoPendFacts
<1>3. /\ Known(u) /\ phase \in {"sweeping", "serving"} /\ ~isOpenUploadState(sess[u])
      /\ sess[u] \in Record
  BY <1>0, <1>1 DEF IInv, Session, Transfers, Types, Known
<1>4. PICK t \in Target : t = sess[u].target
  BY <1>3 DEF Record
<1>5. targets[t] = u
  BY <1>1, <1>3, <1>4 DEF RInv, Claims, Holds
<1>6. /\ targets' = [targets EXCEPT ![t] = None]
      /\ activeUploads' = activeUploads - 1
      /\ reservedBytes' = reservedBytes - Size(sess[u].content)
      /\ temps' \in {temps, temps \ {u}}
  BY <1>4, <1>5 DEF releasePaths
<1>7. /\ targets \in Tables /\ targets' \in Tables /\ targets'[t] = None
      /\ targets = [targets' EXCEPT ![t] = u]
      /\ \A s \in Target : targets'[s] # None => s # t /\ targets'[s] = targets[s]
      /\ \A s \in Target \ {t} : targets'[s] = targets[s]
  BY <1>5, <1>6 DEF RInv, Borne, Tables
<1>8. ASSUME NEW v \in Upload PROVE Claims(v)'
  <2>1. CASE v = u
    BY <1>1, <1>2, <1>3, <1>4, <1>7, <2>1, Drawable DEF Claims, Known, Holds
  <2>2. CASE v # u /\ Known(v)
    <3>1. (targets[sess[v].target] = v) <=> (targets'[sess[v].target] = v)
      <4>1. sess[v].target \in Target
        BY <1>0, <2>2 DEF Types, Known, Record
      <4> QED BY <1>5, <1>7, <2>2, <4>1, Drawable
    <3>2. isOpenUploadState(sess[v]) => v \in temps'
      BY <1>6, <2>2 DEF RInv, Claims
    <3> QED BY <1>1, <1>2, <2>2, <3>1, <3>2 DEF RInv, Claims, Known, Holds
  <2> QED BY <1>1, <2>1, <2>2 DEF Claims, Known
<1>9. ASSUME NEW v \in Upload PROVE Loads(v)'
  BY <1>1, <1>3 DEF RInv, Loads, Known, Reopens
<1>10. Borne'
  BY <1>1, <1>6, <1>7 DEF RInv, Borne, Known
<1>11. Counted'
  <2>1. IsFiniteSet(Reserved(targets))
    BY DEF RInv, Counted
  <2>2. IsFiniteSet(Reserved(targets'))
    <3>1. Within(targets', sess, targets, sess)
      BY <1>7 DEF Within
    <3> QED BY <2>1, <3>1, BytesLess
  <2>3. /\ Cardinality(Reserved(targets')) \in Nat
        /\ Cardinality(Reserved(targets)) = Cardinality(Reserved(targets')) + 1
        /\ DeclaredBytes(targets', sess) \in Nat
        /\ DeclaredBytes(targets, sess) = DeclaredBytes(targets', sess) + Size(sess[u].content)
    <3>1. Adds(targets', targets, t, u)
      BY <1>5, <1>7 DEF Adds
    <3>2. SameSizes(targets', sess, sess)
      BY DEF SameSizes
    <3> QED BY <2>2, <3>1, <3>2, BytesMore
  <2>4. Size(sess[u].content) \in Nat /\ MaxUploadSessions \in Nat /\ MaxStagingBytes \in Nat
    BY UploadAssumption DEF Size
  <2>5. activeUploads' = Cardinality(Reserved(targets')) /\ activeUploads' <= MaxUploadSessions
    BY <1>6, <2>3, <2>4 DEF RInv, Counted
  <2>6. reservedBytes' = DeclaredBytes(targets', sess) /\ reservedBytes' <= MaxStagingBytes
    BY <1>6, <2>3, <2>4 DEF RInv, Counted
  <2> QED BY <1>1, <2>2, <2>5, <2>6 DEF Counted
<1>12. Fits'
  BY <1>1, <1>3 DEF Fits
<1> QED BY <1>8, <1>9, <1>10, <1>11, <1>12 DEF RInv

(* A session that is forgotten holds nothing, and is not taken up again. *)
LEMMA ForgottenHolds ==
    ASSUME IInv, RInv, NEW u \in Upload, Frame(u), phase \in {"sweeping", "serving"},
           ~Known(u) \/ ~Holds(u), sess'[u] = None, disk'[u] = None \/ ~Reopens(u)',
           temps' = temps \ {u} \/ temps' = temps,
           UNCHANGED <<targets, activeUploads, reservedBytes, nextReq>>
    PROVE  RInv'
PROOF
<1>0. /\ Types /\ phase' = phase
      /\ \A v \in Upload \ {u} : sess'[v] = sess[v] /\ disk'[v] = disk[v]
                                /\ temp'[v] = temp[v] /\ pend'[v] = pend[v]
  BY DEF IInv, Frame
<1>1. \A t \in Target : targets[t] # None => targets[t] \in Upload \ {u}
  BY DEF RInv, Borne, Claims, Tables
<1>2. ASSUME NEW v \in Upload PROVE Claims(v)'
  <2>1. CASE v # u /\ Known(v)
    <3>1. isOpenUploadState(sess[v]) => v \in temps'
      BY <2>1 DEF RInv, Claims
    <3> QED BY <1>0, <2>1, <3>1 DEF RInv, Claims, Known, Holds
  <2> QED BY <1>0, <2>1 DEF Claims, Known
<1>3. ASSUME NEW v \in Upload PROVE Loads(v)'
  <2>1. CASE v = u
    BY <1>0, <2>1 DEF Loads, Known, Reopens
  <2>2. CASE v # u
    BY <1>0, <2>2 DEF RInv, Loads, Known, Reopens
  <2> QED BY <2>1, <2>2
<1>4. Borne'
  BY <1>0, <1>1 DEF RInv, Borne, Known
<1>5. Counted'
  BY <1>0, <1>1, CountedStays
<1>6. Fits'
  BY <1>0 DEF Fits
<1> QED BY <1>2, <1>3, <1>4, <1>5, <1>6 DEF RInv

(* A purge drops the record, or leaves it to be purged again. *)
LEMMA PurgeHolds ==
    ASSUME IInv, RInv, NEW u \in Upload, Purge(u)
    PROVE  RInv'
PROOF
<1>0. Types /\ Frame(u) /\ Kept(u)
  BY PurgeStep DEF IInv, Session1
<1>1. /\ UNCHANGED <<phase, disk, targets, activeUploads, reservedBytes, nextReq>>
      /\ pend[u].step = "purge"
  BY DEF Purge, peer
<1>2. Known(u) /\ phase \in {"sweeping", "serving"} /\ ~isOpenUploadState(sess[u])
  BY <1>0, <1>1 DEF IInv, Session, Transfers, Types
<1>3. ~Holds(u)
  BY <1>1, <1>2 DEF Holds
<1>4. CASE /\ temp' = [temp EXCEPT ![u] = None] /\ sess' = [sess EXCEPT ![u] = None]
           /\ temps' = temps \ {u}
  <2>1. temp'[u] = None /\ sess'[u] = None
    BY <1>0, <1>4 DEF Types
  <2> QED BY <1>0, <1>1, <1>2, <1>3, <1>4, <2>1, ForgottenHolds DEF Reopens
<1>5. CASE pend' = [pend EXCEPT ![u] = NoPend] /\ UNCHANGED <<sess, temps>>
  <2>1. pend'[u].step = "none"
    BY <1>0, <1>5, NoPendFacts
  <2> QED BY <1>0, <1>1, <1>2, <1>3, <1>5, <2>1, GoesOn DEF Holds, Known
<1> QED BY <1>4, <1>5 DEF Purge

(* The purged session leaves the tables. *)
LEMMA ForgetHolds ==
    ASSUME IInv, RInv, NEW u \in Upload, Forget(u)
    PROVE  RInv'
PROOF
<1>0. Types /\ Frame(u)
  BY ForgetStep DEF IInv, Session1
<1>1. /\ UNCHANGED <<phase, sess, temp, targets, temps, activeUploads, reservedBytes, nextReq>>
      /\ pend[u].step = "forget" /\ disk' \in {disk, [disk EXCEPT ![u] = None]}
  BY DEF Forget, store, peer
<1>2. sess[u] = None /\ phase \in {"sweeping", "serving"}
  BY <1>0, <1>1 DEF IInv, Session, Transfers, Types
<1>3. ~Reopens(u)
  BY <1>2 DEF RInv, Loads, Known
<1>4. disk'[u] = None \/ ~Reopens(u)'
  BY <1>0, <1>1, <1>3 DEF Reopens, Types
<1> QED BY <1>0, <1>1, <1>2, <1>4, ForgottenHolds DEF Known

(* A handler at work: its session stays open, or has its paths released. *)
LEMMA HandlerHolds ==
    ASSUME IInv, RInv, NEW u \in Upload, xfer[u].at \notin {"no", "left", "done"}, Session1(u), Untouched,
           \/ sess'[u] # None /\ isOpenUploadState(sess'[u]) /\ pend'[u] = pend[u]
           \/ sess'[u] # None /\ pend'[u].step \in {"temp", "paths"} /\ ~sess'[u].due
    PROVE  RInv'
PROOF
<1>1. /\ Known(u) /\ isOpenUploadState(sess[u]) /\ pend[u].step = "none"
      /\ phase \notin {"down", "loading"}
  BY Running DEF isOpenUploadState
<1>2. Holds(u) /\ Holds(u)'
  BY <1>1 DEF Holds
<1> QED BY <1>1, <1>2, GoesOn DEF Session1, Untouched

(* A checkpoint leaves the session open. *)
LEMMA CheckpointHolds ==
    ASSUME IInv, RInv, NEW u \in Upload, xfer[u].at \in {"recv", "finish"}, Session1(u), Untouched,
           NEW n \in Nat, NEW ok \in BOOLEAN, checkpointUpload(u, n, ok), pend' = pend
    PROVE  RInv'
PROOF
<1>1. Types /\ Known(u) /\ sess[u].state = "OPEN"
  BY Running DEF IInv, Session, Transfers
<1>2. sess'[u] \in Record /\ sess'[u].state = "OPEN"
  BY <1>1, CheckpointFacts
<1> QED BY <1>2, HandlerHolds, RecordAssumption DEF isOpenUploadState, OpenStates

(* So does a chunk, refused or taken. *)
LEMMA ChunkHolds ==
    ASSUME IInv, RInv, NEW u \in Upload, NEW check \in BOOLEAN, TransferChunk(u, check)
    PROVE  RInv'
PROOF
<1>1. Session1(u) /\ Untouched /\ pend' = pend /\ xfer[u].at = "recv"
  BY ChunkStep DEF TransferChunk, Steady, peer, Untouched
<1>2. Known(u) /\ sess[u].state = "OPEN" /\ xfer[u].accepted + 1 \in Nat
  BY <1>1, Running DEF IInv, Session, Transfers
<1>3. \/ UNCHANGED sess
      \/ \E ok \in BOOLEAN : checkpointUpload(u, xfer[u].accepted + 1, ok)
  BY DEF TransferChunk
<1>4. CASE UNCHANGED sess
  BY <1>1, <1>2, <1>4, HandlerHolds DEF Known, isOpenUploadState, OpenStates
<1> QED BY <1>1, <1>2, <1>3, <1>4, CheckpointHolds

(* And the start of the finish. *)
LEMMA EarlyHolds ==
    ASSUME IInv, RInv, NEW u \in Upload, TransferBreaks(u) \/ TransferFinish(u) \/ Finalize(u)
    PROVE  RInv'
PROOF
<1>1. Session1(u) /\ Untouched /\ pend' = pend /\ xfer[u].at \in {"recv", "finish", "finalize"}
  BY BreaksStep, FinishStep, FinalizeStep
     DEF TransferBreaks, TransferFinish, Finalize, Steady, peer, Untouched
<1>2. Types /\ Known(u) /\ sess[u].state = "OPEN" /\ xfer[u].accepted \in Nat /\ sess[u] \in Record
  BY <1>1, Running DEF IInv, Session, Transfers
<1>3. CASE TransferBreaks(u) \/ TransferFinish(u)
  <2>1. PICK ok \in BOOLEAN : checkpointUpload(u, xfer[u].accepted, ok)
    BY <1>3 DEF TransferBreaks, TransferFinish
  <2>2. xfer[u].at \in {"recv", "finish"}
    BY <1>3 DEF TransferBreaks, TransferFinish
  <2> QED BY <1>1, <1>2, <2>1, <2>2, CheckpointHolds
<1>4. CASE Finalize(u)
  <2>1. PICK r : r = [sess[u] EXCEPT !.state = "FINALIZING"]
    OBVIOUS
  <2>2. r \in Record /\ r.state = "FINALIZING"
    BY <1>2, <2>1 DEF Record, OpenStates
  <2>3. UNCHANGED sess \/ \E ok \in BOOLEAN : Saved(u, r, ok)
    BY <1>4, <2>1 DEF Finalize
  <2>4. sess'[u] \in {sess[u], r}
    BY <1>2, <2>2, <2>3, SavedFacts
  <2>5. sess'[u] # None /\ isOpenUploadState(sess'[u])
    BY <1>2, <2>2, <2>4, RecordAssumption DEF isOpenUploadState, OpenStates
  <2> QED BY <1>1, <2>5, HandlerHolds
<1> QED BY <1>3, <1>4

(* A failed upload ends in memory, saved or not, and is to be released. *)
LEMMA FailHolds ==
    ASSUME IInv, RInv, NEW u \in Upload, xfer[u].at \in {"verify", "publish"}, Session1(u), Untouched,
           failUpload(u)
    PROVE  RInv'
PROOF
<1>1. Types /\ Known(u) /\ sess[u] \in Record
  BY Running
<1>2. PICK r \in Record : r = Ended(sess[u], "FAILED") /\ ~r.due
  BY <1>1, EndedRecord, EndedDue DEF TerminalStates
<1>3. sess'[u] = r
  BY <1>1, <1>2 DEF failUpload, Types
<1>4. pend'[u].step = "temp"
  BY <1>1, ThenFacts DEF failUpload
<1> QED BY <1>2, <1>3, <1>4, HandlerHolds, RecordAssumption

(* Verification and publication fail the upload, go on with it, or         *)
(* complete it.                                                            *)
LEMMA LateHolds ==
    ASSUME IInv, RInv, NEW u \in Upload, Verify(u) \/ Publish(u) \/ Unlink(u) \/ Complete(u)
    PROVE  RInv'
PROOF
<1>1. Session1(u) /\ Untouched /\ xfer[u].at \in {"verify", "publish", "unlink", "complete"}
  BY VerifyStep, PublishStep, UnlinkStep, CompleteStep
     DEF Verify, Publish, Unlink, Complete, Steady, store, peer, Untouched
<1>2. Types /\ Known(u) /\ sess[u] \in Record /\ isOpenUploadState(sess[u])
  BY <1>1, Running DEF isOpenUploadState
<1>3. CASE UNCHANGED <<sess, pend>>
  BY <1>1, <1>2, <1>3, HandlerHolds DEF Known
<1>4. CASE failUpload(u) /\ xfer[u].at \in {"verify", "publish"}
  BY <1>1, <1>4, FailHolds
<1>5. CASE sess' = [sess EXCEPT ![u] = Ended(sess[u], "COMPLETE")] /\ Then(u, "paths", "xfer")
  <2>1. PICK r \in Record : r = Ended(sess[u], "COMPLETE") /\ ~r.due
    BY <1>2, EndedRecord, EndedDue DEF TerminalStates
  <2>2. sess'[u] = r /\ pend'[u].step = "paths"
    BY <1>2, <1>5, <2>1, ThenFacts DEF Types
  <2> QED BY <1>1, <2>1, <2>2, HandlerHolds, RecordAssumption
<1>6. CASE Verify(u) \/ Publish(u)
  BY <1>3, <1>4, <1>6 DEF Verify, Publish
<1>7. CASE Unlink(u)
  BY <1>3, <1>7 DEF Unlink, store
<1>8. CASE Complete(u)
  BY <1>3, <1>5, <1>8 DEF Complete
<1> QED BY <1>6, <1>7, <1>8

(* An opened transfer cuts the staging file of a session that is known. *)
LEMMA OpensHolds ==
    ASSUME IInv, RInv, NEW u \in Upload, TransferOpens(u)
    PROVE  RInv'
PROOF
<1>1. /\ Types /\ phase = "serving" /\ nextReq' <= MaxRequests + 1
      /\ UNCHANGED <<phase, sess, disk, pend, targets, temps, activeUploads, reservedBytes>>
  BY DEF IInv, TransferOpens, Serving, store, RInv, Borne
<1>2. CASE UNCHANGED temp
  BY <1>1, <1>2, Unclaimed
<1>3. CASE MayOpen(u) /\ temp' = Truncated(u, sess[u].committed)
  <2>1. Known(u) /\ \A v \in Upload \ {u} : temp'[v] = temp[v]
    BY <1>1, <1>3 DEF MayOpen, Truncated, Types
  <2> QED BY <1>1, <2>1, Unclaimed
<1> QED BY <1>2, <1>3 DEF TransferOpens

(* Request identifiers are drawn up to the bound. *)
LEMMA RequestBound ==
    ASSUME IInv, RInv, UNCHANGED nextReq \/ \E t, c : NewRequest(t, c)
    PROVE  nextReq' <= MaxRequests + 1
PROOF
<1>1. nextReq \in Nat /\ MaxRequests \in Nat /\ nextReq <= MaxRequests + 1
  BY UploadAssumption DEF IInv, Types, RInv, Borne
<1>2. nextReq' = nextReq \/ (nextReq <= MaxRequests /\ nextReq' = nextReq + 1)
  BY DEF NewRequest
<1> QED BY <1>1, <1>2

(* What the client reads makes it draw at most one request identifier. *)
LEMMA ReadsBound ==
    ASSUME IInv, RInv, ClientReads(call.answer) \/ Unavailable
    PROVE  nextReq' <= MaxRequests + 1
PROOF
<1>1. PICK a : a = call.answer
  OBVIOUS
<1>2. CASE Unavailable
  BY <1>2, RequestBound DEF Unavailable, Again, Stop
<1>3. ASSUME Ensured(a) PROVE UNCHANGED nextReq \/ \E t, c : NewRequest(t, c)
  BY <1>3 DEF Ensured
<1>4. CASE ClientReads(a)
  <2>1. CASE client.why = "stale"
    BY <1>4, <2>1, RequestBound DEF ClientReads
  <2>2. CASE client.why = "known"
    BY <1>3, <1>4, <2>2, RequestBound DEF ClientReads, Stop
  <2>3. CASE client.why = "new"
    BY <1>3, <1>4, <2>3, RequestBound DEF ClientReads, Stop
  <2>4. CASE client.why \notin {"stale", "known", "new"}
    BY <1>4, <2>4, RequestBound DEF ClientReads, Stop, Again
  <2> QED BY <2>1, <2>2, <2>3, <2>4
<1> QED BY <1>1, <1>2, <1>4

(* What the client does touches no session. *)
LEMMA ClientHolds ==
    ASSUME IInv, RInv, Client \/ CallReturns
    PROVE  RInv'
PROOF
<1>1. UNCHANGED <<phase, store, files, pend>>
  BY DEF Client, CallReturns, UploadFile, ClientCalls, CallFails, SourceChanged, StreamBreaks,
         ClientCrashes, server
<1>2. nextReq' <= MaxRequests + 1
  <2>1. CASE \E t \in Target : UploadFile(t)
    BY <2>1, RequestBound DEF UploadFile
  <2>2. CASE ClientCalls \/ SourceChanged \/ StreamBreaks \/ ClientCrashes
    BY <2>2, RequestBound DEF ClientCalls, SourceChanged, StreamBreaks, ClientCrashes, Stop
  <2>3. CASE CallFails \/ CallReturns
    BY <2>3, ReadsBound DEF CallFails, CallReturns
  <2> QED BY <2>1, <2>2, <2>3 DEF Client
<1>3. UNCHANGED todo \/ phase = "serving"
  BY DEF Client, CallReturns, UploadFile, ClientCalls, BeginCall, Serving, CallFails, SourceChanged,
         StreamBreaks, ClientCrashes
<1> QED BY <1>1, <1>2, <1>3, Unclaimed DEF store, files

(* Neither do plain calls, the ticker and the end of a transfer. *)
LEMMA PlainHolds ==
    ASSUME IInv, RInv, Plain
    PROVE  RInv'
PROOF
<1>1. /\ phase = "serving"
      /\ UNCHANGED <<phase, sess, disk, pend, targets, temps, activeUploads, reservedBytes, nextReq>>
  BY DEF Plain, PlainChecks, PlainWrites, PlainRemoves, PlainChmod, PlainRemovesTree, PlainEnds,
         Serving, store, files, calls, peer
<1>2. temp' = temp \/ temp' = [v \in Upload |-> None]
  BY DEF Plain, PlainChecks, PlainWrites, PlainRemoves, PlainChmod, PlainRemovesTree, files
<1> QED BY <1>1, <1>2, RequestBound, Unclaimed

(* Steps that touch neither session nor staging file. *)
LEMMA QuietHolds ==
    ASSUME IInv, RInv, EditSource \/ CollectGarbage \/ CreateRefused \/ UNCHANGED vars
                       \/ \E u \in Upload : EndTransfer(u) \/ SendFinish(u)
    PROVE  RInv'
PROOF
<1>1. UNCHANGED <<phase, store, files, pend, nextReq>>
  BY DEF EditSource, CollectGarbage, CreateRefused, EndTransfer, SendFinish, server, peer, vars, calls
<1>2. UNCHANGED todo \/ phase = "serving"
  BY DEF EditSource, CollectGarbage, Serving, CreateRefused, EndTransfer, SendFinish, vars, calls
<1> QED BY <1>1, <1>2, RequestBound, Unclaimed DEF store, files

(* A call that ends or reconciles a session. *)
LEMMA AnswersHold ==
    ASSUME IInv, RInv, CreateAgain \/ GetUploadSession \/ AbortUploadSession
    PROVE  RInv'
PROOF
<1>1. /\ Types /\ phase = "serving" /\ call.op # "none"
      /\ UNCHANGED <<phase, file, xfer, todo, acked, requests, exclusive, source, Others>> /\ Untouched
  BY DEF IInv, CreateAgain, GetUploadSession, AbortUploadSession, MayAct, Serving, Steady, peer,
         Others, Untouched
<1>2. CASE UNCHANGED <<sess, disk, temp, pend>>
  BY <1>1, <1>2, RequestBound, Unclaimed DEF Untouched
<1>3. ASSUME NEW u \in Upload, Known(u), Unresolved(u), NEW ok \in BOOLEAN, Reconcile(u, ok, "call")
      PROVE  RInv'
  <2>1. Frame(u) /\ Kept(u) /\ sess'[u] # None
    BY <1>1, <1>3, ReconcileStep DEF Types, Caller
  <2> QED BY <1>1, <1>3, <2>1, ReconcileHolds DEF Caller
<1>4. CASE CreateAgain
  <2>1. call.request \in 1..MaxRequests /\ requests[call.request] # None
    BY <1>1, <1>4, CallFacts DEF CreateAgain
  <2>2. PICK u \in Upload : u = requests[call.request] /\ Known(u)
    BY <1>1, <2>1 DEF IInv, Peer, Requests, Types
  <2>3. \/ UNCHANGED <<sess, disk, temp, pend>>
        \/ Unresolved(u) /\ \E ok \in BOOLEAN : Reconcile(u, ok, "call")
    BY <1>4, <2>2 DEF CreateAgain
  <2> QED BY <1>2, <1>3, <2>2, <2>3
<1>5. CASE GetUploadSession
  <2>1. PICK u \in Upload : u = call.upload
    BY <1>5, CallFacts DEF GetUploadSession, MayAct
  <2>2. \/ UNCHANGED <<sess, disk, temp, pend>>
        \/ Known(u) /\ Unresolved(u) /\ \E ok \in BOOLEAN : Reconcile(u, ok, "call")
    BY <1>5, <2>1 DEF GetUploadSession
  <2> QED BY <1>2, <1>3, <2>2
<1>6. CASE AbortUploadSession
  <2>1. PICK u \in Upload : u = call.upload
    BY <1>6, CallFacts DEF AbortUploadSession, MayAct
  <2>2. \/ UNCHANGED <<sess, disk, temp, pend>>
        \/ Known(u) /\ Unresolved(u) /\ \E ok \in BOOLEAN : Reconcile(u, ok, "call")
        \/ /\ Known(u) /\ ~active(u) /\ sess[u].state = "OPEN"
           /\ \E ok \in BOOLEAN : /\ Saved(u, Ended(sess[u], "ABORTED"), ok)
                                  /\ IF ok THEN Then(u, "temp", "call") ELSE UNCHANGED pend
           /\ UNCHANGED <<temp, published>>
    BY <1>6, <2>1 DEF AbortUploadSession
  <2>3. ASSUME Known(u), ~active(u), sess[u].state = "OPEN", NEW ok \in BOOLEAN,
               Saved(u, Ended(sess[u], "ABORTED"), ok),
               IF ok THEN Then(u, "temp", "call") ELSE UNCHANGED pend, UNCHANGED <<temp, published>>
        PROVE  RInv'
    <3>1. Frame(u) /\ Kept(u)
      BY <1>1, <2>3, EndStep DEF Types, Caller
    <3>2. Ended(sess[u], "ABORTED") \in Record /\ sess[u] \in Record
      BY <1>1, <2>3, EndedRecord DEF TerminalStates, Types, Known
    <3>3. sess'[u] # None
      BY <1>1, <2>3, <3>2, SavedFacts, RecordAssumption
    <3> QED BY <1>1, <2>3, <3>1, <3>3, EndHolds DEF Caller
  <2> QED BY <1>2, <1>3, <2>2, <2>3
<1> QED BY <1>4, <1>5, <1>6

(* A new session reserves its target and what it declares. *)
LEMMA CreateHolds ==
    ASSUME IInv, RInv, NEW u \in Upload, CreateUploadSession(u)
    PROVE  RInv'
PROOF
<1> DEFINE r == [target |-> call.target, request |-> call.request, content |-> call.content,
                 state |-> "OPEN", committed |-> 0, due |-> FALSE]
<1>0. /\ Types /\ phase = "serving" /\ acked[u] = -1
      /\ call.target \in Target /\ call.content \in Content /\ call.request \in 1..MaxRequests
      /\ UNCHANGED <<phase, file, xfer, pend, nextReq>>
  BY CallFacts DEF CreateUploadSession, MayAct, Serving, newUploadID, peer
<1>1. sess[u] = None /\ disk[u] = None /\ temp[u] = None /\ pend[u].step = "none" /\ ~Known(u)
  BY <1>0 DEF IInv, Session, Drawn, Known
<1>2. /\ r \in Record /\ r.target = call.target /\ r.content = call.content
      /\ isOpenUploadState(r) /\ ~r.due
  BY <1>0 DEF Record, OpenStates, isOpenUploadState
<1>3. /\ targets[call.target] = None /\ activeUploads < MaxUploadSessions
      /\ Size(call.content) <= MaxStagingBytes - reservedBytes
  BY DEF CreateUploadSession, MayCreate, mutationConflicts
<1>4. ASSUME NEW ok \in BOOLEAN, persistRecord(u, r, ok) PROVE \A v \in Upload \ {u} : disk'[v] = disk[v]
  BY <1>0, <1>2, <1>4, Persisted
<1>5. CASE persistRecord(u, r, FALSE) /\ UNCHANGED <<store, temp>>
  <2>1. \A v \in Upload \ {u} : disk'[v] = disk[v]
    BY <1>4, <1>5
  <2>2. \A v \in Upload : Reopens(v)' => Reopens(v)
    BY <1>1, <1>5, <2>1 DEF Reopens
  <2>3. ASSUME NEW v \in Upload PROVE Claims(v)' /\ Loads(v)'
    BY <1>0, <1>5, <2>2 DEF RInv, Claims, Loads, Known, Holds, store
  <2>4. Counted'
    BY <1>5, CountedStays DEF store
  <2>5. Borne' /\ Fits'
    BY <1>0, <1>5 DEF RInv, Borne, Fits, Known, store
  <2> QED BY <2>3, <2>4, <2>5 DEF RInv
<1>6. CASE /\ persistRecord(u, r, TRUE)
           /\ sess' = [sess EXCEPT ![u] = r]
           /\ temp' = [temp EXCEPT ![u] = [len |-> 0, synced |-> 0, good |-> TRUE]]
           /\ targets' = [targets EXCEPT ![r.target] = u]
           /\ temps' = temps \cup {u}
           /\ activeUploads' = activeUploads + 1
           /\ reservedBytes' = reservedBytes + Size(r.content)
  <2>0. PICK t \in Target : t = call.target
    BY <1>0
  <2>1. PICK s \in Record : s = r
    BY <1>2
  <2>2. /\ sess'[u] = s /\ s # None /\ s.target = t /\ s.content = call.content
        /\ isOpenUploadState(s) /\ ~s.due
        /\ \A v \in Upload \ {u} : sess'[v] = sess[v] /\ disk'[v] = disk[v] /\ temp'[v] = temp[v]
    BY <1>0, <1>2, <1>4, <1>6, <2>0, <2>1, RecordAssumption DEF Types
  <2>3. /\ targets \in Tables /\ targets' \in Tables /\ targets[t] = None /\ targets'[t] = u
        /\ \A x \in Target \ {t} : targets'[x] = targets[x]
    BY <1>2, <1>3, <1>6, <2>0 DEF RInv, Borne, Tables
  <2>4. \A x \in Target : targets[x] # None => targets[x] \in Upload \ {u}
    BY <1>1, <2>3 DEF RInv, Borne, Tables
  <2>5. ASSUME NEW v \in Upload PROVE Claims(v)'
    <3>1. CASE v = u
      BY <1>0, <1>1, <1>6, <2>2, <2>3, <3>1 DEF Claims, Known, Holds
    <3>2. CASE v # u /\ Known(v)
      <4>1. sess[v].target \in Target
        BY <1>0, <3>2 DEF Types, Known, Record
      <4>2. (targets'[sess[v].target] = v) <=> (targets[sess[v].target] = v)
        BY <2>3, <3>2, <4>1, Drawable
      <4>3. isOpenUploadState(sess[v]) => v \in temps'
        BY <1>6, <3>2 DEF RInv, Claims
      <4> QED BY <1>0, <2>2, <3>2, <4>2, <4>3 DEF RInv, Claims, Known, Holds
    <3> QED BY <2>2, <3>1, <3>2 DEF Claims, Known
  <2>6. ASSUME NEW v \in Upload PROVE Loads(v)'
    BY <1>0, <2>2 DEF RInv, Loads, Known, Reopens
  <2>7. Borne'
    <3>1. ASSUME NEW x \in Target, targets'[x] # None
          PROVE  sess'[targets'[x]] # None /\ sess'[targets'[x]].target = x
      <4>1. CASE x = t
        BY <2>2, <2>3, <4>1
      <4>2. CASE x # t
        BY <2>2, <2>3, <2>4, <3>1, <4>2 DEF RInv, Borne, Known
      <4> QED BY <4>1, <4>2
    <3> QED BY <1>0, <1>6, <2>3, <3>1 DEF RInv, Borne, Known
  <2>8. Counted'
    <3>1. \A x \in Target : targets[x] # None =>
             Size(sess[targets[x]].content) = Size(sess'[targets[x]].content)
      BY <2>2, <2>4
    <3>2. IsFiniteSet(Reserved(targets))
      BY DEF RInv, Counted
    <3>3. /\ IsFiniteSet(Reserved(targets')) /\ Cardinality(Reserved(targets)) \in Nat
          /\ Cardinality(Reserved(targets')) = Cardinality(Reserved(targets)) + 1
          /\ DeclaredBytes(targets, sess) \in Nat
          /\ DeclaredBytes(targets', sess') = DeclaredBytes(targets, sess) + Size(sess'[u].content)
      <4>1. Adds(targets, targets', t, u)
        BY <2>3 DEF Adds
      <4>2. SameSizes(targets, sess, sess')
        BY <3>1 DEF SameSizes
      <4> QED BY <3>2, <4>1, <4>2, BytesMore
    <3>4. PICK n \in Nat : n = Size(call.content)
      BY UploadAssumption DEF Size
    <3>5. Size(sess'[u].content) = n /\ Size(r.content) = n
      BY <1>2, <2>2, <3>4
    <3>6. MaxUploadSessions \in Nat /\ MaxStagingBytes \in Nat
      BY UploadAssumption
    <3>7. activeUploads' = Cardinality(Reserved(targets')) /\ activeUploads' <= MaxUploadSessions
      BY <1>3, <1>6, <3>3, <3>6 DEF RInv, Counted
    <3>8. reservedBytes' = DeclaredBytes(targets', sess') /\ reservedBytes' <= MaxStagingBytes
      BY <1>3, <1>6, <3>3, <3>4, <3>5, <3>6 DEF RInv, Counted
    <3> QED BY <3>3, <3>7, <3>8 DEF Counted
  <2>9. Fits'
    BY <1>0 DEF Fits
  <2> QED BY <2>5, <2>6, <2>7, <2>8, <2>9 DEF RInv
<1>7. \/ persistRecord(u, r, FALSE) /\ UNCHANGED <<store, temp>>
      \/ /\ persistRecord(u, r, TRUE)
         /\ sess' = [sess EXCEPT ![u] = r]
         /\ temp' = [temp EXCEPT ![u] = [len |-> 0, synced |-> 0, good |-> TRUE]]
         /\ targets' = [targets EXCEPT ![r.target] = u]
         /\ temps' = temps \cup {u}
         /\ activeUploads' = activeUploads + 1
         /\ reservedBytes' = reservedBytes + Size(r.content)
  BY DEF CreateUploadSession
<1> QED BY <1>5, <1>6, <1>7

-----------------------------------------------------------------------------
(* Crash, restart and what is taken up again. *)

(* A table that fits goes on to fit when no more is taken up again. *)
LEMMA RoomStays ==
    ASSUME NEW b, Room(b), \A v \in Upload : disk'[v] = disk[v] \/ Same(disk'[v], disk[v]),
           \A v \in Upload : Reopens(v)' => Reopens(v)
    PROVE  Room(b)'
PROOF
<1>1. \A t \in Target : b[t] # None => b[t] \in Upload
  BY DEF Room, Tables
<1>2. DeclaredBytes(b, disk) = DeclaredBytes(b, disk')
  <2>1. \A t \in Target : b[t] # None => Size(disk[b[t]].content) = Size(disk'[b[t]].content)
    BY <1>1 DEF Same
  <2> QED BY <2>1, BytesSame DEF Room
<1>3. ASSUME NEW v \in Upload, Reopens(v)' PROVE b[disk'[v].target] = v
  <2>1. Reopens(v) /\ disk'[v].target = disk[v].target
    BY <1>3 DEF Same
  <2> QED BY <2>1 DEF Room
<1> QED BY <1>2, <1>3 DEF Room

(* Time makes a session due, in memory and in the record, and no more. *)
LEMMA TickFacts ==
    ASSUME IInv, NEW u \in Upload, Tick(u)
    PROVE  /\ Frame(u) /\ UNCHANGED <<phase, xfer, temp, pend>>
           /\ \A v \in Upload \ {u} : sess'[v] = sess[v] /\ disk'[v] = disk[v]
           /\ Known(u) => sess'[u] # None /\ Same(sess'[u], sess[u]) /\ sess'[u].state = sess[u].state
           /\ ~Known(u) => sess'[u] = None
           /\ \A v \in Upload : disk'[v] = disk[v] \/ Same(disk'[v], disk[v])
           /\ \A v \in Upload : /\ Reopens(v)' <=> Reopens(v)
                                /\ Known(v)' <=> Known(v)
                                /\ disk'[v] = None <=> disk[v] = None
PROOF
<1>0. Types /\ Frame(u) /\ UNCHANGED <<phase, temp, pend, xfer>>
  BY TickStep DEF IInv, Session1, Tick, Steady, calls
<1>1. \A v \in Upload \ {u} : sess'[v] = sess[v] /\ disk'[v] = disk[v]
  BY <1>0 DEF Frame
<1>2. /\ Known(u) => sess'[u] # None /\ Same(sess'[u], sess[u]) /\ sess'[u].state = sess[u].state
      /\ ~Known(u) => sess'[u] = None
  <2>1. CASE Known(u)
    <3>1. PICK r \in Record : r = sess[u]
      BY <1>0, <2>1 DEF Types, Known
    <3>2. PICK s : s = [r EXCEPT !.due = TRUE]
      OBVIOUS
    <3>3. sess'[u] = s
      BY <1>0, <2>1, <3>1, <3>2 DEF Tick, Types
    <3>4. s \in Record /\ Same(s, r) /\ s.state = r.state
      BY <3>2, DueRecord
    <3> QED BY <2>1, <3>1, <3>3, <3>4, RecordAssumption
  <2>2. CASE ~Known(u)
    BY <2>2 DEF Tick, Known
  <2> QED BY <2>1, <2>2
<1>3. /\ disk[u] # None => /\ disk'[u] # None /\ Same(disk'[u], disk[u])
                           /\ disk'[u].state = disk[u].state /\ disk'[u].committed = disk[u].committed
      /\ disk[u] = None => disk'[u] = None
  <2>1. CASE disk[u] # None
    <3>1. PICK r \in Record : r = disk[u]
      BY <1>0, <2>1 DEF Types
    <3>2. PICK s : s = [r EXCEPT !.due = TRUE]
      OBVIOUS
    <3>3. disk'[u] = s
      BY <1>0, <2>1, <3>1, <3>2 DEF Tick, Types
    <3>4. s \in Record /\ Same(s, r) /\ s.state = r.state /\ s.committed = r.committed
      BY <3>2, DueRecord
    <3> QED BY <3>1, <3>3, <3>4, RecordAssumption
  <2>2. CASE disk[u] = None
    BY <2>2 DEF Tick
  <2> QED BY <2>1, <2>2
<1>4. \A v \in Upload : Reopens(v)' <=> Reopens(v)
  BY <1>0, <1>1, <1>3 DEF Reopens, isOpenUploadState
<1>5. \A v \in Upload : (Known(v)' <=> Known(v)) /\ (disk'[v] = None <=> disk[v] = None)
  BY <1>1, <1>2, <1>3 DEF Known
<1> QED BY <1>0, <1>1, <1>2, <1>3, <1>4, <1>5

(* Time makes a session due and touches no reservation. *)
LEMMA TickHolds ==
    ASSUME IInv, RInv, NEW u \in Upload, Tick(u)
    PROVE  RInv'
PROOF
<1>0. /\ Types /\ Frame(u)
      /\ UNCHANGED <<phase, temp, todo, pend, targets, temps, activeUploads, reservedBytes, nextReq>>
      /\ pend[u].step = "none"
  BY TickStep DEF IInv, Session1, Tick, Steady, calls, peer, NoPend
<1>1. \A v \in Upload \ {u} : sess'[v] = sess[v] /\ disk'[v] = disk[v]
  BY TickFacts
<1>2. /\ Known(u) => sess'[u] # None /\ Same(sess'[u], sess[u]) /\ sess'[u].state = sess[u].state
      /\ ~Known(u) => sess'[u] = None
  BY TickFacts
<1>3. \A v \in Upload : disk'[v] = disk[v] \/ Same(disk'[v], disk[v])
  BY TickFacts
<1>4. \A v \in Upload : Reopens(v)' <=> Reopens(v)
  BY TickFacts
<1>5. \A v \in Upload : (Known(v)' <=> Known(v)) /\ (disk'[v] = None <=> disk[v] = None)
  BY TickFacts
<1>6. ASSUME NEW v \in Upload PROVE Claims(v)'
  <2>1. CASE v = u
    BY <1>0, <1>2, <2>1 DEF RInv, Claims, Known, Holds, Same, isOpenUploadState
  <2>2. CASE v # u
    BY <1>0, <1>1, <2>2 DEF RInv, Claims, Known, Holds
  <2> QED BY <2>1, <2>2
<1>7. ASSUME NEW v \in Upload PROVE Loads(v)'
  <2>1. Known(v) => (isOpenUploadState(sess'[v]) <=> isOpenUploadState(sess[v]))
    BY <1>1, <1>2 DEF isOpenUploadState
  <2> QED BY <1>0, <1>4, <1>5, <2>1 DEF RInv, Loads
<1>8. \A t \in Target : targets[t] # None =>
         /\ sess'[targets[t]] # None /\ sess'[targets[t]].target = t
         /\ sess'[targets[t]].content = sess[targets[t]].content
  BY <1>1, <1>2 DEF RInv, Borne, Tables, Known, Same
<1>9. Borne'
  BY <1>0, <1>8 DEF RInv, Borne, Known
<1>10. Counted'
  BY <1>0, <1>8, CountedStays
<1>11. Fits'
  <2>1. \A b : Room(b) => Room(b)'
    BY <1>1, <1>3, <1>4, RoomStays
  <2> QED BY <1>0, <2>1 DEF RInv, Fits
<1> QED BY <1>6, <1>7, <1>9, <1>10, <1>11 DEF RInv

(* Nothing is known while the controller is down. *)
LEMMA DownHolds ==
    ASSUME RInv, phase' = "down", Fits', \A v \in Upload : sess'[v] = None,
           targets' = [t \in Target |-> None], temps' = {}, activeUploads' = 0, reservedBytes' = 0,
           nextReq' = nextReq
    PROVE  RInv'
PROOF
<1>1. ASSUME NEW v \in Upload PROVE Claims(v)' /\ Loads(v)'
  BY DEF Claims, Loads, Known
<1>2. Borne'
  BY DEF RInv, Borne, Tables
<1>3. Counted'
  <2>1. \A t \in Target : targets'[t] = None
    OBVIOUS
  <2>2. IsFiniteSet(Reserved(targets')) /\ Cardinality(Reserved(targets')) = 0 /\ DeclaredBytes(targets', sess') = 0
    BY <2>1, BytesNone
  <2>3. 0 <= MaxUploadSessions /\ 0 <= MaxStagingBytes
    BY UploadAssumption
  <2> QED BY <2>2, <2>3 DEF Counted
<1> QED BY <1>1, <1>2, <1>3 DEF RInv

(* The table of a crash: what its sessions held of what a start takes up   *)
(* again.  Were there more to take up, two uploads might want one target.  *)
LEMMA RoomAtCrash ==
    ASSUME IInv, RInv, EndsAreSaved, phase \in {"sweeping", "serving"}
    PROVE  \E b \in Tables : Room(b)
PROOF
<1>1. PICK b : b = [t \in Target |-> IF targets[t] # None /\ Reopens(targets[t]) THEN targets[t] ELSE None]
  OBVIOUS
<1>2. b \in Tables /\ \A t \in Target : b[t] # None => b[t] = targets[t] /\ targets[t] \in Upload /\ Reopens(b[t])
  BY <1>1 DEF RInv, Borne, Tables
<1>3. Within(b, disk, targets, sess)
  <2> SUFFICES ASSUME NEW t \in Target, b[t] # None
      PROVE  targets[t] # None /\ Size(disk[b[t]].content) = Size(sess[targets[t]].content)
    BY DEF Within
  <2>1. Known(targets[t]) /\ disk[targets[t]] # None /\ targets[t] \in Upload /\ targets[t] # None
    BY <1>2 DEF RInv, Borne, Reopens
  <2>2. Same(sess[targets[t]], disk[targets[t]])
    BY <2>1 DEF IInv, Session, Records
  <2> QED BY <1>2, <2>1, <2>2 DEF Same
<1>4. /\ IsFiniteSet(Reserved(targets)) /\ Cardinality(Reserved(targets)) <= MaxUploadSessions
      /\ DeclaredBytes(targets, sess) <= MaxStagingBytes
  BY DEF RInv, Counted
<1>5. /\ IsFiniteSet(Reserved(b))
      /\ Cardinality(Reserved(b)) \in Nat /\ Cardinality(Reserved(targets)) \in Nat
      /\ Cardinality(Reserved(b)) <= Cardinality(Reserved(targets))
      /\ DeclaredBytes(b, disk) \in Nat /\ DeclaredBytes(targets, sess) \in Nat
      /\ DeclaredBytes(b, disk) <= DeclaredBytes(targets, sess)
  BY <1>3, <1>4, BytesLess
<1>6. Cardinality(Reserved(b)) <= MaxUploadSessions /\ DeclaredBytes(b, disk) <= MaxStagingBytes
  BY <1>4, <1>5, UploadAssumption
<1>7. ASSUME NEW u \in Upload, Reopens(u) PROVE b[disk[u].target] = u
  <2>1. Known(u)
    BY <1>7 DEF RInv, Loads
  <2>2. Holds(u)
    BY <1>7, <2>1 DEF EndsAreSaved, Holds
  <2>3. targets[sess[u].target] = u
    BY <2>1, <2>2 DEF RInv, Claims
  <2>4. disk[u] # None /\ disk[u].target = sess[u].target /\ disk[u].target \in Target
    BY <1>7, <2>1 DEF Reopens, IInv, Session, Records, Same, Types, Record
  <2> QED BY <1>1, <1>7, <2>3, <2>4, Drawable
<1> QED BY <1>2, <1>5, <1>6, <1>7 DEF Room

(* A crash forgets the tables: what is left to take up fits into the old   *)
(* one.                                                                    *)
LEMMA CrashHolds ==
    ASSUME IInv, RInv, EndsAreSaved, Crash
    PROVE  RInv'
PROOF
<1>0. /\ Types /\ phase' = "down" /\ phase # "down" /\ disk' = disk /\ nextReq' = nextReq
      /\ sess' = [u \in Upload |-> None]
      /\ targets' = [t \in Target |-> None] /\ temps' = {} /\ activeUploads' = 0 /\ reservedBytes' = 0
  BY DEF IInv, Crash, peer
<1>1. PICK keep \in [Upload -> 0..Bytes] :
          /\ \A u \in Upload : IF temp[u] = None THEN keep[u] = 0
                               ELSE keep[u] \in temp[u].synced..temp[u].len
          /\ temp' = [u \in Upload |-> IF temp[u] = None THEN None
                                       ELSE [temp[u] EXCEPT !.len = keep[u]]]
  BY DEF Crash
<1>2. ASSUME NEW u \in Upload, Reopens(u)' PROVE Reopens(u)
  <2>1. temp[u] # None
    BY <1>1, <1>2 DEF Reopens
  <2>2. temp[u] \in Staged /\ temp[u].synced \in Nat /\ temp[u].len \in Nat
    BY <1>0, <2>1 DEF Types, Staged
  <2>3. PICK k \in Nat : k = keep[u] /\ k <= temp[u].len
    BY <1>1, <2>1, <2>2, UploadAssumption
  <2>4. temp'[u].len = k
    BY <1>1, <2>1, <2>2, <2>3 DEF Staged
  <2>5. disk[u] # None /\ disk[u].committed \in Nat /\ isOpenUploadState(disk[u]) /\ disk[u].committed <= k
    BY <1>0, <1>2, <2>4 DEF Reopens, Types, Record
  <2> QED BY <2>1, <2>2, <2>3, <2>5 DEF Reopens
<1>3. \E b \in Tables : Room(b)
  <2>1. CASE phase = "loading"
    BY <2>1 DEF RInv, Fits
  <2>2. CASE phase \in {"sweeping", "serving"}
    BY <2>2, RoomAtCrash
  <2> QED BY <1>0, <2>1, <2>2 DEF Types
<1>4. Fits'
  <2>1. \A b : Room(b) => Room(b)'
    BY <1>0, <1>2, RoomStays
  <2> QED BY <1>3, <2>1 DEF Fits
<1> QED BY <1>0, <1>4, DownHolds

(* A restart lists the records to load. *)
LEMMA RestartHolds ==
    ASSUME IInv, RInv, Restart
    PROVE  RInv'
PROOF
<1>0. /\ Types /\ phase = "down" /\ phase' = "loading"
      /\ UNCHANGED <<sess, disk, temp, pend, targets, temps, activeUploads, reservedBytes, nextReq>>
      /\ todo' = [todo EXCEPT !["gc"] = {u \in Upload : disk[u] # None}]
  BY DEF IInv, Restart, store, files, peer
<1>1. todo'["gc"] = {u \in Upload : disk[u] # None}
  BY <1>0 DEF Types, Caller
<1>2. \A v \in Upload : ~Known(v)
  BY <1>0 DEF IInv, Session, Transfers, Known
<1>3. ASSUME NEW v \in Upload PROVE Claims(v)' /\ Loads(v)'
  BY <1>0, <1>1, <1>2 DEF Claims, Loads, Known
<1>4. Borne'
  BY <1>0 DEF RInv, Borne, Known
<1>5. Counted'
  BY <1>0, CountedStays
<1>6. Fits'
  <2>1. \A b : Room(b) => Room(b)'
    BY <1>0 DEF Room, Reopens
  <2> QED BY <1>0, <2>1 DEF RInv, Fits
<1> QED BY <1>3, <1>4, <1>5, <1>6 DEF RInv

(* When all is loaded there is none left to take up. *)
LEMMA LoadedHolds ==
    ASSUME IInv, RInv, Loaded
    PROVE  RInv'
PROOF
<1>0. /\ phase \in {"loading", "sweeping"} /\ phase' \in {"sweeping", "serving"} /\ todo["gc"] = {}
      /\ UNCHANGED <<sess, disk, temp, pend, targets, temps, activeUploads, reservedBytes, nextReq>>
  BY DEF Loaded, store, files, peer
<1>1. ASSUME NEW v \in Upload PROVE Claims(v)' /\ Loads(v)'
  BY <1>0 DEF RInv, Claims, Loads, Known, Holds, Reopens
<1>2. Borne'
  BY <1>0 DEF RInv, Borne, Known
<1>3. Counted'
  BY <1>0, CountedStays
<1>4. Fits'
  BY <1>0 DEF Fits
<1> QED BY <1>1, <1>2, <1>3, <1>4 DEF RInv

(* What is taken up again fits into the table: one upload per target. *)
LEMMA LoadHolds ==
    ASSUME IInv, RInv, NEW u \in Upload, LoadSession(u)
    PROVE  RInv'
PROOF
<1>0. /\ Types /\ phase = "loading" /\ u \in todo["gc"] /\ disk[u] # None /\ disk[u] \in Record
      /\ UNCHANGED <<pend, nextReq>> /\ ~Known(u)
  BY DEF IInv, LoadSession, Session, Places, Types, peer, RInv, Loads
<1>1. PICK r \in Record : r = recovered(u)
  BY <1>0, RecoveredFacts
<1>2. /\ Same(r, disk[u]) /\ r.committed = disk[u].committed /\ r.committed \in Nat
      /\ isOpenUploadState(r) <=> r.state = "OPEN"
      /\ r.state = "OPEN" => temp[u] # None /\ temp[u].len >= disk[u].committed
  BY <1>0, <1>1, RecoveredFacts DEF isOpenUploadState, OpenStates, Record
<1>3. isOpenUploadState(r) => isOpenUploadState(disk[u])
  BY <1>1 DEF recovered
<1>4. /\ temp' = IF isOpenUploadState(r) THEN Truncated(u, r.committed)
                 ELSE IF r.state \in {"COMPLETE"} \/ ~isOpenUploadState(disk[u])
                      THEN [temp EXCEPT ![u] = None] ELSE temp
  BY <1>1 DEF LoadSession
<1>5. /\ \A v \in Upload \ {u} : temp'[v] = temp[v]
      /\ isOpenUploadState(r) => temp'[u] # None /\ temp'[u].len = r.committed
      /\ ~isOpenUploadState(r) => temp'[u] \in {temp[u], None}
  <2>1. CASE isOpenUploadState(r)
    BY <1>0, <1>2, <1>4, <2>1, TruncatedFacts
  <2>2. CASE ~isOpenUploadState(r)
    BY <1>0, <1>4, <2>2 DEF Types
  <2> QED BY <2>1, <2>2
<1>6. isOpenUploadState(r) => Reopens(u)
  BY <1>0, <1>2, <1>3 DEF Reopens
<1>7. ASSUME \A v \in Upload \ {u} : disk'[v] = disk[v], disk'[u] \in {disk[u], r}
      PROVE  /\ \A v \in Upload : Reopens(v)' => Reopens(v)
             /\ \A b : Room(b) => Room(b)'
  <2>1. ASSUME NEW v \in Upload, Reopens(v)' PROVE Reopens(v)
    <3>1. CASE v # u
      BY <1>5, <1>7, <2>1, <3>1 DEF Reopens
    <3>2. CASE v = u /\ isOpenUploadState(r)
      BY <1>6, <3>2
    <3>3. CASE v = u /\ ~isOpenUploadState(r)
      BY <1>5, <1>7, <2>1, <3>3 DEF Reopens
    <3> QED BY <3>1, <3>2, <3>3
  <2> QED BY <1>2, <1>7, <2>1, RoomStays
<1>8. CASE /\ r # disk[u] /\ persistRecord(u, r, FALSE)
           /\ phase' = "down"
           /\ sess' = [v \in Upload |-> None]
           /\ targets' = [v \in Target |-> None]
           /\ temps' = {} /\ activeUploads' = 0 /\ reservedBytes' = 0
  <2>1. \A v \in Upload \ {u} : disk'[v] = disk[v]
    BY <1>0, <1>8, Persisted
  <2>2. disk'[u] \in {disk[u], r}
    BY <1>0, <1>8, Persisted
  <2>3. Fits'
    BY <1>0, <1>7, <1>8, <2>1, <2>2 DEF RInv, Fits
  <2> QED BY <1>0, <1>8, <2>3, DownHolds
<1>9. CASE /\ IF r = disk[u] THEN UNCHANGED <<disk, troubles>> ELSE persistRecord(u, r, TRUE)
           /\ sess' = [sess EXCEPT ![u] = r]
           /\ IF isOpenUploadState(r)
              THEN /\ targets' = [targets EXCEPT ![r.target] = u]
                   /\ temps' = temps \cup {u}
                   /\ activeUploads' = activeUploads + 1
                   /\ reservedBytes' = reservedBytes + Size(r.content)
              ELSE UNCHANGED <<targets, temps, activeUploads, reservedBytes>>
           /\ todo' = [todo EXCEPT !["gc"] = @ \ {u}]
           /\ UNCHANGED phase
  <2>1. /\ \A v \in Upload \ {u} : disk'[v] = disk[v] /\ sess'[v] = sess[v]
        /\ disk'[u] = r /\ sess'[u] = r /\ r # None
        /\ todo'["gc"] = todo["gc"] \ {u} /\ phase' = "loading"
    <3>1. disk'[u] = r /\ \A v \in Upload \ {u} : disk'[v] = disk[v]
      BY <1>0, <1>9, Persisted
    <3> QED BY <1>0, <1>9, <3>1, RecordAssumption DEF Types, Caller
  <2>2. PICK b \in Tables : Room(b) /\ Room(b)'
    BY <1>0, <1>7, <2>1 DEF RInv, Fits
  <2>3. \A v \in Upload : pend[v].step = "none"
    BY <1>0 DEF IInv, Session, Transfers
  <2>4. ASSUME NEW x \in Target, targets[x] # None
        PROVE  /\ targets[x] \in Upload \ {u} /\ targets[x] = b[x]
               /\ sess'[targets[x]] # None /\ sess'[targets[x]].target = x
               /\ sess'[targets[x]].content = sess[targets[x]].content
               /\ disk'[b[x]].content = sess[targets[x]].content
    <3>1. PICK v \in Upload : v = targets[x] /\ Known(v) /\ sess[v].target = x
      BY <2>4 DEF RInv, Borne, Tables
    <3>2. v # u /\ sess'[v] = sess[v] /\ disk'[v] = disk[v]
      BY <1>0, <2>1, <3>1
    <3>3. isOpenUploadState(sess[v])
      BY <2>3, <3>1 DEF RInv, Claims, Holds
    <3>4. Reopens(v)
      BY <1>0, <3>1, <3>3 DEF RInv, Loads
    <3>5. disk[v] # None /\ Same(sess[v], disk[v])
      BY <3>1, <3>4 DEF Reopens, IInv, Session, Records
    <3>6. b[x] = v
      BY <2>2, <3>1, <3>4, <3>5 DEF Room, Same
    <3> QED BY <3>1, <3>2, <3>5, <3>6 DEF Known, Same
  <2>5. ASSUME NEW v \in Upload, v # u PROVE Loads(v)'
    BY <1>0, <1>5, <2>1, <2>5 DEF RInv, Loads, Known, Reopens
  <2>6. Fits'
    BY <2>2 DEF Fits
  <2>7. CASE ~isOpenUploadState(r)
    <3>1. UNCHANGED <<targets, temps, activeUploads, reservedBytes>>
      BY <1>9, <2>7
    <3>2. r.target \in Target
      BY DEF Record
    <3>3. Claims(u)'
      BY <1>0, <2>1, <2>3, <2>4, <2>7, <3>1, <3>2, Drawable DEF Claims, Known, Holds
    <3>4. ASSUME NEW v \in Upload, v # u PROVE Claims(v)'
      BY <1>0, <2>1, <3>1, <3>4 DEF RInv, Claims, Known, Holds
    <3>5. Loads(u)'
      BY <2>1, <2>7 DEF Loads, Known
    <3>6. Borne'
      BY <1>0, <2>4, <3>1 DEF RInv, Borne, Known
    <3>7. Counted'
      BY <2>4, <3>1, CountedStays
    <3> QED BY <2>5, <2>6, <3>3, <3>4, <3>5, <3>6, <3>7 DEF RInv
  <2>8. CASE isOpenUploadState(r)
    <3>1. PICK t \in Target : t = r.target
      BY DEF Record
    <3>2. b[t] = u
      BY <1>2, <1>6, <2>2, <2>8, <3>1 DEF Room, Same
    <3>3. targets[t] = None
      BY <2>4, <3>2
    <3>4. /\ targets \in Tables /\ targets' \in Tables /\ targets'[t] = u
          /\ \A x \in Target \ {t} : targets'[x] = targets[x]
          /\ temps' = temps \cup {u}
          /\ activeUploads' = activeUploads + 1
          /\ reservedBytes' = reservedBytes + Size(r.content)
      BY <1>9, <2>8, <3>1 DEF RInv, Borne, Tables
    <3>5. Claims(u)'
      BY <1>0, <2>1, <2>3, <2>8, <3>1, <3>4 DEF Claims, Known, Holds
    <3>6. ASSUME NEW v \in Upload, v # u PROVE Claims(v)'
      <4>1. CASE Known(v)
        <5>1. sess[v].target \in Target
          BY <1>0, <4>1 DEF Types, Known, Record
        <5>2. (targets'[sess[v].target] = v) <=> (targets[sess[v].target] = v)
          BY <3>3, <3>4, <3>6, <5>1, Drawable
        <5>3. isOpenUploadState(sess[v]) => v \in temps'
          BY <3>4, <4>1 DEF RInv, Claims
        <5> QED BY <1>0, <2>1, <3>6, <4>1, <5>2, <5>3 DEF RInv, Claims, Known, Holds
      <4> QED BY <2>1, <3>6, <4>1 DEF Claims, Known
    <3>7. Loads(u)'
      <4>1. disk'[u] # None /\ isOpenUploadState(disk'[u]) /\ temp'[u] # None
            /\ temp'[u].len >= disk'[u].committed
        BY <1>2, <1>5, <2>1, <2>8
      <4> QED BY <2>1, <4>1 DEF Loads, Known, Reopens
    <3>8. Borne'
      <4>1. ASSUME NEW x \in Target, targets'[x] # None
            PROVE  sess'[targets'[x]] # None /\ sess'[targets'[x]].target = x
        BY <2>1, <2>4, <3>1, <3>4, <4>1
      <4> QED BY <1>0, <3>4, <4>1 DEF RInv, Borne, Known
    <3>9. Counted'
      <4>1. Adds(targets, targets', t, u)
        BY <3>3, <3>4 DEF Adds
      <4>2. SameSizes(targets, sess, sess')
        BY <2>4 DEF SameSizes
      <4>3. IsFiniteSet(Reserved(targets))
        BY DEF RInv, Counted
      <4>4. /\ IsFiniteSet(Reserved(targets'))
            /\ Cardinality(Reserved(targets')) = Cardinality(Reserved(targets)) + 1
            /\ DeclaredBytes(targets', sess') = DeclaredBytes(targets, sess) + Size(sess'[u].content)
        BY <4>1, <4>2, <4>3, BytesMore
      <4>5. Within(targets', sess', b, disk')
        <5> SUFFICES ASSUME NEW x \in Target, targets'[x] # None
            PROVE  b[x] # None /\ Size(sess'[targets'[x]].content) = Size(disk'[b[x]].content)
          BY DEF Within
        <5>1. CASE x = t
          BY <2>1, <3>2, <3>4, <5>1, Drawable
        <5>2. CASE x # t
          BY <2>4, <3>4, <5>2
        <5> QED BY <5>1, <5>2
      <4>6. /\ IsFiniteSet(Reserved(b)) /\ Cardinality(Reserved(b)) <= MaxUploadSessions
            /\ DeclaredBytes(b, disk') <= MaxStagingBytes
        BY <2>2 DEF Room
      <4>7. /\ Cardinality(Reserved(targets')) \in Nat /\ Cardinality(Reserved(b)) \in Nat
            /\ Cardinality(Reserved(targets')) <= Cardinality(Reserved(b))
            /\ DeclaredBytes(targets', sess') \in Nat /\ DeclaredBytes(b, disk') \in Nat
            /\ DeclaredBytes(targets', sess') <= DeclaredBytes(b, disk')
        BY <4>5, <4>6, BytesLess
      <4>8. /\ Cardinality(Reserved(targets')) <= MaxUploadSessions
            /\ DeclaredBytes(targets', sess') <= MaxStagingBytes
        BY <4>6, <4>7, UploadAssumption
      <4>9. activeUploads' = Cardinality(Reserved(targets')) /\ reservedBytes' = DeclaredBytes(targets', sess')
        BY <2>1, <3>4, <4>4 DEF RInv, Counted
      <4> QED BY <4>4, <4>8, <4>9 DEF Counted
    <3> QED BY <2>5, <2>6, <3>5, <3>6, <3>7, <3>8, <3>9 DEF RInv
  <2> QED BY <2>7, <2>8
<1> QED BY <1>1, <1>8, <1>9 DEF LoadSession

(* Nothing is reserved and nothing is saved. *)
LEMMA InitReserves == Init => RInv
PROOF
<1> SUFFICES ASSUME Init PROVE RInv
  OBVIOUS
<1>1. /\ phase = "serving" /\ nextReq = 1 /\ activeUploads = 0 /\ reservedBytes = 0 /\ temps = {}
      /\ targets = [t \in Target |-> None]
      /\ \A u \in Upload : sess[u] = None /\ disk[u] = None
  BY DEF Init
<1>2. ASSUME NEW u \in Upload PROVE Claims(u) /\ Loads(u)
  BY <1>1 DEF Claims, Loads, Known, Reopens
<1>3. Borne
  <2>1. 1 <= MaxRequests + 1
    BY UploadAssumption
  <2> QED BY <1>1, <2>1 DEF Borne, Tables
<1>4. Counted
  <2>1. \A t \in Target : targets[t] = None
    BY <1>1
  <2>2. IsFiniteSet(Reserved(targets)) /\ Cardinality(Reserved(targets)) = 0 /\ DeclaredBytes(targets, sess) = 0
    BY <2>1, BytesNone
  <2> QED BY <1>1, <2>2, UploadAssumption DEF Counted
<1>5. Fits
  BY <1>1 DEF Fits
<1> QED BY <1>2, <1>3, <1>4, <1>5 DEF RInv

(* Every step keeps the reservations. *)
LEMMA NextReserves == IInv /\ RInv /\ EndsAreSaved /\ [Next]_vars => RInv'
PROOF
<1> SUFFICES ASSUME IInv, RInv, EndsAreSaved, [Next]_vars PROVE RInv'
  OBVIOUS
<1>1. ASSUME NEW u \in Upload, Cleanup(u) PROVE RInv'
  BY <1>1, SweepHolds DEF Cleanup
<1>2. ASSUME NEW u \in Upload, Released(u) PROVE RInv'
  BY <1>2, RemoveTempHolds, ReleaseHolds, PurgeHolds, ForgetHolds DEF Released
<1>3. ASSUME NEW u \in Upload, Transfer(u) PROVE RInv'
  BY <1>3, EarlyHolds, LateHolds, QuietHolds DEF Transfer
<1>4. ASSUME NEW u \in Upload, Streaming(u) PROVE RInv'
  BY <1>4, OpensHolds, ChunkHolds, QuietHolds DEF Streaming
<1>5. CASE Served
  BY <1>5, AnswersHold, QuietHolds, CreateHolds, ClientHolds DEF Served
<1>6. CASE Client \/ Plain
  BY <1>6, ClientHolds, PlainHolds
<1>7. CASE EditSource \/ CollectGarbage \/ UNCHANGED vars
  BY <1>7, QuietHolds
<1>8. CASE Crash \/ Restart \/ Loaded
  BY <1>8, CrashHolds, RestartHolds, LoadedHolds
<1> QED BY <1>1, <1>2, <1>3, <1>4, <1>5, <1>6, <1>7, <1>8, TickHolds, LoadHolds DEF Next

(* The inductive invariant says what Reservations says. *)
LEMMA ReservesAsSaid == IInv /\ RInv => Reservations
PROOF
<1> SUFFICES ASSUME IInv, RInv PROVE Reservations
  OBVIOUS
<1>1. Types
  BY DEF IInv
<1>2. activeUploads \in 0..MaxUploadSessions /\ reservedBytes \in 0..MaxStagingBytes
  <2>1. IsFiniteSet(Reserved(targets))
    BY DEF RInv, Counted
  <2>2. Within(targets, sess, targets, sess)
    BY DEF Within
  <2>3. Cardinality(Reserved(targets)) \in Nat /\ DeclaredBytes(targets, sess) \in Nat
    BY <2>1, <2>2, BytesLess
  <2>4. activeUploads \in Nat /\ activeUploads <= MaxUploadSessions
    BY <2>3 DEF RInv, Counted
  <2>5. reservedBytes \in Nat /\ reservedBytes <= MaxStagingBytes
    BY <2>3 DEF RInv, Counted
  <2> QED BY <2>4, <2>5, UploadAssumption
<1>3. nextReq \in 1..MaxRequests + 1
  BY <1>1, UploadAssumption DEF Types, RInv, Borne
<1>4. call.op \in {"none", "create", "get", "abort"}
  BY <1>1 DEF Types, CallRecord
<1>5. TypeOK
  BY <1>1, <1>2, <1>3, <1>4 DEF Types, TypeOK, RInv, Borne, Tables
<1>6. activeUploads = Cardinality({t \in Target : targets[t] # None})
      /\ reservedBytes = DeclaredBytes(targets, sess)
  BY DEF RInv, Counted, Reserved
<1>7. ASSUME NEW u \in Upload, Known(u)
      PROVE  /\ (targets[sess[u].target] = u) <=>
                   (isOpenUploadState(sess[u]) \/ pend[u].step \in {"temp", "paths"})
             /\ isOpenUploadState(sess[u]) => u \in temps
  BY <1>7 DEF RInv, Claims, Holds
<1> QED BY <1>5, <1>6, <1>7 DEF Reservations

-----------------------------------------------------------------------------
(* What ended stays ended.                                                 *)

(* A session that ended is not taken up again, once its staging file was   *)
(* to be removed; one that completes has none.                             *)
Ends(u) ==
    /\ Known(u) /\ ~isOpenUploadState(sess[u]) /\ pend[u].step # "temp" => ~Reopens(u)
    /\ xfer[u].at = "complete" => temp[u] = None

EInv == \A u \in Upload : Ends(u)

(* A step about one session leaves the others as they are. *)
LEMMA OneEnds ==
    ASSUME EInv, NEW u \in Upload, Frame(u), Ends(u)'
    PROVE  EInv'
PROOF
<1>1. ASSUME NEW v \in Upload, v # u PROVE Ends(v)'
  <2>1. /\ sess'[v] = sess[v] /\ disk'[v] = disk[v] /\ temp'[v] = temp[v]
        /\ xfer'[v] = xfer[v] /\ pend'[v] = pend[v]
    BY <1>1 DEF Frame
  <2> QED BY <2>1 DEF EInv, Ends, Known, Reopens
<1> QED BY <1>1 DEF EInv

(* So does one about an open session that is not to complete. *)
LEMMA OpenEnds ==
    ASSUME EInv, NEW u \in Upload, Frame(u), isOpenUploadState(sess'[u]),
           xfer'[u].at = "complete" => temp'[u] = None
    PROVE  EInv'
PROOF
<1>1. Ends(u)'
  BY DEF Ends
<1> QED BY <1>1, OneEnds

(* A step that changes no record; staging files are only taken away, but   *)
(* of an open session.                                                     *)
LEMMA QuietEnds ==
    ASSUME EInv, UNCHANGED <<sess, disk, pend>>,
           \A v \in Upload :
               /\ \/ temp'[v] \in {temp[v], None}
                  \/ isOpenUploadState(sess[v]) /\ xfer'[v].at # "complete"
               /\ xfer'[v].at = "complete" => xfer[v].at = "complete"
    PROVE  EInv'
PROOF
<1> SUFFICES ASSUME NEW v \in Upload PROVE Ends(v)'
  BY DEF EInv
<1>1. CASE isOpenUploadState(sess[v]) /\ xfer'[v].at # "complete"
  BY <1>1 DEF Ends
<1>2. CASE temp'[v] \in {temp[v], None}
  BY <1>2 DEF EInv, Ends, Known, Reopens
<1> QED BY <1>1, <1>2

(* An interrupted finalization is ended in the record first. *)
LEMMA ReconcileEnds ==
    ASSUME IInv, EInv, NEW u \in Upload, Known(u), Unresolved(u), NEW ok \in BOOLEAN, NEW by \in Caller,
           Reconcile(u, ok, by), Frame(u), UNCHANGED xfer
    PROVE  EInv'
PROOF
<1>1. Types /\ sess[u].state = "FINALIZING" /\ xfer[u].at = "no"
  BY DEF IInv, Unresolved, active
<1>2. PICK r \in Record : r = reconciled(u)
  BY Reconciled
<1>3. /\ sess'[u] = IF ok THEN r ELSE sess[u]
      /\ ok => disk'[u] = r
  BY <1>1, <1>2, SavedFacts DEF Reconcile
<1>4. CASE ok
  BY <1>1, <1>3, <1>4, OneEnds DEF Ends, Reopens
<1>5. CASE ~ok
  BY <1>1, <1>3, <1>5, OpenEnds DEF isOpenUploadState, OpenStates
<1> QED BY <1>4, <1>5

(* So are expiry and abort. *)
LEMMA EndEnds ==
    ASSUME IInv, EInv, NEW u \in Upload, Known(u), ~active(u), sess[u].state = "OPEN", NEW ok \in BOOLEAN,
           NEW state \in {"EXPIRED", "ABORTED"}, Saved(u, Ended(sess[u], state), ok),
           Frame(u), UNCHANGED xfer
    PROVE  EInv'
PROOF
<1>1. Types /\ sess[u] \in Record /\ xfer[u].at = "no"
  BY DEF IInv, Types, Known, active
<1>2. PICK r \in Record : r = Ended(sess[u], state)
  BY <1>1, EndedRecord DEF TerminalStates
<1>3. /\ sess'[u] = IF ok THEN r ELSE sess[u]
      /\ ok => disk'[u] = r
  BY <1>1, <1>2, SavedFacts
<1>4. CASE ok
  BY <1>1, <1>3, <1>4, OneEnds DEF Ends, Reopens
<1>5. CASE ~ok
  BY <1>1, <1>3, <1>5, OpenEnds DEF isOpenUploadState, OpenStates
<1> QED BY <1>4, <1>5

(* Cleanup *)
LEMMA SweepEnds ==
    ASSUME IInv, RInv, EInv, NEW u \in Upload, NEW a \in Caller, Sweep(a, u)
    PROVE  EInv'
PROOF
<1>0. Types /\ UNCHANGED xfer
  BY DEF IInv, Sweep
<1>1. Frame(u)
  BY SweepStep
<1>2. CASE UNCHANGED <<sess, disk, temp, pend>>
  BY <1>0, <1>2, QuietEnds
<1>3. CASE /\ Known(u) /\ ~isOpenUploadState(sess[u]) /\ sess[u].due /\ Then(u, "purge", a)
           /\ UNCHANGED <<sess, disk, temp>>
  <2>1. pend[u].step # "temp"
    BY <1>3 DEF RInv, Claims
  <2>2. Ends(u)'
    BY <1>0, <1>3, <2>1 DEF EInv, Ends, Known, Reopens
  <2> QED BY <1>1, <2>2, OneEnds
<1> QED BY <1>0, <1>1, <1>2, <1>3, ReconcileEnds, EndEnds DEF Sweep

(* What is left to do after an end. *)
LEMMA ReleasedEnds ==
    ASSUME IInv, EInv, NEW u \in Upload, Released(u), ~BothLost(u)
    PROVE  EInv'
PROOF
<1>0. /\ Types /\ Frame(u) /\ UNCHANGED xfer
      /\ pend[u].step # "none"
  BY RemoveTempStep, ReleaseStep, PurgeStep, ForgetStep
     DEF IInv, Released, Session1, removeSessionTemp, releasePaths, Purge, Forget
<1>1. xfer'[u].at # "complete"
  BY <1>0 DEF IInv, Session, Transfers
<1>2. CASE removeSessionTemp(u)
  <2>1. UNCHANGED <<sess, disk>>
    BY <1>2 DEF removeSessionTemp, store
  <2>2. ~Reopens(u)'
    BY <1>2, <2>1 DEF BothLost, Reopens
  <2> QED BY <1>0, <1>1, <2>2, OneEnds DEF Ends
<1>3. CASE releasePaths(u)
  <2>1. UNCHANGED <<sess, disk, temp>> /\ pend[u].step = "paths"
    BY <1>3 DEF releasePaths, files
  <2> QED BY <1>0, <1>1, <2>1, OneEnds DEF EInv, Ends, Known, Reopens
<1>4. CASE Purge(u)
  <2>1. /\ UNCHANGED disk /\ pend[u].step = "purge"
        /\ \/ sess' = [sess EXCEPT ![u] = None]
           \/ UNCHANGED <<sess, temp>>
    BY <1>4 DEF Purge
  <2>2. CASE sess' = [sess EXCEPT ![u] = None]
    <3>1. sess'[u] = None
      BY <1>0, <2>2 DEF Types
    <3> QED BY <1>0, <1>1, <3>1, OneEnds DEF Ends, Known
  <2>3. CASE UNCHANGED <<sess, temp>>
    BY <1>0, <1>1, <2>1, <2>3, OneEnds DEF EInv, Ends, Known, Reopens
  <2> QED BY <2>1, <2>2, <2>3
<1>5. CASE Forget(u)
  <2>1. sess[u] = None /\ UNCHANGED sess
    BY <1>5 DEF IInv, Session, Transfers, Forget, store
  <2> QED BY <1>0, <1>1, <2>1, OneEnds DEF Ends, Known
<1> QED BY <1>2, <1>3, <1>4, <1>5 DEF Released

(* A transfer whose upload fails leaves its end to be removed. *)
LEMMA FailEnds ==
    ASSUME IInv, EInv, NEW u \in Upload, Frame(u), failUpload(u)
    PROVE  EInv'
PROOF
<1>0. Types
  BY DEF IInv
<1>1. pend'[u].step = "temp" /\ xfer'[u].at = "left"
  BY <1>0, ThenFacts, AtFacts DEF failUpload, XferAt
<1> QED BY <1>1, OneEnds DEF Ends

(* The transfers *)
LEMMA TransferEnds ==
    ASSUME IInv, EInv, NEW u \in Upload, Transfer(u)
    PROVE  EInv'
PROOF
<1>0. Types
  BY DEF IInv
<1>1. CASE EndTransfer(u)
  <2>1. UNCHANGED <<sess, disk, temp, pend>> /\ xfer' = [xfer EXCEPT ![u] = NoXfer]
    BY <1>1 DEF EndTransfer, store, files
  <2>2. NoXfer.at = "no"
    BY DEF NoXfer
  <2>3. \A v \in Upload : xfer'[v] \in {xfer[v], NoXfer}
    BY <1>0, <2>1 DEF Types
  <2> QED BY <2>1, <2>2, <2>3, QuietEnds
<1>2. CASE TransferBreaks(u) \/ TransferFinish(u)
  <2>1. /\ Frame(u) /\ Known(u) /\ sess[u].state = "OPEN" /\ xfer[u].accepted \in Nat
    BY <1>2, BreaksStep, FinishStep, Running
       DEF TransferBreaks, TransferFinish, Session1, IInv, Session, Transfers
  <2>2. PICK ok \in BOOLEAN : /\ checkpointUpload(u, xfer[u].accepted, ok)
                              /\ \E at \in {"left", "finalize"} : At(u, at)
    BY <1>2 DEF TransferBreaks, TransferFinish
  <2>3. sess'[u].state = "OPEN"
    BY <1>0, <2>1, <2>2, CheckpointFacts
  <2>4. xfer'[u].at \in {"left", "finalize"}
    BY <1>0, <2>2, AtFacts DEF XferAt
  <2> QED BY <2>1, <2>3, <2>4, OpenEnds DEF isOpenUploadState, OpenStates
<1>3. CASE Finalize(u)
  <2>1. /\ Frame(u) /\ Known(u) /\ sess[u].state = "OPEN" /\ sess[u] \in Record
    BY <1>3, FinalizeStep, Running DEF Finalize, Session1, IInv, Session, Transfers
  <2>2. PICK r : r = [sess[u] EXCEPT !.state = "FINALIZING"]
    OBVIOUS
  <2>3. r \in Record /\ r.state = "FINALIZING"
    BY <2>1, <2>2, StateRecord DEF OpenStates
  <2>4. sess' = sess \/ \E ok \in BOOLEAN : Saved(u, r, ok)
    BY <1>3, <2>2 DEF Finalize
  <2>5. sess'[u] \in {sess[u], r}
    BY <1>0, <2>3, <2>4, SavedFacts
  <2>6. \E at \in {"left", "verify"} : At(u, at)
    BY <1>3 DEF Finalize
  <2>7. xfer'[u].at \in {"left", "verify"}
    BY <1>0, <2>6, AtFacts DEF XferAt
  <2> QED BY <2>1, <2>3, <2>5, <2>7, OpenEnds DEF isOpenUploadState, OpenStates
<1>4. CASE Verify(u) \/ Publish(u) \/ Unlink(u) \/ Complete(u)
  <2>0. /\ Frame(u) /\ isOpenUploadState(sess[u])
        /\ xfer[u].at \in {"verify", "publish", "unlink", "complete"}
    BY <1>4, VerifyStep, PublishStep, UnlinkStep, CompleteStep, Running
       DEF Verify, Publish, Unlink, Complete, Session1, isOpenUploadState
  <2>1. CASE failUpload(u)
    BY <2>0, <2>1, FailEnds
  <2>2. CASE /\ UNCHANGED sess
             /\ \E at \in {"publish", "unlink", "left"} : At(u, at)
    <3>1. xfer'[u].at # "complete"
      BY <1>0, <2>2, AtFacts DEF XferAt
    <3> QED BY <2>0, <2>2, <3>1, OpenEnds
  <2>3. CASE UNCHANGED sess /\ temp' = [temp EXCEPT ![u] = None]
    <3>1. temp'[u] = None
      BY <1>0, <2>3 DEF Types
    <3> QED BY <2>0, <2>3, <3>1, OpenEnds
  <2>4. CASE /\ xfer[u].at = "complete" /\ UNCHANGED temp
             /\ \E at \in {"done", "left"} : At(u, at)
    <3>1. temp'[u] = None
      BY <2>4 DEF EInv, Ends
    <3>2. xfer'[u].at # "complete"
      BY <1>0, <2>4, AtFacts DEF XferAt
    <3> QED BY <2>0, <3>1, <3>2, OneEnds DEF Ends, Reopens
  <2>5. CASE Verify(u)
    BY <2>1, <2>2, <2>5 DEF Verify
  <2>6. CASE Publish(u)
    BY <2>1, <2>2, <2>3, <2>6 DEF Publish
  <2>7. CASE Unlink(u)
    BY <2>2, <2>3, <2>7 DEF Unlink, store
  <2>8. CASE Complete(u)
    BY <2>4, <2>8 DEF Complete
  <2> QED BY <1>4, <2>5, <2>6, <2>7, <2>8
<1> QED BY <1>1, <1>2, <1>3, <1>4 DEF Transfer

LEMMA StreamingEnds ==
    ASSUME IInv, EInv, NEW u \in Upload, Streaming(u)
    PROVE  EInv'
PROOF
<1>0. Types
  BY DEF IInv
<1>1. CASE TransferOpens(u)
  <2>1. UNCHANGED <<sess, disk, pend>>
    BY <1>1 DEF TransferOpens, store
  <2>2. CASE UNCHANGED <<xfer, temp>>
    BY <2>1, <2>2, QuietEnds
  <2>3. CASE /\ MayOpen(u) /\ temp' = Truncated(u, sess[u].committed)
             /\ xfer' = [xfer EXCEPT ![u] = [at |-> "recv", accepted |-> sess[u].committed,
                                            mark |-> sess[u].committed]]
    <3>1. isOpenUploadState(sess[u])
      BY <2>3 DEF MayOpen, isOpenUploadState, OpenStates
    <3>2. /\ xfer'[u].at = "recv"
          /\ \A v \in Upload \ {u} : xfer'[v] = xfer[v] /\ temp'[v] = temp[v]
      BY <1>0, <2>3 DEF Types, Truncated
    <3> QED BY <2>1, <3>1, <3>2, QuietEnds
  <2> QED BY <1>1, <2>2, <2>3 DEF TransferOpens
<1>2. CASE SendFinish(u)
  <2>1. UNCHANGED <<sess, disk, temp, pend>> /\ At(u, "finish")
    BY <1>2 DEF SendFinish, store, files
  <2>2. xfer'[u].at = "finish" /\ \A v \in Upload \ {u} : xfer'[v] = xfer[v]
    BY <1>0, <2>1, AtFacts DEF XferAt
  <2> QED BY <2>1, <2>2, QuietEnds
<1>3. ASSUME NEW check \in BOOLEAN, TransferChunk(u, check) PROVE EInv'
  <2>0. xfer[u].at = "recv"
    BY <1>3 DEF TransferChunk
  <2>1. Frame(u) /\ Known(u) /\ sess[u].state = "OPEN" /\ xfer[u].accepted \in Nat
    BY <1>3, <2>0, ChunkStep, Running DEF Session1, IInv, Session, Transfers
  <2>2. sess'[u].state = "OPEN"
    <3>1. \/ UNCHANGED sess
          \/ \E ok \in BOOLEAN : checkpointUpload(u, xfer[u].accepted + 1, ok)
      BY <1>3 DEF TransferChunk
    <3> QED BY <1>0, <2>1, <3>1, CheckpointFacts
  <2>3. xfer'[u].at # "complete"
    <3>1. PICK n \in Nat : n = xfer[u].accepted + 1
      BY <2>1
    <3>2. PICK a, m : /\ a = [xfer[u] EXCEPT !.accepted = n]
                      /\ m = [xfer[u] EXCEPT !.accepted = n, !.mark = n]
      OBVIOUS
    <3>3. xfer[u] \in [at : XferAt, accepted : Nat, mark : Nat]
      BY <1>0 DEF Types
    <3>4. a.at = "recv" /\ m.at = "recv"
      BY <2>0, <3>2, <3>3
    <3>5. \/ xfer' = [xfer EXCEPT ![u] = a]
          \/ xfer' = [xfer EXCEPT ![u] = m]
          \/ At(u, "left")
      BY <1>3, <3>1, <3>2 DEF TransferChunk
    <3>6. At(u, "left") => xfer'[u].at = "left"
      BY <1>0, AtFacts DEF XferAt
    <3>7. xfer'[u] \in {a, m} \/ xfer'[u].at = "left"
      BY <1>0, <3>5, <3>6 DEF Types
    <3> QED BY <3>4, <3>7
  <2> QED BY <2>1, <2>2, <2>3, OpenEnds DEF isOpenUploadState, OpenStates
<1> QED BY <1>1, <1>2, <1>3 DEF Streaming

(* The calls *)
LEMMA AnswersEnd ==
    ASSUME IInv, EInv, CreateAgain \/ GetUploadSession \/ AbortUploadSession
    PROVE  EInv'
PROOF
<1>1. /\ Types /\ phase = "serving" /\ call.op # "none"
      /\ UNCHANGED <<phase, file, xfer, todo, acked, requests, exclusive, source, Others>>
  BY DEF IInv, CreateAgain, GetUploadSession, AbortUploadSession, MayAct, Serving, Steady, peer, Others
<1>2. CASE UNCHANGED <<sess, disk, temp, pend>>
  BY <1>1, <1>2, QuietEnds
<1>3. ASSUME NEW u \in Upload, Known(u), Unresolved(u), NEW ok \in BOOLEAN, Reconcile(u, ok, "call")
      PROVE  EInv'
  <2>1. Frame(u)
    BY <1>1, <1>3, ReconcileStep DEF Types, Caller
  <2> QED BY <1>1, <1>3, <2>1, ReconcileEnds DEF Caller
<1>4. CASE CreateAgain
  <2>1. call.request \in 1..MaxRequests /\ requests[call.request] # None
    BY <1>1, <1>4, CallFacts DEF CreateAgain
  <2>2. PICK u \in Upload : u = requests[call.request] /\ Known(u)
    BY <1>1, <2>1 DEF IInv, Peer, Requests, Types
  <2>3. \/ UNCHANGED <<sess, disk, temp, pend>>
        \/ Unresolved(u) /\ \E ok \in BOOLEAN : Reconcile(u, ok, "call")
    BY <1>4, <2>2 DEF CreateAgain
  <2> QED BY <1>2, <1>3, <2>2, <2>3
<1>5. CASE GetUploadSession
  <2>1. PICK u \in Upload : u = call.upload
    BY <1>5, CallFacts DEF GetUploadSession, MayAct
  <2>2. \/ UNCHANGED <<sess, disk, temp, pend>>
        \/ Known(u) /\ Unresolved(u) /\ \E ok \in BOOLEAN : Reconcile(u, ok, "call")
    BY <1>5, <2>1 DEF GetUploadSession
  <2> QED BY <1>2, <1>3, <2>2
<1>6. CASE AbortUploadSession
  <2>1. PICK u \in Upload : u = call.upload
    BY <1>6, CallFacts DEF AbortUploadSession, MayAct
  <2>2. \/ UNCHANGED <<sess, disk, temp, pend>>
        \/ Known(u) /\ Unresolved(u) /\ \E ok \in BOOLEAN : Reconcile(u, ok, "call")
        \/ /\ Known(u) /\ ~active(u) /\ sess[u].state = "OPEN"
           /\ \E ok \in BOOLEAN : /\ Saved(u, Ended(sess[u], "ABORTED"), ok)
                                  /\ IF ok THEN Then(u, "temp", "call") ELSE UNCHANGED pend
           /\ UNCHANGED <<temp, published>>
    BY <1>6, <2>1 DEF AbortUploadSession
  <2>3. ASSUME Known(u), ~active(u), sess[u].state = "OPEN", NEW ok \in BOOLEAN,
               Saved(u, Ended(sess[u], "ABORTED"), ok),
               IF ok THEN Then(u, "temp", "call") ELSE UNCHANGED pend, UNCHANGED <<temp, published>>
        PROVE  EInv'
    <3>1. Frame(u)
      BY <1>1, <2>3, EndStep DEF Types, Caller
    <3> QED BY <1>1, <2>3, <3>1, EndEnds
  <2> QED BY <1>2, <1>3, <2>2, <2>3
<1> QED BY <1>4, <1>5, <1>6

(* A new session is open, or is not there. *)
LEMMA CreateEnds ==
    ASSUME IInv, EInv, NEW u \in Upload, CreateUploadSession(u)
    PROVE  EInv'
PROOF
<1> DEFINE r == [target |-> call.target, request |-> call.request, content |-> call.content,
                 state |-> "OPEN", committed |-> 0, due |-> FALSE]
<1>0. /\ Types /\ acked[u] = -1
      /\ call.target \in Target /\ call.content \in Content /\ call.request \in 1..MaxRequests
      /\ UNCHANGED <<xfer, pend>>
  BY CallFacts DEF CreateUploadSession, MayAct, newUploadID
<1>1. sess[u] = None /\ xfer[u].at = "no"
  BY <1>0 DEF IInv, Session, Drawn, Transfers, Known
<1>2. r \in Record /\ isOpenUploadState(r)
  BY <1>0 DEF Record, OpenStates, isOpenUploadState
<1>3. /\ \E ok \in BOOLEAN : persistRecord(u, r, ok)
      /\ \/ sess' = [sess EXCEPT ![u] = r]
         \/ UNCHANGED sess
      /\ \/ temp' = [temp EXCEPT ![u] = [len |-> 0, synced |-> 0, good |-> TRUE]]
         \/ UNCHANGED temp
  BY DEF CreateUploadSession, store
<1> HIDE DEF r
<1>4. \A v \in Upload \ {u} : disk'[v] = disk[v] /\ sess'[v] = sess[v] /\ temp'[v] = temp[v]
  <2>1. \A v \in Upload \ {u} : disk'[v] = disk[v]
    BY <1>0, <1>2, <1>3, Persisted
  <2>2. \A v \in Upload \ {u} : sess'[v] = sess[v]
    BY <1>0, <1>3 DEF Types
  <2>3. \A v \in Upload \ {u} : temp'[v] = temp[v]
    BY <1>0, <1>3 DEF Types
  <2> QED BY <2>1, <2>2, <2>3
<1>5. sess'[u] \in {None, r}
  BY <1>0, <1>1, <1>3 DEF Types
<1>6. Ends(u)'
  BY <1>0, <1>1, <1>2, <1>5 DEF Ends, Known
<1>7. ASSUME NEW v \in Upload, v # u PROVE Ends(v)'
  BY <1>0, <1>4, <1>7 DEF EInv, Ends, Known, Reopens
<1> QED BY <1>6, <1>7 DEF EInv

(* Steps that touch no session: of the client, plain calls, the ticker. *)
LEMMA RestEnds ==
    ASSUME EInv, Client \/ CallReturns \/ Plain \/ EditSource \/ CollectGarbage \/ CreateRefused
                 \/ Restart \/ Loaded \/ UNCHANGED vars
    PROVE  EInv'
PROOF
<1>1. CASE Client \/ CallReturns
  <2>1. UNCHANGED <<sess, disk, temp, pend, xfer>>
    BY <1>1 DEF Client, CallReturns, UploadFile, ClientCalls, CallFails, SourceChanged, StreamBreaks,
           ClientCrashes, server, store, files
  <2> QED BY <2>1, QuietEnds
<1>2. CASE Plain
  <2>1. UNCHANGED <<sess, disk, pend, xfer>> /\ (temp' = temp \/ temp' = [v \in Upload |-> None])
    BY <1>2 DEF Plain, PlainChecks, PlainWrites, PlainRemoves, PlainChmod, PlainRemovesTree, PlainEnds,
           store, files, calls
  <2> QED BY <2>1, QuietEnds
<1>3. CASE EditSource \/ CollectGarbage \/ CreateRefused \/ Restart \/ Loaded \/ UNCHANGED vars
  <2>1. UNCHANGED <<sess, disk, temp, pend, xfer>>
    BY <1>3 DEF EditSource, CollectGarbage, CreateRefused, Restart, Loaded, server, vars, store, files, calls
  <2> QED BY <2>1, QuietEnds
<1> QED BY <1>1, <1>2, <1>3

(* A crash forgets the sessions. *)
LEMMA CrashEnds ==
    ASSUME Crash
    PROVE  EInv'
PROOF
<1>1. sess' = [v \in Upload |-> None] /\ xfer' = [v \in Upload |-> NoXfer]
  BY DEF Crash
<1>2. \A v \in Upload : sess'[v] = None /\ xfer'[v].at = "no"
  BY <1>1 DEF NoXfer
<1> QED BY <1>2 DEF EInv, Ends, Known

(* What is loaded and has ended is saved so. *)
LEMMA LoadEnds ==
    ASSUME IInv, EInv, NEW u \in Upload, LoadSession(u)
    PROVE  EInv'
PROOF
<1>0. /\ Types /\ phase = "loading" /\ u \in todo["gc"] /\ disk[u] # None /\ disk[u] \in Record
      /\ UNCHANGED <<pend, xfer>> /\ \A v \in Upload : xfer[v].at = "no"
  BY DEF IInv, LoadSession, Session, Places, Transfers, Types
<1>1. PICK r \in Record : r = recovered(u)
  BY <1>0, RecoveredFacts
<1>2. CASE sess' = [v \in Upload |-> None]
  BY <1>0, <1>2 DEF EInv, Ends, Known
<1>3. CASE /\ IF r = disk[u] THEN UNCHANGED <<disk, troubles>> ELSE persistRecord(u, r, TRUE)
           /\ sess' = [sess EXCEPT ![u] = r]
  <2>1. /\ sess'[u] = r /\ disk'[u] = r
        /\ \A v \in Upload \ {u} : sess'[v] = sess[v] /\ disk'[v] = disk[v]
    <3>1. disk'[u] = r /\ \A v \in Upload \ {u} : disk'[v] = disk[v]
      BY <1>0, <1>3, Persisted
    <3> QED BY <1>0, <1>3, <3>1 DEF Types
  <2>2. \A v \in Upload \ {u} : temp'[v] = temp[v]
    BY <1>0, <1>1 DEF LoadSession, Truncated, Types
  <2>3. Ends(u)'
    BY <1>0, <2>1 DEF Ends, Reopens
  <2>4. ASSUME NEW v \in Upload, v # u PROVE Ends(v)'
    BY <1>0, <2>1, <2>2, <2>4 DEF EInv, Ends, Known, Reopens
  <2> QED BY <2>3, <2>4 DEF EInv
<1> QED BY <1>1, <1>2, <1>3 DEF LoadSession

(* Time makes a session due, and ends none. *)
LEMMA TickEnds ==
    ASSUME IInv, EInv, NEW u \in Upload, Tick(u)
    PROVE  EInv'
PROOF
<1>1. /\ Frame(u) /\ UNCHANGED <<xfer, temp, pend>>
      /\ (Known(u)' <=> Known(u)) /\ (Reopens(u)' <=> Reopens(u))
      /\ Known(u) => (isOpenUploadState(sess'[u]) <=> isOpenUploadState(sess[u]))
  BY TickFacts DEF isOpenUploadState
<1> QED BY <1>1, OneEnds DEF EInv, Ends

LEMMA InitEnds == Init => EInv
PROOF
<1> SUFFICES ASSUME Init, NEW u \in Upload PROVE Ends(u)
  BY DEF EInv
<1>1. sess[u] = None /\ xfer[u].at = "no"
  BY DEF Init, NoXfer
<1> QED BY <1>1 DEF Ends, Known

(* Every step but one keeps what ended from being taken up again. *)
LEMMA NextEnds == IInv /\ RInv /\ EInv /\ [Next]_vars /\ (\A u \in Upload : ~BothLost(u)) => EInv'
PROOF
<1> SUFFICES ASSUME IInv, RInv, EInv, [Next]_vars, \A u \in Upload : ~BothLost(u) PROVE EInv'
  OBVIOUS
<1>1. ASSUME NEW u \in Upload, Cleanup(u) PROVE EInv'
  BY <1>1, SweepEnds DEF Cleanup
<1>2. ASSUME NEW u \in Upload, Released(u) PROVE EInv'
  BY <1>2, ReleasedEnds
<1>3. CASE Served
  BY <1>3, AnswersEnd, RestEnds, CreateEnds DEF Served
<1>4. CASE Client \/ EditSource \/ Plain \/ CollectGarbage \/ Restart \/ Loaded \/ UNCHANGED vars
  BY <1>4, RestEnds
<1> QED BY <1>1, <1>2, <1>3, <1>4, TransferEnds, StreamingEnds, TickEnds, CrashEnds, LoadEnds DEF Next

(* Both go together: a reservation is in the way of what a start takes up. *)
LEMMA NextBoth ==
    IInv /\ RInv /\ EInv /\ [Next]_vars /\ [\A u \in Upload : ~BothLost(u)]_vars => RInv' /\ EInv'
PROOF
<1> SUFFICES ASSUME IInv, RInv, EInv, [Next]_vars, [\A u \in Upload : ~BothLost(u)]_vars
             PROVE  RInv' /\ EInv'
  OBVIOUS
<1>1. EndsAreSaved
  BY DEF EInv, Ends, EndsAreSaved
<1>2. RInv'
  BY <1>1, NextReserves
<1>3. EInv'
  BY NextEnds, RestEnds
<1> QED BY <1>2, <1>3

(* The two invariants of the behaviours without the double fault. *)
LEMMA BothInductive == Spec /\ [][\A u \in Upload : ~BothLost(u)]_vars => [](RInv /\ EInv)
PROOF
<1> QED BY InitReserves, InitEnds, NextBoth, UploadsInductive, PTL DEF Spec

(* EndsAreSaved: whatever crashes, and however many saves, unlinks and     *)
(* connections fail, a session that ended and gave its reservation back is *)
(* not taken up again by loadSessions (transfer_store.go:315), unless      *)
(* failUpload (transfer_upload.go:562-565) once could neither save the end *)
(* of a session nor remove its staging file: no other way leads there.     *)
THEOREM EndsStaySaved == Spec /\ [][\A u \in Upload : ~BothLost(u)]_vars => []EndsAreSaved
PROOF
<1>1. EInv => EndsAreSaved
  BY DEF EInv, Ends, EndsAreSaved
<1> QED BY <1>1, BothInductive, PTL

(* Reservations: for any number of uploads, targets, requests and failing  *)
(* calls, and across crashes, the session slots and staging bytes that are *)
(* counted are those of the reserved targets, within their limits, and a   *)
(* target is reserved by its open session and by no other                  *)
(* (CreateUploadSession, transfer_upload.go:60-131; releasePaths,          *)
(* transfer_store.go:616), under the same condition: failUpload did not    *)
(* lose both errors, or an OPEN record is left that loadSessions takes up  *)
(* again, beside whatever was started on the target since.                 *)
THEOREM ReservationsHold == Spec /\ [][\A u \in Upload : ~BothLost(u)]_vars => []Reservations
PROOF
<1> QED BY BothInductive, UploadsInductive, ReservesAsSaid, PTL

=============================================================================
