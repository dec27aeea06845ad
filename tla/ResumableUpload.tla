--------------------------- MODULE ResumableUpload ---------------------------
(***************************************************************************)
(* Resumable uploads: the sessions of the controller                       *)
(* (src/internal/files/transfer_store.go, transfer_upload.go), the plain   *)
(* calls that share the workspace with them (src/internal/files/service.go)*)
(* and one resuming client (src/pkg/client/file_transfer.go).              *)
(*                                                                         *)
(* Concurrent: the garbage collector or one session call (Create, Get or   *)
(* Abort), a transfer per session, one plain call, the client, which stays *)
(* with a call until the handler has ended; the                            *)
(* controller and the client crash and restart, a machine crash loses what *)
(* was not synced, connections break, one persist at a time fails.         *)
(*                                                                         *)
(* Abstractions.  The SHA-256 of a staging file is right when the file is  *)
(* full and every chunk was read from the content that the session         *)
(* declares ("good").  Files stand in one directory, which is  *)
(* removed or moved away as a whole by a plain call; a directory entry is  *)
(* durable when made.  A mode change is a change of content.  Chunks reach *)
(* the handler when they are sent: those in flight when a stream breaks    *)
(* are as if never sent.  The clock is a Tick that lets ExpiresAt pass.    *)
(***************************************************************************)
EXTENDS Integers, FiniteSets, FiniteSetsExt

CONSTANTS
    Upload,             \* identifiers newUploadID draws
    Target,             \* paths to upload to
    Content,            \* contents to upload
    Empty,              \* those of them with no bytes
    Bytes,              \* the size of the others
    Foreign,            \* what plain calls write
    None,
    MaxUploadSessions,  \* config
    MaxStagingBytes,    \* config
    CheckpointBytes,    \* config, at least 1
    MaxRequests,        \* bound: request identifiers the client draws
    MaxTroubles,        \* bound: crashes, failing calls of the system, edits of the source
    MaxTicks,           \* bound: how often a session expires
    MaxPlain            \* bound: plain calls

ASSUME UploadAssumption ==
    /\ Upload # {} /\ None \notin Upload \cup Content
    /\ Foreign \cap (Content \cup {"none", "torn"}) = {}
    /\ Empty \subseteq Content
    /\ {MaxUploadSessions, MaxStagingBytes, CheckpointBytes} \subseteq Nat
    /\ MaxUploadSessions > 0 /\ CheckpointBytes > 0
    /\ Bytes \in Nat /\ Bytes <= MaxStagingBytes
    /\ MaxRequests \in Nat

VARIABLES
    \* the store, in memory
    phase,        \* "down", "loading", "sweeping" (the first cleanup), "serving"
    sess,         \* uploadSession.record of each known session, or None
    requests,     \* request -> session
    targets,      \* target -> the session that reserves it
    temps,        \* sessions whose staging file is hidden and protected
    activeUploads, reservedBytes,
    \* files
    disk,         \* the record file of each session, or None
    temp,         \* the staging file of each session, or None
    file,         \* the content of each target
    \* running calls of the controller
    xfer,         \* TransferUpload of each session: where, and bytes accepted
    pend,         \* what is left to do after session.mu was released
    todo,         \* sessions a cleanupExpired has still to visit, per caller
    call,         \* the session call
    plain,        \* the plain call
    \* the client
    local,        \* its state file for each target, or None
    source,       \* its local file
    exclusive,    \* its uploads may not overwrite
    client,       \* where uploadFileResumable is
    nextReq,
    \* ghosts and bounds
    acked,        \* the largest offset a session was reported to have committed, from -1
    published, reported, troubles, ticks, plains

store == <<sess, requests, targets, temps, activeUploads, reservedBytes>>
files == <<disk, temp, file>>
calls == <<xfer, pend, todo, call>>
peer  == <<local, source, exclusive, client, nextReq>>
ghost == <<acked, published, reported>>
bound == <<troubles, ticks, plains>>
vars  == <<phase, store, files, calls, plain, peer, ghost, bound>>

Trouble == troubles < MaxTroubles /\ troubles' = troubles + 1

Size(c) == IF c \in Empty THEN 0 ELSE Bytes

OpenStates     == {"OPEN", "FINALIZING"}
TerminalStates == {"COMPLETE", "ABORTED", "EXPIRED", "FAILED"}
Caller         == {"gc", "call"}

Record == [target : Target, request : 1..MaxRequests, content : Content,
           state : OpenStates \cup TerminalStates, committed : Nat, due : BOOLEAN]
Staged == [len : Nat, synced : Nat, good : BOOLEAN]
LocalRecord == [request : 1..MaxRequests, upload : Upload \cup {None}, content : Content]

ASSUME RecordAssumption == None \notin Record \cup Staged \cup LocalRecord

XferAt == {"no", "recv", "finish", "finalize", "verify", "publish", "unlink",
           "complete", "done", "left"}

TypeOK ==
    /\ phase \in {"down", "loading", "sweeping", "serving"}
    /\ sess \in [Upload -> Record \cup {None}]
    /\ requests \in [1..MaxRequests -> Upload \cup {None}]
    /\ targets \in [Target -> Upload \cup {None}]
    /\ temps \subseteq Upload
    /\ activeUploads \in 0..MaxUploadSessions /\ reservedBytes \in 0..MaxStagingBytes
    /\ disk \in [Upload -> Record \cup {None}]
    /\ temp \in [Upload -> Staged \cup {None}]
    /\ file \in [Target -> {"none", "torn"} \cup Content \cup Foreign]
    /\ xfer \in [Upload -> [at : XferAt, accepted : Nat, mark : Nat]]
    /\ pend \in [Upload -> [step : {"none", "temp", "paths", "purge", "forget"},
                            by : Caller \cup {"none", "xfer"}]]
    /\ todo \in [Caller -> SUBSET Upload]
    /\ call.op \in {"none", "create", "get", "abort"}
    /\ local \in [Target -> LocalRecord \cup {None}]
    /\ source \in Content
    /\ nextReq \in 1..MaxRequests + 1

NoXfer == [at |-> "no", accepted |-> 0, mark |-> 0]
NoPend == [step |-> "none", by |-> "none"]
NoCall == [op |-> "none", target |-> None, upload |-> None, request |-> None,
           content |-> None, answer |-> None]
Idle   == [at |-> "idle", target |-> None, why |-> "none"]

Init ==
    /\ phase = "serving"
    /\ sess = [u \in Upload |-> None]
    /\ requests = [r \in 1..MaxRequests |-> None]
    /\ targets = [t \in Target |-> None]
    /\ temps = {}
    /\ activeUploads = 0 /\ reservedBytes = 0
    /\ disk = [u \in Upload |-> None]
    /\ temp = [u \in Upload |-> None]
    /\ file \in [Target -> {"none"} \cup Foreign]
    /\ xfer = [u \in Upload |-> NoXfer]
    /\ pend = [u \in Upload |-> NoPend]
    /\ todo = [a \in Caller |-> {}]
    /\ call = NoCall
    /\ plain = "none"
    /\ local = [t \in Target |-> None]
    /\ source \in Content
    /\ exclusive \in BOOLEAN
    /\ client = Idle
    /\ nextReq = 1
    /\ acked = [u \in Upload |-> -1]
    /\ published = {} /\ reported = {}
    /\ troubles = 0 /\ ticks = 0 /\ plains = 0

Serving == phase = "serving"
Known(u) == sess[u] # None
active(u) == xfer[u].at # "no"
isOpenUploadState(r) == r.state \in OpenStates
newUploadID == {u \in Upload : acked[u] = -1}   \* random: never drawn twice

(***************************************************************************)
(* persistRecord: a temporary file renamed over the record.  It fails      *)
(* before the rename, or after it when the directory cannot be synced.     *)
(* ok is what the caller sees.                                             *)
(***************************************************************************)
persistRecord(u, r, ok) ==
    \/ /\ ok
       /\ disk' = [disk EXCEPT ![u] = r]
       /\ UNCHANGED troubles
    \/ /\ ~ok
       /\ Trouble
       /\ disk' \in {disk, [disk EXCEPT ![u] = r]}

(* MUTANT: any file at the target will do. *)
verifyAnything(r) == file[r.target] # "none"

(* verifyPublishedUpload: the target is the whole content of the session.  *)
verifyPublishedUpload(r) == file[r.target] = r.content

(* What a client, or a plain call, sees of a path that a session reserves. *)
mutationConflicts(t) == targets[t] # None
TreeConflicts == temps # {} \/ \E t \in Target : targets[t] # None

-----------------------------------------------------------------------------
(* Sessions *)

Busy(a) == \E u \in Upload : pend[u].by = a

(* What is left to do once session.mu is released, and by whom. *)
Then(u, step, by) == pend' = [pend EXCEPT ![u] = [step |-> step, by |-> by]]

(* A change of the record under session.mu, undone when it is not saved. *)
Saved(u, r, ok) ==
    /\ persistRecord(u, r, ok)
    /\ sess' = IF ok THEN [sess EXCEPT ![u] = r] ELSE sess

Ended(r, state) == [r EXCEPT !.state = state, !.due = FALSE]

(* A session of which it is found that its content is in place. *)
Placed(u, r) ==
    published' = IF r.state = "COMPLETE" /\ \A p \in published : p[1] # u
                 THEN published \cup {<<u, r.target, r.content>>} ELSE published

(* reconcileFinalizingUploadLocked: a finalization that was interrupted is *)
(* taken back when the staging file is still there, unless the target is   *)
(* already the published content.                                          *)
(* MUTANT: also while the transfer is still finalizing. *)
UnresolvedActive(u) == sess[u].state = "FINALIZING"

Unresolved(u) == sess[u].state = "FINALIZING" /\ ~active(u)

reconciled(u) ==
    LET r == sess[u]
        is == verifyPublishedUpload(r)
    IN  IF is THEN Ended(r, "COMPLETE")
        ELSE IF temp[u] # None THEN [r EXCEPT !.state = "OPEN"]
        ELSE Ended(r, "FAILED")

Reconcile(u, ok, by) ==
    LET r == reconciled(u) IN
    /\ Saved(u, r, ok)
    /\ \/ temp' = IF r.state = "COMPLETE" THEN [temp EXCEPT ![u] = None] ELSE temp
       \/ ~ok /\ temp' = temp
    /\ IF ok THEN Placed(u, r) ELSE UNCHANGED published
    /\ IF ok /\ r.state # "OPEN" THEN Then(u, "paths", by) ELSE UNCHANGED pend

Steady == UNCHANGED <<requests, targets, temps, activeUploads, reservedBytes>>

(* cleanupExpired, one session of its list under session.mu.  A session    *)
(* that is taken back to OPEN stays on the list: it may have expired.      *)
Sweep(a, u) ==
    /\ phase \in {"sweeping", "serving"} /\ u \in todo[a] /\ ~Busy(a)
    /\ LET others == [todo EXCEPT ![a] = @ \ {u}] IN
       \/ /\ ~(Known(u) /\ ~active(u) /\ (Unresolved(u) \/ sess[u].due))
          /\ todo' = others
          /\ UNCHANGED <<sess, disk, temp, pend, published, troubles>>
       \/ /\ Known(u) /\ Unresolved(u)
          /\ \E ok \in BOOLEAN :
                /\ Reconcile(u, ok, a)
                /\ todo' = IF ok /\ reconciled(u).state = "OPEN" THEN todo ELSE others
       \/ /\ Known(u) /\ ~active(u) /\ sess[u].state = "OPEN" /\ sess[u].due
          /\ \E ok \in BOOLEAN :
                /\ Saved(u, Ended(sess[u], "EXPIRED"), ok)
                /\ IF ok THEN Then(u, "temp", a) ELSE UNCHANGED pend
          /\ todo' = others
          /\ UNCHANGED <<temp, published>>
       \/ /\ Known(u) /\ ~active(u) /\ ~isOpenUploadState(sess[u]) /\ sess[u].due
          /\ Then(u, "purge", a)
          /\ todo' = others
          /\ UNCHANGED <<sess, disk, temp, published, troubles>>
    /\ Steady
    /\ UNCHANGED <<phase, file, xfer, call, plain, peer, acked, reported, ticks, plains>>

(* runGC: the ticker. *)
CollectGarbage ==
    /\ Serving /\ todo["gc"] = {} /\ ~Busy("gc") /\ call = NoCall
    /\ \E u \in Upload : Known(u) /\ (sess[u].due \/ Unresolved(u))
    /\ todo' = [todo EXCEPT !["gc"] = {u \in Upload : Known(u)}]
    /\ UNCHANGED <<phase, store, files, xfer, pend, call, plain, peer, ghost, bound>>

(* removeSessionTemp, after the session ended; when it fails the file stays *)
(* hidden and protected until the record expires.                          *)
removeSessionTemp(u) ==
    /\ pend[u].step = "temp"
    /\ \/ temp' = [temp EXCEPT ![u] = None] /\ UNCHANGED troubles
       \/ temp[u] # None /\ Trouble /\ UNCHANGED temp
    /\ Then(u, "paths", pend[u].by)
    /\ UNCHANGED <<phase, store, disk, file, xfer, todo, call, plain, peer, ghost,
                   ticks, plains>>

releasePaths(u) ==
    /\ pend[u].step = "paths"
    /\ LET t == sess[u].target IN
       IF targets[t] = u
       THEN /\ targets' = [targets EXCEPT ![t] = None]
            /\ activeUploads' = activeUploads - 1
            /\ reservedBytes' = reservedBytes - Size(sess[u].content)
       ELSE UNCHANGED <<targets, activeUploads, reservedBytes>>
    /\ temps' = IF temp[u] = None THEN temps \ {u} ELSE temps
    /\ pend' = [pend EXCEPT ![u] = NoPend]
    /\ UNCHANGED <<phase, sess, requests, files, xfer, todo, call, plain, peer, ghost, bound>>

(* MUTANT: gives the slot of a record that expired back once more. *)
PurgeReleases(u) ==
    /\ pend[u].step = "purge"
    /\ \/ /\ temp' = [temp EXCEPT ![u] = None]
          /\ sess' = [sess EXCEPT ![u] = None]
          /\ requests' = [r \in 1..MaxRequests |->
                            IF r = sess[u].request /\ requests[r] = u THEN None ELSE requests[r]]
          /\ temps' = temps \ {u}
          /\ Then(u, "forget", pend[u].by)
          /\ activeUploads' = activeUploads - 1
          /\ UNCHANGED troubles
       \/ /\ temp[u] # None /\ Trouble
          /\ pend' = [pend EXCEPT ![u] = NoPend]
          /\ UNCHANGED <<temp, sess, requests, temps, activeUploads>>
    /\ UNCHANGED <<phase, targets, reservedBytes, disk, file, xfer, todo,
                   call, plain, peer, ghost, ticks, plains>>

(* The end of a record that expired: its file, the maps, the record.       *)
Purge(u) ==
    /\ pend[u].step = "purge"
    /\ \/ /\ temp' = [temp EXCEPT ![u] = None]
          /\ sess' = [sess EXCEPT ![u] = None]
          /\ requests' = [r \in 1..MaxRequests |->
                            IF r = sess[u].request /\ requests[r] = u THEN None ELSE requests[r]]
          /\ temps' = temps \ {u}
          /\ Then(u, "forget", pend[u].by)
          /\ UNCHANGED troubles
       \/ /\ temp[u] # None /\ Trouble
          /\ pend' = [pend EXCEPT ![u] = NoPend]
          /\ UNCHANGED <<temp, sess, requests, temps>>
    /\ UNCHANGED <<phase, targets, activeUploads, reservedBytes, disk, file, xfer, todo,
                   call, plain, peer, ghost, ticks, plains>>

Forget(u) ==
    /\ pend[u].step = "forget"
    /\ \/ disk' = [disk EXCEPT ![u] = None] /\ UNCHANGED troubles
       \/ Trouble /\ UNCHANGED disk
    /\ pend' = [pend EXCEPT ![u] = NoPend]
    /\ UNCHANGED <<phase, store, temp, file, xfer, todo, call, plain, peer, ghost,
                   ticks, plains>>

(* ExpiresAt passes.  A TTL outlasts the statements after an unlock. *)
Tick(u) ==
    /\ ticks < MaxTicks /\ ticks' = ticks + 1
    /\ pend[u] = NoPend
    /\ \/ Known(u) /\ ~sess[u].due
       \/ disk[u] # None /\ ~disk[u].due
    /\ sess' = IF Known(u) THEN [sess EXCEPT ![u].due = TRUE] ELSE sess
    /\ disk' = IF disk[u] # None THEN [disk EXCEPT ![u].due = TRUE] ELSE disk
    /\ Steady
    /\ UNCHANGED <<phase, temp, file, calls, plain, peer, ghost, troubles, plains>>

-----------------------------------------------------------------------------
(* Session calls.  Create and Get clean up first; the call acts when its   *)
(* list is done, and answers when nothing is left to do after the unlock.  *)

MayAct(op) == Serving /\ call.op = op /\ call.answer = None
              /\ todo["call"] = {} /\ ~Busy("call")

Answered(a) == call' = [call EXCEPT !.answer = a]

CreateAgain ==
    /\ MayAct("create") /\ requests[call.request] # None
    /\ LET u == requests[call.request] IN
       \/ /\ ~Unresolved(u)
          /\ Answered([code |-> "ok", upload |-> u, state |-> sess[u].state])
          /\ UNCHANGED <<sess, disk, temp, pend, published, troubles>>
       \/ /\ Unresolved(u)
          /\ \E ok \in BOOLEAN :
                /\ Reconcile(u, ok, "call")
                /\ Answered(IF ok THEN [code |-> "ok", upload |-> u,
                                        state |-> reconciled(u).state]
                                  ELSE [code |-> "error"])
    /\ Steady
    /\ UNCHANGED <<phase, file, xfer, todo, plain, peer, acked, reported, ticks, plains>>

MayCreate ==
    /\ ~mutationConflicts(call.target)
    /\ exclusive => file[call.target] = "none"   \* validateUploadTarget
    /\ activeUploads < MaxUploadSessions
    /\ Size(call.content) <= MaxStagingBytes - reservedBytes

CreateRefused ==
    /\ MayAct("create") /\ requests[call.request] = None /\ ~MayCreate
    /\ Answered([code |-> "error"])
    /\ UNCHANGED <<phase, store, files, xfer, pend, todo, plain, peer, ghost, bound>>

(* The record is persisted, then the staging file made; a failure of the   *)
(* second undoes the first.                                                *)
CreateUploadSession(u) ==
    /\ MayAct("create") /\ requests[call.request] = None /\ MayCreate /\ u \in newUploadID
    /\ LET r == [target |-> call.target, request |-> call.request, content |-> call.content,
                 state |-> "OPEN", committed |-> 0, due |-> FALSE] IN
       \/ /\ persistRecord(u, r, TRUE)
          /\ sess' = [sess EXCEPT ![u] = r]
          /\ temp' = [temp EXCEPT ![u] = [len |-> 0, synced |-> 0, good |-> TRUE]]
          /\ requests' = [requests EXCEPT ![r.request] = u]
          /\ targets' = [targets EXCEPT ![r.target] = u]
          /\ temps' = temps \cup {u}
          /\ activeUploads' = activeUploads + 1
          /\ reservedBytes' = reservedBytes + Size(r.content)
          /\ Answered([code |-> "ok", upload |-> u, state |-> "OPEN"])
       \/ /\ persistRecord(u, r, FALSE)
          /\ Answered([code |-> "error"])
          /\ UNCHANGED <<store, temp>>
    /\ acked' = [acked EXCEPT ![u] = 0]
    /\ UNCHANGED <<phase, file, xfer, pend, todo, plain, peer, published, reported,
                   ticks, plains>>

GetUploadSession ==
    /\ MayAct("get")
    /\ LET u == call.upload IN
       \/ /\ ~Known(u)
          /\ Answered([code |-> "NotFound"])
          /\ UNCHANGED <<sess, disk, temp, pend, published, troubles>>
       \/ /\ Known(u) /\ ~Unresolved(u)
          /\ Answered([code |-> "ok", upload |-> u, state |-> sess[u].state])
          /\ UNCHANGED <<sess, disk, temp, pend, published, troubles>>
       \/ /\ Known(u) /\ Unresolved(u)
          /\ \E ok \in BOOLEAN :
                /\ Reconcile(u, ok, "call")
                /\ Answered(IF ok THEN [code |-> "ok", upload |-> u,
                                        state |-> reconciled(u).state]
                                  ELSE [code |-> "error"])
    /\ Steady
    /\ UNCHANGED <<phase, file, xfer, todo, plain, peer, acked, reported, ticks, plains>>

(* A finalization that was taken back to OPEN is aborted in a second step. *)
AbortUploadSession ==
    /\ MayAct("abort")
    /\ LET u == call.upload IN
       \/ /\ ~(Known(u) /\ ~active(u) /\ isOpenUploadState(sess[u]))
          /\ Answered([code |-> "ended"])
          /\ UNCHANGED <<sess, disk, temp, pend, published, troubles>>
       \/ /\ Known(u) /\ Unresolved(u)
          /\ \E ok \in BOOLEAN :
                /\ Reconcile(u, ok, "call")
                /\ IF ok /\ reconciled(u).state = "OPEN" THEN UNCHANGED call
                   ELSE Answered([code |-> "ended"])
       \/ /\ Known(u) /\ ~active(u) /\ sess[u].state = "OPEN"
          /\ \E ok \in BOOLEAN :
                /\ Saved(u, Ended(sess[u], "ABORTED"), ok)
                /\ IF ok THEN Then(u, "temp", "call") ELSE UNCHANGED pend
          /\ Answered([code |-> "ended"])
          /\ UNCHANGED <<temp, published>>
    /\ Steady
    /\ UNCHANGED <<phase, file, xfer, todo, plain, peer, acked, reported, ticks, plains>>

-----------------------------------------------------------------------------
(* TransferUpload *)

At(u, at) == xfer' = [xfer EXCEPT ![u].at = at]

(* The client is still at the other end of the stream of u. *)
Connected(u) == client.at \in {"stream", "await"} /\ local[client.target].upload = u

(* Cut off after n bytes. *)
Truncated(u, n) == [temp EXCEPT ![u].len = n, ![u].synced = IF @ < n THEN @ ELSE n]

MayOpen(u) == Known(u) /\ ~active(u) /\ sess[u].state = "OPEN" /\ ~sess[u].due
              /\ temp[u] # None

(* The open frame: bytes after the committed offset are cut off.  A staging *)
(* file that cannot be opened ends the stream and leaves the session OPEN.  *)
TransferOpens(u) ==
    /\ Serving /\ client.at = "open" /\ local[client.target].upload = u
    /\ \/ /\ ~MayOpen(u)
          /\ client' = [client EXCEPT !.at = "query", !.why = IF Known(u) /\ active(u)
                                                               THEN "retry" ELSE "error"]
          /\ UNCHANGED <<xfer, temp>>
       \/ /\ MayOpen(u)
          /\ client' = [client EXCEPT !.at = "stream"]
          /\ xfer' = [xfer EXCEPT ![u] = [at |-> "recv", accepted |-> sess[u].committed,
                                          mark |-> sess[u].committed]]
          /\ temp' = Truncated(u, sess[u].committed)
    /\ UNCHANGED <<phase, store, disk, file, pend, todo, call, plain, local, source, exclusive,
                   nextReq, ghost, bound>>

(* checkpointUpload: nothing to do, or sync and persist the offset. *)
Synced(u) == temp' = IF temp[u] = None THEN temp ELSE [temp EXCEPT ![u].synced = temp[u].len]

(* MUTANT: the offset is answered before it is saved. *)
checkpointUnsaved(u, n, ok) ==
    IF n = sess[u].committed THEN ok /\ UNCHANGED <<sess, disk, troubles>>
    ELSE /\ ok
         /\ sess' = [sess EXCEPT ![u].committed = n, ![u].due = FALSE]
         /\ UNCHANGED <<disk, troubles>>

checkpointUpload(u, n, ok) ==
    IF n = sess[u].committed THEN ok /\ UNCHANGED <<sess, disk, troubles>>
    ELSE IF sess[u].state # "OPEN" THEN ~ok /\ UNCHANGED <<sess, disk, troubles>>
    ELSE Saved(u, [sess[u] EXCEPT !.committed = n, !.due = FALSE], ok)

(* A chunk of one byte, with the checkpoint that its handler makes when    *)
(* enough bytes, or enough time, went by.                                  *)
TransferChunk(u, check) ==
    LET n == xfer[u].accepted + 1
        t == sess[u].target
        new == IF temp[u] = None THEN None
               ELSE [temp[u] EXCEPT !.len = n, !.good = @ /\ source = sess[u].content,
                                    !.synced = IF check THEN n ELSE @]
    IN
    /\ xfer[u].at = "recv" /\ client.at = "stream" /\ Connected(u)
    /\ n <= Size(sess[u].content)
    /\ check \/ n - xfer[u].mark < CheckpointBytes
    /\ temp' = [temp EXCEPT ![u] = new]
    /\ \/ /\ ~check
          /\ xfer' = [xfer EXCEPT ![u].accepted = n]
          /\ UNCHANGED <<sess, disk, troubles, acked>>
       \/ /\ check
          /\ checkpointUpload(u, n, TRUE)
          /\ xfer' = [xfer EXCEPT ![u].accepted = n, ![u].mark = n]
          /\ acked' = [acked EXCEPT ![u] = n]
       \/ /\ check
          /\ checkpointUpload(u, n, FALSE)
          /\ At(u, "left")
          /\ UNCHANGED acked
    /\ Steady
    /\ UNCHANGED <<phase, file, pend, todo, call, plain, peer, published, reported,
                   ticks, plains>>

(* Recv fails, or the client half-closed: what was accepted is kept. *)
TransferBreaks(u) ==
    /\ xfer[u].at = "recv" /\ ~Connected(u)
    /\ \E ok \in BOOLEAN : checkpointUpload(u, xfer[u].accepted, ok)
    /\ Synced(u)
    /\ At(u, "left")
    /\ Steady
    /\ UNCHANGED <<phase, file, pend, todo, call, plain, peer, ghost, ticks, plains>>

TransferFinish(u) ==
    /\ xfer[u].at = "finish"
    /\ \E ok \in BOOLEAN :
          /\ checkpointUpload(u, xfer[u].accepted, ok)
          /\ At(u, IF ok THEN "finalize" ELSE "left")
    /\ Synced(u)
    /\ Steady
    /\ UNCHANGED <<phase, file, pend, todo, call, plain, peer, ghost, ticks, plains>>

(* finalizeUpload *)

Finalize(u) ==
    /\ xfer[u].at = "finalize"
    /\ \/ /\ ~(sess[u].state = "OPEN" /\ sess[u].committed = Size(sess[u].content))
          /\ At(u, "left")
          /\ UNCHANGED <<sess, disk, troubles>>
       \/ /\ sess[u].state = "OPEN" /\ sess[u].committed = Size(sess[u].content)
          /\ \E ok \in BOOLEAN :
                /\ Saved(u, [sess[u] EXCEPT !.state = "FINALIZING"], ok)
                /\ At(u, IF ok THEN "verify" ELSE "left")
    /\ Steady
    /\ UNCHANGED <<phase, temp, file, pend, todo, call, plain, peer, ghost, ticks, plains>>

(* MUTANT: keeps what the session reserved. *)
failUploadKeeps(u) ==
    LET r == Ended(sess[u], "FAILED") IN
    /\ \E ok \in BOOLEAN : persistRecord(u, r, ok)
    /\ sess' = [sess EXCEPT ![u] = r]
    /\ UNCHANGED pend
    /\ At(u, "left")

(* MUTANT: releases the target and leaves the staging file. *)
failUploadLeaves(u) ==
    LET r == Ended(sess[u], "FAILED") IN
    /\ \E ok \in BOOLEAN : persistRecord(u, r, ok)
    /\ sess' = [sess EXCEPT ![u] = r]
    /\ Then(u, "paths", "xfer")
    /\ At(u, "left")

(* failUpload: FAILED in memory whether or not it could be saved. *)
failUpload(u) ==
    LET r == Ended(sess[u], "FAILED") IN
    /\ \E ok \in BOOLEAN : persistRecord(u, r, ok)
    /\ sess' = [sess EXCEPT ![u] = r]
    /\ Then(u, "temp", "xfer")
    /\ At(u, "left")

whole(u) == temp[u] # None /\ temp[u].len = Size(sess[u].content) /\ temp[u].good
targetValid(u) == exclusive => file[sess[u].target] = "none"

Verify(u) ==
    /\ xfer[u].at = "verify"
    /\ \/ /\ whole(u) /\ targetValid(u)
          /\ At(u, "publish")
          /\ Synced(u)
          /\ UNCHANGED <<sess, disk, pend, troubles>>
       \/ /\ ~(whole(u) /\ targetValid(u))
          /\ failUpload(u)
          /\ UNCHANGED temp
    /\ Steady
    /\ UNCHANGED <<phase, file, todo, call, plain, peer, ghost, ticks, plains>>

(* Rename, or Link, of the staging file.  Link refuses an existing target. *)
Publish(u) ==
    LET t == sess[u].target
        can == temp[u] # None /\ (exclusive => file[t] = "none")
    IN
    /\ xfer[u].at = "publish"
    /\ \/ /\ can
          /\ file' = [file EXCEPT ![t] = IF whole(u) THEN sess[u].content ELSE "torn"]
          /\ published' = published \cup {<<u, t, sess[u].content>>}
          /\ temp' = IF exclusive THEN temp ELSE [temp EXCEPT ![u] = None]
          /\ At(u, IF exclusive THEN "unlink" ELSE "complete")
          /\ UNCHANGED <<sess, disk, pend, troubles>>
       \/ /\ ~can
          /\ failUpload(u)
          /\ UNCHANGED <<temp, file, published>>
    /\ Steady
    /\ UNCHANGED <<phase, todo, call, plain, peer, acked, reported, ticks, plains>>

(* After Link: when the staging file stays, the session stays FINALIZING. *)
Unlink(u) ==
    /\ xfer[u].at = "unlink"
    /\ \/ temp[u] # None /\ temp' = [temp EXCEPT ![u] = None] /\ At(u, "complete")
          /\ UNCHANGED troubles
       \/ temp[u] = None /\ At(u, "left") /\ UNCHANGED <<temp, troubles>>
       \/ temp[u] # None /\ Trouble
          /\ At(u, "left") /\ UNCHANGED temp
    /\ UNCHANGED <<phase, store, disk, file, pend, todo, call, plain, peer, ghost,
                   ticks, plains>>

(* COMPLETE in memory whether or not it could be saved.  A target that is  *)
(* no longer there cannot be described: the session stays FINALIZING.      *)
Complete(u) ==
    LET r == Ended(sess[u], "COMPLETE") IN
    /\ xfer[u].at = "complete"
    /\ \/ /\ file[sess[u].target] = "none"
          /\ At(u, "left")
          /\ UNCHANGED <<sess, disk, pend, troubles>>
       \/ /\ file[sess[u].target] # "none"
          /\ sess' = [sess EXCEPT ![u] = r]
          /\ Then(u, "paths", "xfer")
          /\ \E ok \in BOOLEAN : persistRecord(u, r, ok) /\ At(u, IF ok THEN "done" ELSE "left")
    /\ Steady
    /\ UNCHANGED <<phase, temp, file, todo, call, plain, peer, ghost, ticks, plains>>

-----------------------------------------------------------------------------
(* The client, uploadFileResumable *)

(* finishLocalUploadState *)
Reported(t) ==
    /\ reported' = reported \cup {<<t, local[t].content>>}
    /\ local' = [local EXCEPT ![t] = None]
    /\ client' = Idle

(* MUTANT: a stream that failed leaves the session active. *)
EndTransferStaysActive(u) ==
    /\ xfer[u].at = "done" /\ pend[u] = NoPend
    /\ xfer' = [xfer EXCEPT ![u] = NoXfer]
    /\ IF Connected(u) THEN Reported(client.target) ELSE UNCHANGED <<local, client, reported>>
    /\ UNCHANGED <<phase, store, files, pend, todo, call, plain, source, exclusive, nextReq,
                   acked, published, bound>>

(* The end of the handler: the session is free again, and the client, if   *)
(* it is still there, reads the complete frame or the error.               *)
EndTransfer(u) ==
    /\ xfer[u].at \in {"done", "left"} /\ pend[u] = NoPend
    /\ xfer' = [xfer EXCEPT ![u] = NoXfer]
    /\ IF ~Connected(u) THEN UNCHANGED <<local, client, reported>>
       ELSE IF xfer[u].at = "done" THEN Reported(client.target)
       ELSE /\ client' = [client EXCEPT !.at = "query", !.why = "error"]
            /\ UNCHANGED <<local, reported>>
    /\ UNCHANGED <<phase, store, files, pend, todo, call, plain, source, exclusive, nextReq,
                   acked, published, bound>>

(* A new request identifier, in the state file before it is used; at the   *)
(* bound of identifiers the client gives up instead.                       *)
NewRequest(t, c) ==
    IF nextReq <= MaxRequests
    THEN /\ local' = [local EXCEPT ![t] = [request |-> nextReq, upload |-> None, content |-> c]]
         /\ nextReq' = nextReq + 1
         /\ client' = [at |-> "ensure", target |-> t, why |-> "none"]
    ELSE client' = Idle /\ UNCHANGED <<local, nextReq>>

server == <<phase, store, files, xfer, pend, plain>>

UploadFile(t) ==
    /\ client = Idle
    /\ IF local[t] = None THEN NewRequest(t, source)
       ELSE IF local[t].content = source
       THEN /\ client' = [at |-> "ensure", target |-> t, why |-> "none"]
            /\ UNCHANGED <<local, nextReq>>
       ELSE IF local[t].upload = None THEN NewRequest(t, source)
       ELSE /\ client' = [at |-> "stale", target |-> t, why |-> "stale"]
            /\ UNCHANGED <<local, nextReq>>
    /\ UNCHANGED <<server, todo, call, source, exclusive, ghost, bound>>

BeginCall(op) ==
    LET l == local[client.target] IN
    /\ Serving /\ call = NoCall /\ \A a \in Caller : todo[a] = {} /\ ~Busy(a)
    /\ call' = [op |-> op, target |-> client.target, upload |-> l.upload,
                request |-> l.request, content |-> l.content, answer |-> None]
    /\ todo' = [todo EXCEPT !["call"] = IF op = "abort" THEN {} ELSE {u \in Upload : Known(u)}]

(* The calls of ensureUploadSession, of a stale state, of a failed attempt. *)
ClientCalls ==
    /\ \/ /\ client.at = "stale" /\ BeginCall("abort")
          /\ client' = [client EXCEPT !.at = "wait"]
       \/ /\ client.at = "ensure" /\ local[client.target].upload # None /\ BeginCall("get")
          /\ client' = [client EXCEPT !.at = "wait", !.why = "known"]
       \/ /\ client.at = "ensure" /\ local[client.target].upload = None /\ BeginCall("create")
          /\ client' = [client EXCEPT !.at = "wait", !.why = "new"]
       \/ /\ client.at = "query" /\ BeginCall("get")
          /\ client' = [client EXCEPT !.at = "wait"]
    /\ UNCHANGED <<server, local, source, exclusive, nextReq, ghost, bound>>

Again(at) == client' = [client EXCEPT !.at = at] /\ UNCHANGED <<local, nextReq, reported>>
Stop      == client' = Idle /\ UNCHANGED <<local, nextReq, reported>>

(* ensureUploadSession, with the session that Get or Create returned. *)
Ensured(a) ==
    LET t == client.target IN
    CASE a.state = "COMPLETE"  -> Reported(t) /\ UNCHANGED nextReq
      [] a.state = "OPEN"      -> /\ local' = [local EXCEPT ![t].upload = a.upload]
                                  /\ client' = [client EXCEPT !.at = "open"]
                                  /\ UNCHANGED <<nextReq, reported>>
      [] a.state = "FINALIZING" -> /\ local' = [local EXCEPT ![t].upload = a.upload]
                                   /\ client' = Idle
                                   /\ UNCHANGED <<nextReq, reported>>
      [] OTHER -> NewRequest(t, local[t].content) /\ UNCHANGED reported   \* replaceLocalUploadRequest

ClientReads(a) ==
    LET t == client.target IN
    CASE client.why = "stale" -> NewRequest(t, source) /\ UNCHANGED reported
      [] client.why = "known" ->
            IF a.code = "ok" THEN Ensured(a)
            ELSE IF a.code = "NotFound"
            THEN /\ local' = [local EXCEPT ![t].upload = None]
                 /\ client' = [client EXCEPT !.at = "ensure"]
                 /\ UNCHANGED <<nextReq, reported>>
            ELSE Stop
      [] client.why = "new" -> IF a.code = "ok" THEN Ensured(a) ELSE Stop
      [] OTHER ->
            IF a.code = "ok" /\ a.state = "COMPLETE" THEN Reported(t) /\ UNCHANGED nextReq
            ELSE \/ Stop
                 \/ a.code = "ok" /\ client.why = "retry" /\ Again("open")

(* The answer to a call is lost. *)
Unavailable ==
    CASE client.why = "stale" -> NewRequest(client.target, source) /\ UNCHANGED reported
      [] client.why = "retry" -> Again("open") \/ Stop
      [] OTHER                -> Stop

CallReturns ==
    /\ call.answer # None /\ ~Busy("call")
    /\ call' = NoCall
    /\ client.at = "wait"
    /\ ClientReads(call.answer) \/ Unavailable
    /\ UNCHANGED <<server, todo, source, exclusive, acked, published, bound>>

(* The call is not made: the controller is down. *)
CallFails ==
    /\ ~Serving /\ client.at \in {"wait", "stale", "ensure", "query"}
    /\ Unavailable
    /\ UNCHANGED <<server, todo, call, source, exclusive, acked, published, bound>>

(* Stat before an attempt. *)
SourceChanged ==
    /\ client.at = "open" /\ local[client.target].content # source
    /\ Stop
    /\ UNCHANGED <<server, todo, call, source, exclusive, acked, published, bound>>

SendFinish(u) ==
    /\ client.at = "stream" /\ Connected(u)
    /\ xfer[u].at = "recv" /\ xfer[u].accepted = Size(sess[u].content)
    /\ At(u, "finish")
    /\ client' = [client EXCEPT !.at = "await"]
    /\ UNCHANGED <<phase, store, files, pend, todo, call, plain, local, source, exclusive, nextReq,
                   ghost, bound>>

StreamBreaks ==
    /\ client.at \in {"open", "stream", "await"}
    /\ client' = [client EXCEPT !.at = "query", !.why = "retry"]
    /\ UNCHANGED <<server, todo, call, local, source, exclusive, nextReq, ghost, bound>>

ClientCrashes ==
    /\ client # Idle /\ client.at # "wait" /\ Trouble
    /\ client' = Idle
    /\ UNCHANGED <<server, todo, call, local, source, exclusive, nextReq, ghost, ticks, plains>>

EditSource ==
    /\ Trouble
    /\ source' \in Content \ {source}
    /\ UNCHANGED <<server, todo, call, local, exclusive, client, nextReq, ghost, ticks, plains>>

-----------------------------------------------------------------------------
(* Plain calls: Upload, Remove, Move, Chmod, Mkdir of a target, or of the   *)
(* directory with everything in it.  The check for active transfers is      *)
(* made at the start; the path is touched later, without a lock and without *)
(* a second check.  Which call it is shows in what it does in the end.      *)

PlainChecks(path) ==
    /\ Serving /\ plain = "none"
    /\ IF path = "tree" THEN ~TreeConflicts ELSE ~mutationConflicts(path)
    /\ plain' = path
    /\ plains < MaxPlain /\ plains' = plains + 1
    /\ UNCHANGED <<phase, store, files, calls, peer, ghost, troubles, ticks>>

PlainEnds ==
    /\ Serving /\ plain' = "none"
    /\ UNCHANGED <<phase, store, disk, calls, peer, ghost, bound>>

(* Upload, or a Move onto the path, or Mkdir; with or without overwrite. *)
PlainWrites(t, f, over) ==
    /\ plain = t /\ PlainEnds
    /\ file' = IF over \/ file[t] = "none" THEN [file EXCEPT ![t] = f] ELSE file
    /\ UNCHANGED temp

(* Remove, or a Move away from the path. *)
PlainRemoves(t) ==
    /\ plain = t /\ PlainEnds
    /\ file' = [file EXCEPT ![t] = "none"]
    /\ UNCHANGED temp

PlainChmod(t, f) ==
    /\ plain = t /\ PlainEnds
    /\ file[t] # "none" /\ file' = [file EXCEPT ![t] = f]
    /\ UNCHANGED temp

PlainRemovesTree ==
    /\ plain = "tree" /\ PlainEnds
    /\ file' = [t \in Target |-> "none"]
    /\ temp' = [u \in Upload |-> None]

-----------------------------------------------------------------------------
(* Crash and restart *)

Crash ==
    /\ phase # "down" /\ Trouble
    /\ phase' = "down"
    /\ sess' = [u \in Upload |-> None]
    /\ requests' = [r \in 1..MaxRequests |-> None]
    /\ targets' = [t \in Target |-> None]
    /\ temps' = {} /\ activeUploads' = 0 /\ reservedBytes' = 0
    /\ \E keep \in [Upload -> 0..Bytes] :
          /\ \A u \in Upload : IF temp[u] = None THEN keep[u] = 0
                               ELSE keep[u] \in temp[u].synced..temp[u].len
          /\ temp' = [u \in Upload |-> IF temp[u] = None THEN None
                                       ELSE [temp[u] EXCEPT !.len = keep[u]]]
    /\ xfer' = [u \in Upload |-> NoXfer]
    /\ pend' = [u \in Upload |-> NoPend]
    /\ todo' = [a \in Caller |-> {}]
    /\ call' = NoCall /\ plain' = "none"
    /\ UNCHANGED <<disk, file, peer, ghost, ticks, plains>>

(* newTransferStore *)
Restart ==
    /\ phase = "down"
    /\ phase' = "loading"
    /\ todo' = [todo EXCEPT !["gc"] = {u \in Upload : disk[u] # None}]
    /\ UNCHANGED <<store, files, xfer, pend, call, plain, peer, ghost, bound>>

(* recoverSession *)
recovered(u) ==
    LET r == disk[u] IN
    IF ~isOpenUploadState(r) THEN r
    ELSE IF r.state = "FINALIZING" /\ verifyPublishedUpload(r)
            /\ (temp[u] = None \/ temp[u].len >= r.committed)
         THEN Ended(r, "COMPLETE")
    ELSE IF temp[u] = None \/ temp[u].len < r.committed THEN Ended(r, "FAILED")
    ELSE [r EXCEPT !.state = "OPEN"]

(* loadSessions, one record.  An error keeps the controller from starting. *)
LoadSession(u) ==
    LET r == recovered(u)  t == r.target IN
    /\ phase = "loading" /\ u \in todo["gc"]
    /\ temp' = IF isOpenUploadState(r) THEN Truncated(u, r.committed)
               ELSE IF r.state \in {"COMPLETE"} \/ ~isOpenUploadState(disk[u])
               THEN [temp EXCEPT ![u] = None] ELSE temp
    /\ \/ /\ IF r = disk[u] THEN UNCHANGED <<disk, troubles>> ELSE persistRecord(u, r, TRUE)
          /\ sess' = [sess EXCEPT ![u] = r]
          /\ requests' = [requests EXCEPT ![r.request] = u]
          /\ Placed(u, r)
          /\ IF isOpenUploadState(r)
             THEN /\ targets' = [targets EXCEPT ![t] = u]
                  /\ temps' = temps \cup {u}
                  /\ activeUploads' = activeUploads + 1
                  /\ reservedBytes' = reservedBytes + Size(r.content)
             ELSE UNCHANGED <<targets, temps, activeUploads, reservedBytes>>
          /\ todo' = [todo EXCEPT !["gc"] = @ \ {u}]
          /\ UNCHANGED phase
       \/ /\ r # disk[u] /\ persistRecord(u, r, FALSE)
          /\ phase' = "down"
          /\ sess' = [v \in Upload |-> None]
          /\ requests' = [q \in 1..MaxRequests |-> None]
          /\ targets' = [v \in Target |-> None]
          /\ temps' = {} /\ activeUploads' = 0 /\ reservedBytes' = 0
          /\ todo' = [todo EXCEPT !["gc"] = {}]
          /\ UNCHANGED published
    /\ UNCHANGED <<file, xfer, pend, call, plain, peer, acked, reported, ticks, plains>>

(* The first cleanup, and the end of it. *)
Loaded ==
    /\ phase \in {"loading", "sweeping"} /\ todo["gc"] = {} /\ ~Busy("gc")
    /\ IF phase = "loading"
       THEN /\ phase' = "sweeping"
            /\ todo' = [todo EXCEPT !["gc"] = {u \in Upload : Known(u)}]
       ELSE phase' = "serving" /\ UNCHANGED todo
    /\ UNCHANGED <<store, files, xfer, pend, call, plain, peer, ghost, bound>>

-----------------------------------------------------------------------------
Cleanup(u) == \E a \in Caller : Sweep(a, u)

Released(u) == removeSessionTemp(u) \/ releasePaths(u) \/ Purge(u) \/ Forget(u)

Transfer(u) ==
    \/ TransferBreaks(u) \/ TransferFinish(u) \/ Finalize(u) \/ Verify(u)
    \/ Publish(u) \/ Unlink(u) \/ Complete(u) \/ EndTransfer(u)

Served ==
    \/ CreateAgain \/ CreateRefused \/ (\E u \in Upload : CreateUploadSession(u))
    \/ GetUploadSession \/ AbortUploadSession \/ CallReturns

Streaming(u) == TransferOpens(u) \/ SendFinish(u) \/ \E check \in BOOLEAN : TransferChunk(u, check)

Client ==
    \/ \E t \in Target : UploadFile(t)
    \/ ClientCalls \/ CallFails \/ SourceChanged \/ StreamBreaks \/ ClientCrashes

Plain ==
    \/ \E path \in Target \cup {"tree"} : PlainChecks(path)
    \/ \E t \in Target, f \in Foreign : PlainChmod(t, f) \/ \E over \in BOOLEAN : PlainWrites(t, f, over)
    \/ \E t \in Target : PlainRemoves(t)
    \/ PlainRemovesTree

Next ==
    \/ \E u \in Upload : Cleanup(u) \/ Released(u) \/ Transfer(u) \/ Streaming(u) \/ Tick(u)
    \/ Served \/ Client \/ EditSource \/ Plain \/ CollectGarbage
    \/ Crash \/ Restart \/ (\E u \in Upload : LoadSession(u)) \/ Loaded

Spec == Init /\ [][Next]_vars

(***************************************************************************)
(* The controller's goroutines run, the clock advances, the ticker of the  *)
(* garbage collector ticks, a crashed controller is started again, and a   *)
(* client that streams goes on streaming or loses its stream.              *)
(***************************************************************************)
Fairness ==
    /\ \A u \in Upload :
          /\ WF_vars(Cleanup(u)) /\ WF_vars(Released(u)) /\ WF_vars(Transfer(u)) /\ WF_vars(Tick(u))
          /\ WF_vars(Streaming(u) \/ StreamBreaks) /\ WF_vars(LoadSession(u))
    /\ WF_vars(Served) /\ WF_vars(CollectGarbage) /\ WF_vars(Restart) /\ WF_vars(Loaded)

FairSpec == Spec /\ Fairness

-----------------------------------------------------------------------------
(* Whatever is lost, retried or restarted, the workspace and the clients   *)
(* see the contract.                                                       *)
UC == INSTANCE UploadContract
Contract == UC!Spec

(* The bytes that the sessions of reserved targets declare *)
DeclaredBytes(tg, ss) ==
    MapThenSumSet(LAMBDA t : Size(ss[tg[t]].content), {t \in Target : tg[t] # None})

(* The counters and the reservations agree with the sessions and keep to   *)
(* the limits: a target is reserved by at most one session, by every       *)
(* session that is open and by none that ended, but for the moment between *)
(* the unlock and the release (transfer_upload.go:60-131,                  *)
(* transfer_store.go:616).  It needs EndsAreSaved.                         *)
Reservations ==
    /\ TypeOK
    /\ activeUploads = Cardinality({t \in Target : targets[t] # None})
    /\ reservedBytes = DeclaredBytes(targets, sess)
    /\ \A u \in Upload : Known(u) =>
          (targets[sess[u].target] = u) <=>
              (isOpenUploadState(sess[u]) \/ pend[u].step \in {"temp", "paths"})
    /\ \A u \in Upload : Known(u) /\ isOpenUploadState(sess[u]) => u \in temps

(* A record that the next start takes up again, unless its target has the  *)
(* content by then (recoverSession) *)
Reopens(u) ==
    /\ disk[u] # None /\ isOpenUploadState(disk[u])
    /\ temp[u] # None /\ temp[u].len >= disk[u].committed

(* failUpload could not save the end, and cannot remove the staging file   *)
(* either (transfer_upload.go:562-565): both errors are ignored.           *)
BothLost(u) ==
    /\ removeSessionTemp(u) /\ temp'[u] # None
    /\ disk[u] # None /\ isOpenUploadState(disk[u])

(* What ended and gave its reservation back is not taken up again.  It is  *)
(* so in every behaviour without a step BothLost, and not in the others.   *)
EndsAreSaved ==
    \A u \in Upload :
        (Known(u) /\ ~isOpenUploadState(sess[u]) /\ pend[u].step \notin {"temp", "paths"})
            => ~Reopens(u)

(* "At most one active resumable upload per target"                        *)
(* (docs/file-transfer-resume-design-v1.md:88).  loadSessions does not     *)
(* look for a second one (transfer_store.go:315): violated where           *)
(* EndsAreSaved was not true before a restart.                             *)
OneUploadPerTarget ==
    \A u, v \in Upload :
        /\ Known(u) /\ isOpenUploadState(sess[u])
        /\ Known(v) /\ isOpenUploadState(sess[v])
        /\ sess[u].target = sess[v].target
        => u = v

(* What a client was told is committed survives any crash: it is in the    *)
(* record, and on disk in the staging file, unless a plain call took that   *)
(* away, even when a failed save left the record ahead of the memory.       *)
AnsweredIsDurable ==
    \A u \in Upload : disk[u] # None /\ isOpenUploadState(disk[u]) =>
        /\ acked[u] <= disk[u].committed
        /\ temp[u] # None => acked[u] <= temp[u].synced

(* The reservation of every session is given back. *)
ReservationsEnd == \A t \in Target : targets[t] # None ~> targets[t] = None
=============================================================================
