--------------------------- MODULE ResumableDownload ---------------------------
(***************************************************************************)
(* Resumable downloads: DownloadRange of the controller                    *)
(* (src/internal/files/transfer_download.go) and the client that resumes   *)
(* and publishes (src/pkg/client/file_transfer.go).                        *)
(*                                                                         *)
(* Concurrent: one client, whose calls a lock file keeps apart; a handler  *)
(* per stream, which may outlive its connection; whoever edits the source  *)
(* while it is read, in place or by replacing it.  The client may die at   *)
(* any point and lose what was not synced.                                 *)
(*                                                                         *)
(* Abstractions.  A file is a sequence of bytes, a chunk is one byte, and  *)
(* a digest is what it was taken of.  A revision is the number of the last *)
(* edit: every edit changes the times, size or identity it is made of      *)
(* (fileRevision), and a file that was replaced has a new change time.     *)
(***************************************************************************)
EXTENDS Integers, FiniteSets, Sequences

CONSTANTS
    Contents,       \* bound: what editors write
    Original,       \* bound: what the source holds first
    Stream,         \* bound: streams that exist at a time
    Slots,          \* MaxConcurrentDownloads
    MaxAttempts,    \* maxTransferAttempts
    Window,         \* bound: frames in flight
    MaxEdits,       \* bound
    MaxTroubles     \* bound: crashes, lost connections, failing calls of the system

ASSUME DownloadAssumption ==
    /\ Original \in Contents
    /\ \A c \in Contents : c \in Seq(STRING)
    /\ IsFiniteSet(Stream) /\ "none" \notin Stream
    /\ Slots \in Nat \ {0} /\ Window \in Nat \ {0}
    /\ MaxAttempts \in Nat /\ MaxAttempts > 1
    /\ MaxEdits \in Nat /\ MaxTroubles \in Nat

VARIABLES
    versions,   \* what the source held, its revision is the last index
    stream,     \* each stream: the request, its handler and the frames in flight
    saved,      \* the state file of the client, or NoState
    part,       \* the part file it names, or NoPart
    target,     \* the local file
    call,       \* downloadFileResumable
    troubles    \* bound

vars == <<versions, stream, saved, part, target, call, troubles>>
local == <<saved, part, target, call>>

Revision == Len(versions)
Source == versions[Revision]
First(n, s) == SubSeq(s, 1, n)

NoState == [offset |-> -1, rev |-> 0]
NewState == [offset |-> 0, rev |-> 0]
NoPart == [exists |-> FALSE, bytes |-> <<>>, synced |-> 0]
NewPart == [NoPart EXCEPT !.exists = TRUE]
Free == [pc |-> "free", at |-> 0, rev |-> 0, prefix |-> <<>>,
         size |-> 0, stamp |-> 0, began |-> 0, view |-> <<>>, sent |-> <<>>,
         out |-> <<>>, up |-> FALSE]
Idle == [pc |-> "idle", offset |-> 0, rev |-> 0, stream |-> "none", meta |-> -1,
         durable |-> 0, attempt |-> 0, restarted |-> FALSE, why |-> "none", ok |-> FALSE,
         quiet |-> TRUE,    \* ghost: no edit and no trouble since the call began
         since |-> 0]       \* ghost: the revision it began at
Calling == call.pc # "idle"

Disturbed == IF Calling THEN [call EXCEPT !.quiet = FALSE] ELSE call
(* A trouble, and what becomes of the call it meets *)
Trouble(next) ==
    /\ troubles < MaxTroubles /\ troubles' = troubles + 1
    /\ call' = [next EXCEPT !.quiet = next.pc = "idle"]

-----------------------------------------------------------------------------
(* DownloadRange *)

Frame(kind, byte, rev, size, of) ==
    [kind |-> kind, byte |-> byte, rev |-> rev, size |-> size, of |-> of]
Last(s, frame) == stream' = [stream EXCEPT ![s] =
    [Free EXCEPT !.pc = "done", !.up = TRUE, !.out = Append(stream[s].out, frame)]]
Fails(s, how) == Last(s, Frame(how, "", 0, 0, <<>>))
Serving == {s \in Stream : stream[s].pc \in {"prefix", "sending"}}
Room(s) == stream[s].up /\ Len(stream[s].out) < Window

(* The slot is taken, the file opened and looked at. *)
Looks(s) ==
    IF stream[s].rev # 0 /\ stream[s].rev # Revision THEN Fails(s, "changed")
    ELSE IF stream[s].at > Len(Source) THEN Fails(s, "refused")
    ELSE stream' = [stream EXCEPT ![s].pc = "prefix", ![s].began = Revision,
                ![s].stamp = Revision, ![s].view = Source, ![s].size = Len(Source)]
AdmitsAny(s) ==          \* mutant: the slots are not counted
    stream[s].pc = "queued" /\ stream[s].up /\ Looks(s) /\ UNCHANGED <<versions, local, troubles>>
Admit(s) ==
    /\ stream[s].pc = "queued" /\ stream[s].up /\ Cardinality(Serving) < Slots
    /\ Looks(s)
    /\ UNCHANGED <<versions, local, troubles>>

(* or it is gone, or not a regular file. *)
OpenFails(s) ==
    /\ stream[s].pc = "queued" /\ stream[s].up /\ Cardinality(Serving) < Slots
    /\ Trouble(call)
    /\ Fails(s, "refused")
    /\ UNCHANGED <<versions, saved, part, target>>

(* The prefix the client holds is read and compared. *)
CheckPrefix(s) ==
    /\ stream[s].pc = "prefix" /\ Room(s)
    /\ LET at == stream[s].at
       IN  IF at > Len(stream[s].view) \/ First(at, stream[s].view) # stream[s].prefix
           THEN Fails(s, "changed")
           ELSE stream' = [stream EXCEPT ![s] = [stream[s] EXCEPT !.pc = "sending",
                    !.sent = stream[s].prefix, !.prefix = <<>>, !.at = 0, !.rev = 0,
                    !.out = Append(stream[s].out,
                                Frame("metadata", "", stream[s].began, stream[s].size, <<>>))]]
    /\ UNCHANGED <<versions, local, troubles>>

(* Chunks up to the size the file had, of what it holds now *)
SendChunk(s) ==
    /\ stream[s].pc = "sending" /\ Room(s)
    /\ Len(stream[s].sent) < stream[s].size
    /\ LET next == Len(stream[s].sent) + 1
       IN  IF next > Len(stream[s].view) THEN Fails(s, "changed")
           ELSE stream' = [stream EXCEPT ![s] = [stream[s] EXCEPT
                    !.sent = Append(stream[s].sent, stream[s].view[next]),
                    !.out = Append(stream[s].out, Frame("chunk", stream[s].view[next], 0, 0, <<>>))]]
    /\ UNCHANGED <<versions, local, troubles>>

SummaryUnlooked(s) ==    \* mutant: the file is not looked at again
    /\ stream[s].pc = "sending" /\ Room(s)
    /\ Len(stream[s].sent) = stream[s].size
    /\ Last(s, Frame("summary", "", stream[s].began, stream[s].size, stream[s].sent))
    /\ UNCHANGED <<versions, local, troubles>>

(* The file is looked at again before the summary is sent. *)
SendSummary(s) ==
    /\ stream[s].pc = "sending" /\ Room(s)
    /\ Len(stream[s].sent) = stream[s].size
    /\ IF stream[s].stamp # stream[s].began THEN Fails(s, "aborted")
       ELSE Last(s, Frame("summary", "", stream[s].began, stream[s].size, stream[s].sent))
    /\ UNCHANGED <<versions, local, troubles>>

(* A handler whose connection is gone returns. *)
HandlerEnds(s) ==
    /\ stream[s].pc # "free" /\ ~stream[s].up
    /\ stream' = [stream EXCEPT ![s] = Free]
    /\ UNCHANGED <<versions, local, troubles>>

(* Someone edits the source: handlers see another stamp, and the new bytes *)
(* when it was written in place.                                           *)
EditSource(bytes, inPlace) ==
    /\ Revision <= MaxEdits
    /\ versions' = Append(versions, bytes)
    /\ stream' = [s \in Stream |->
            IF s \notin Serving THEN stream[s]
            ELSE [stream[s] EXCEPT !.stamp = Revision + 1,
                                   !.view = IF inPlace THEN bytes ELSE @]]
    /\ call' = Disturbed
    /\ UNCHANGED <<saved, part, target, troubles>>

-----------------------------------------------------------------------------
(* downloadFileResumable *)

Ends(ok) == [Idle EXCEPT !.pc = "ended", !.ok = ok, !.quiet = call.quiet]
Keeps == UNCHANGED <<versions, target>>

(* prepareDownloadState: the state of an earlier call, or a new one.  A part *)
(* that cannot be resumed from ends the call.                                *)
Inconsistent == Len(part.bytes) < saved.offset \/ (saved.offset > 0 /\ saved.rev = 0)
Prepared(caller, state) ==
    [caller EXCEPT !.pc = "prepared", !.why = "none", !.durable = 0,
                   !.offset = state.offset, !.rev = state.rev]
PrepareNew(caller) ==
    \/ /\ saved' = NewState /\ part' = NewPart
       /\ call' = Prepared(caller, NewState)
       /\ UNCHANGED troubles
    \/ /\ saved' = NoState /\ part' = NoPart
       /\ Trouble([caller EXCEPT !.pc = "ended"])
DownloadFile ==
    /\ ~Calling
    /\ LET caller == [Idle EXCEPT !.pc = "called", !.since = Revision]
       IN  IF saved = NoState \/ ~part.exists THEN PrepareNew(caller)
           ELSE /\ call' = IF Inconsistent THEN [caller EXCEPT !.pc = "ended"]
                           ELSE Prepared(caller, saved)
                /\ UNCHANGED <<saved, part, troubles>>
    /\ UNCHANGED stream /\ Keeps

(* downloadRangeAttempt, to the request: what is past the durable offset is *)
(* cut off, the rest is hashed.                                             *)
Attempt(s) ==
    /\ call.pc = "prepared" /\ call.attempt < MaxAttempts
    /\ stream[s].pc = "free"
    /\ LET held == First(call.offset, part.bytes)
       IN  /\ part' = [part EXCEPT !.bytes = held, !.synced = call.offset]
           /\ stream' = [stream EXCEPT ![s] = [Free EXCEPT !.pc = "queued", !.up = TRUE,
                            !.at = call.offset, !.prefix = held,
                            !.rev = IF call.offset > 0 THEN call.rev ELSE 0]]
    /\ call' = [call EXCEPT !.pc = "receiving", !.stream = s, !.meta = -1, !.durable = call.offset]
    /\ UNCHANGED <<saved, troubles>> /\ Keeps

Accepted == Len(part.bytes)
Received(kind) ==
    /\ call.pc = "receiving" /\ stream[call.stream].out # <<>>
    /\ Head(stream[call.stream].out).kind = kind
Frame1 == Head(stream[call.stream].out)
Taken == [stream EXCEPT ![call.stream].out = Tail(@)]
Dropped == [stream EXCEPT ![call.stream] =
    IF @.pc = "done" THEN Free ELSE [Free EXCEPT !.pc = stream[call.stream].pc]]

(* checkpointLocalDownload: the part is synced, then the offset saved. *)
Checkpoint(caller) ==
    /\ part' = [part EXCEPT !.synced = Accepted]
    /\ saved' = [saved EXCEPT !.offset = Accepted]
    /\ call' = [caller EXCEPT !.offset = Accepted, !.durable = Accepted]
    /\ UNCHANGED troubles
CheckpointFails ==       \* the sync or the state file: the call ends
    /\ Trouble(Ends(FALSE))
    /\ UNCHANGED <<saved, part>>

ReceiveMetadata ==
    /\ Received("metadata")
    /\ \/ /\ saved' = [saved EXCEPT !.rev = Frame1.rev]
          /\ call' = [call EXCEPT !.rev = Frame1.rev, !.meta = Frame1.size]
          /\ stream' = Taken /\ UNCHANGED <<part, troubles>>
       \/ /\ Frame1.rev # call.rev          \* the state file cannot be written
          /\ CheckpointFails /\ stream' = Dropped
    /\ Keeps

(* A chunk is written; now and then there is a checkpoint. *)
ReceiveChunk ==
    /\ Received("chunk") /\ call.meta # -1
    /\ LET grown == Append(part.bytes, Frame1.byte)
       IN  \/ /\ part' = [part EXCEPT !.bytes = grown]
              /\ stream' = Taken /\ UNCHANGED <<saved, call, troubles>>
           \/ /\ part' = [part EXCEPT !.bytes = grown, !.synced = Len(grown)]
              /\ saved' = [saved EXCEPT !.offset = Len(grown)]
              /\ call' = [call EXCEPT !.offset = Len(grown), !.durable = Len(grown)]
              /\ stream' = Taken /\ UNCHANGED troubles
           \/ CheckpointFails /\ stream' = Dropped
    /\ Keeps

ReceiveSummary ==
    /\ Received("summary")
    /\ IF call.meta = Accepted /\ Frame1.rev = call.rev /\ Frame1.of = part.bytes
       THEN Checkpoint([call EXCEPT !.pc = "verified", !.stream = "none", !.meta = -1]) \/ CheckpointFails
       ELSE call' = Ends(FALSE) /\ UNCHANGED <<saved, part, troubles>>
    /\ stream' = Dropped
    /\ Keeps

(* The attempt fails: what was accepted is kept for the next one. *)
Broken(why, caller) ==
    LET next == [caller EXCEPT !.pc = "failing", !.why = why, !.stream = "none", !.meta = -1]
    IN  IF Accepted = call.durable THEN call' = next /\ UNCHANGED <<saved, part, troubles>>
        ELSE Checkpoint(next) \/ CheckpointFails
ReceiveError ==
    /\ \E why \in {"changed", "aborted", "refused"} :
          Received(why) /\ Broken(why, call)
    /\ stream' = Dropped /\ Keeps

(* The connection breaks, or the controller restarts; frames are lost. *)
ConnectionBreaks ==
    /\ call.pc = "receiving" /\ stream[call.stream].up
    /\ troubles < MaxTroubles /\ troubles' = troubles + 1
    /\ part' = [part EXCEPT !.synced = Accepted]
    /\ saved' = [saved EXCEPT !.offset = Accepted]
    /\ call' = [call EXCEPT !.pc = "failing", !.why = "unavailable", !.stream = "none", !.meta = -1,
                            !.offset = Accepted, !.durable = Accepted, !.quiet = FALSE]
    /\ stream' = Dropped /\ Keeps

Revised == call.why \in {"changed", "aborted"}

KeepsStale ==            \* mutant: the stale part is kept, and the restart not remembered
    /\ call.pc = "failing" /\ Revised /\ ~call.restarted
    /\ call' = Prepared(call, saved)
    /\ UNCHANGED <<stream, saved, part, troubles>> /\ Keeps

(* A changed source starts the download over, once, *)
StartOver ==
    /\ call.pc = "failing" /\ Revised /\ ~call.restarted
    /\ PrepareNew([call EXCEPT !.restarted = TRUE, !.attempt = @ + 1])
    /\ UNCHANGED stream /\ Keeps

(* some errors are tried again, *)
TryAgain ==
    /\ call.pc = "failing" /\ (Revised => call.restarted)
    /\ call.why \in {"aborted", "unavailable"}
    /\ call' = [Prepared(call, saved) EXCEPT !.attempt = @ + 1]
    /\ UNCHANGED <<stream, saved, part, troubles>> /\ Keeps

(* and the others, or too many, end the call. *)
GiveUp ==
    /\ \/ call.pc = "failing" /\ (Revised => call.restarted)
             /\ call.why \notin {"aborted", "unavailable"}
       \/ call.pc = "prepared" /\ call.attempt = MaxAttempts
    /\ call' = Ends(FALSE)
    /\ UNCHANGED <<stream, saved, part, troubles>> /\ Keeps

(* The part gets its mode and is renamed, *)
Publish ==
    /\ call.pc = "verified"
    /\ \/ /\ target' = part.bytes /\ part' = NoPart
          /\ call' = [call EXCEPT !.pc = "published"]
          /\ UNCHANGED troubles
       \/ Trouble(Ends(FALSE)) /\ UNCHANGED <<target, part>>
    /\ UNCHANGED <<versions, stream, saved>>

(* then the state goes. *)
RemoveState ==
    /\ call.pc = "published"
    /\ \/ saved' = NoState /\ call' = Ends(TRUE) /\ UNCHANGED troubles
       \/ Trouble(Ends(FALSE)) /\ UNCHANGED saved
    /\ UNCHANGED <<stream, part>> /\ Keeps

Return ==
    /\ call.pc = "ended"
    /\ call' = Idle
    /\ UNCHANGED <<stream, saved, part, troubles>> /\ Keeps

(* The client dies, at worst with the machine: what was not synced may be lost. *)
ClientDies ==
    /\ Calling
    /\ troubles < MaxTroubles /\ troubles' = troubles + 1
    /\ call' = Idle
    /\ \E n \in part.synced..Len(part.bytes) :
            part' = [part EXCEPT !.bytes = First(n, @), !.synced = n]
    /\ stream' = IF call.stream = "none" THEN stream ELSE Dropped
    /\ UNCHANGED saved /\ Keeps

(* Someone changes the part between two calls. *)
PartEdited ==
    /\ ~Calling /\ part.bytes # <<>>
    /\ troubles < MaxTroubles /\ troubles' = troubles + 1
    /\ part' = [part EXCEPT !.bytes = [@ EXCEPT ![1] = "x"]]
    /\ UNCHANGED <<stream, saved, call>> /\ Keeps

Init ==
    /\ versions = <<Original>>
    /\ stream = [s \in Stream |-> Free]
    /\ saved = NoState /\ part = NoPart /\ target = <<"old">>
    /\ call = Idle /\ troubles = 0

Handler(s) == Admit(s) \/ CheckPrefix(s) \/ SendChunk(s) \/ SendSummary(s)
Client == (\E s \in Stream : Attempt(s)) \/ ReceiveMetadata \/ ReceiveChunk \/ ReceiveSummary
            \/ ReceiveError \/ StartOver \/ TryAgain \/ GiveUp \/ Publish \/ RemoveState \/ Return
Next == \/ \E s \in Stream : Handler(s) \/ HandlerEnds(s) \/ OpenFails(s)
        \/ \E bytes \in Contents, inPlace \in BOOLEAN : EditSource(bytes, inPlace)
        \/ DownloadFile \/ Client \/ ConnectionBreaks \/ ClientDies \/ PartEdited

(* A client that was called and handlers that can go on do, and a handler  *)
(* hears in the end that its connection is gone.                           *)
Spec == /\ Init /\ [][Next]_vars
        /\ WF_vars(Client)
        /\ \A s \in Stream : WF_vars(Handler(s)) /\ WF_vars(HandlerEnds(s))

-----------------------------------------------------------------------------
(* Properties *)

Bytes == (UNION {{c[i] : i \in DOMAIN c} : c \in Contents}) \cup {"x"}
TypeOK ==
    /\ versions \in Seq(Contents) /\ Revision <= MaxEdits + 1
    /\ \A s \in Stream :
         /\ stream[s].pc \in {"free", "queued", "prefix", "sending", "done"}
         /\ stream[s].at \in Nat /\ stream[s].rev \in 0..Revision
         /\ stream[s].began \in 0..Revision /\ stream[s].stamp \in 0..Revision
         /\ stream[s].sent \in Seq(Bytes) /\ stream[s].prefix \in Seq(Bytes)
         /\ Len(stream[s].out) <= Window + 1
    /\ Cardinality(Serving) <= Slots
    /\ saved \in [offset : Nat \cup {-1}, rev : 0..Revision]
    /\ part \in [exists : BOOLEAN, bytes : Seq(Bytes), synced : Nat]
    /\ target \in Seq(Bytes \cup {"old"})
    /\ call.pc \in {"idle", "prepared", "receiving", "failing", "verified", "published", "ended"}
    /\ call.attempt \in 0..MaxAttempts /\ troubles \in 0..MaxTroubles

(* What is published is whole and fresh: the bytes of one version that the  *)
(* source held while this call ran, however often it was edited, resumed,   *)
(* or its part damaged (transfer_download.go:138, file_transfer.go:562).    *)
PublishedIsAVersion ==
    call.pc = "published" => \E v \in call.since..Revision : target = versions[v]

(* What a client leaves behind, dying at any point, can be resumed from: no *)
(* later call ends because its part and its state do not agree              *)
(* (file_transfer.go:438, 576).                                             *)
AlwaysResumable == (saved # NoState /\ part.exists) => ~Inconsistent

(* A call during which nothing was edited and nothing failed succeeds,      *)
(* whatever earlier calls left: a stale part is noticed and replaced, never *)
(* an error to the caller (file_transfer.go:402).                           *)
QuietCallsSucceed == (call.pc = "ended" /\ call.quiet) => call.ok
DownloadsSafe == TypeOK /\ PublishedIsAVersion /\ AlwaysResumable /\ QuietCallsSucceed

(* Every call returns: handlers whose clients are gone give their slots     *)
(* back, and the attempts are counted (transfer_download.go:40,             *)
(* file_transfer.go:372).                                                   *)
DownloadsEnd == Calling ~> ~Calling

=============================================================================
