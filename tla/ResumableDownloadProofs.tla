----------------------- MODULE ResumableDownloadProofs -----------------------
(***************************************************************************)
(* Proofs about ResumableDownload: what is published is one version of the *)
(* source, what a client leaves behind can be resumed from, and a call     *)
(* that nothing disturbs succeeds, for any contents, edits and troubles.   *)
(***************************************************************************)
EXTENDS ResumableDownload, FiniteSetTheorems, SequenceTheorems, TLAPS

Errors == {"changed", "aborted", "refused"}
FrameRecord == [kind : {"metadata", "chunk", "summary"} \cup Errors, byte : Bytes \cup {""},
                rev : Nat, size : Nat, of : Seq(Bytes)]
StreamRecord == [pc : {"free", "queued", "prefix", "sending", "done"}, at : Nat, rev : Nat,
                 prefix : Seq(Bytes), size : Nat, stamp : Nat, began : Nat, view : Seq(Bytes),
                 sent : Seq(Bytes), out : Seq(FrameRecord), up : BOOLEAN]
SavedRecord == [offset : Nat \cup {-1}, rev : Nat]
PartRecord == [exists : BOOLEAN, bytes : Seq(Bytes), synced : Nat]
CallRecord == [pc : {"idle", "prepared", "receiving", "failing", "verified", "published", "ended"},
               offset : Nat, rev : Nat, stream : Stream \cup {"none"}, meta : Nat \cup {-1},
               durable : Nat, attempt : Nat, restarted : BOOLEAN, why : Errors \cup {"none", "unavailable"},
               ok : BOOLEAN, quiet : BOOLEAN, since : Nat]

Types ==
    /\ versions \in Seq(Contents) /\ Revision \in 1..MaxEdits + 1
    /\ stream \in [Stream -> StreamRecord]
    /\ \A s \in Stream : /\ stream[s].rev <= Revision /\ stream[s].began <= Revision
                         /\ stream[s].stamp <= Revision /\ Len(stream[s].out) <= Window + 1
    /\ saved \in SavedRecord /\ saved.rev <= Revision
    /\ part \in PartRecord
    /\ target \in Seq(Bytes \cup {"old"})
    /\ call \in CallRecord /\ call.attempt <= MaxAttempts
    /\ troubles \in 0..MaxTroubles

SlotsKept == Cardinality(Serving) <= Slots

(* The files of the client. *)
Files ==
    /\ part.synced <= Len(part.bytes)
    /\ saved # NoState => saved.offset \in Nat
    /\ saved # NoState /\ part.exists =>
          /\ saved.offset <= part.synced
          /\ saved.offset > 0 => saved.rev > 0
    /\ saved.rev > 0 => saved.offset <= Len(versions[saved.rev])

(* Whose stream is whose. *)
Streams ==
    /\ \A s \in Stream : stream[s].up <=> call.pc = "receiving" /\ call.stream = s
    /\ \A s \in Stream : ~stream[s].up => stream[s].out = <<>>
    /\ call.pc # "receiving" => call.stream = "none"
    /\ call.pc = "receiving" => call.stream \in Stream

(* What the call holds of its files. *)
Holding ==
    /\ call.pc \in {"prepared", "receiving", "failing", "verified"} =>
          /\ saved # NoState /\ part.exists
          /\ call.offset = saved.offset /\ call.rev = saved.rev
    /\ call.pc \in {"prepared", "receiving", "failing", "verified", "published"} =>
          call.since \in 1..Revision
    /\ call.pc = "receiving" => call.durable = call.offset
    /\ call.pc \in {"receiving", "failing"} => call.attempt < MaxAttempts
    /\ call.pc = "verified" => \E v \in call.since..Revision : part.bytes = versions[v]
    /\ call.pc = "published" => ~part.exists /\ \E v \in call.since..Revision : target = versions[v]

(* How a call goes that nothing disturbs. *)
Quiet ==
    /\ call.pc = "ended" /\ call.quiet => call.ok
    /\ call.quiet /\ call.pc \in {"prepared", "receiving", "failing"} =>
          /\ call.since = Revision
          /\ IF call.restarted THEN call.attempt = 1 ELSE call.attempt = 0
    /\ call.quiet /\ call.pc = "prepared" /\ call.restarted => call.offset = 0
    /\ call.quiet /\ call.pc = "failing" => call.why = "changed" /\ ~call.restarted
    /\ call.quiet /\ call.pc \in {"verified", "published"} => call.since = Revision

(* The frames in flight to the call that receives: the metadata unless it  *)
(* has come, then chunks.                                                  *)
Waits == IF call.meta = -1 THEN 1 ELSE 0

Frames(out, n, rev) ==
    /\ n >= Waits /\ rev \in call.since..Revision
    /\ \A i \in 1..n : out[i].kind = IF i <= Waits THEN "metadata" ELSE "chunk"
    /\ IF call.meta = -1 THEN out[1].rev = rev /\ out[1].size = Len(versions[rev])
       ELSE call.rev = rev /\ call.meta = Len(versions[rev])
    /\ Accepted + n - Waits <= Len(versions[rev])
    /\ \A i \in 1..n : i > Waits => out[i].byte \in Bytes

Carries(out, n, bytes) ==
    /\ Len(bytes) = Accepted + n - Waits
    /\ \A j \in 1..Accepted : bytes[j] = part.bytes[j]
    /\ \A i \in 1..n : i > Waits => out[i].byte = bytes[Accepted + i - Waits]

(* A handler whose client listens. *)
Before(st) ==
    /\ st.out = <<>> /\ call.meta = -1
    /\ st.prefix = part.bytes /\ st.at = Accepted
    /\ st.rev = IF st.at > 0 THEN call.rev ELSE 0
    /\ call.quiet /\ call.restarted => st.at = 0

Sees(st) ==
    /\ st.stamp = Revision /\ st.began \in call.since..Revision
    /\ st.size = Len(versions[st.began])
    /\ st.stamp = st.began => st.view = versions[st.began]

Finished(out) ==
    LET n    == Len(out) - 1
        last == out[n + 1]
    IN  /\ Len(out) > 0 /\ last.kind \in Errors \cup {"summary"}
        /\ last.kind = "summary" =>
              Frames(out, n, last.rev) /\ Carries(out, n, last.of) /\ last.of = versions[last.rev]
        /\ last.kind \in Errors =>
              /\ (n = 0 /\ call.meta = -1) \/ \E rev \in 1..Revision : Frames(out, n, rev)
              /\ call.quiet => last.kind = "changed" /\ ~call.restarted /\ n = 0 /\ call.meta = -1

Listens(st) ==
    /\ st.pc # "free"
    /\ call.meta = -1 => Accepted = call.offset
    /\ st.pc \in {"queued", "prefix"} => Before(st)
    /\ st.pc \in {"prefix", "sending"} => Sees(st)
    /\ st.pc = "prefix" => st.at <= st.size
    /\ st.pc = "sending" =>
          /\ Frames(st.out, Len(st.out), st.began) /\ Carries(st.out, Len(st.out), st.sent)
          /\ st.stamp = st.began => \A j \in 1..Len(st.sent) : st.sent[j] = st.view[j]
    /\ st.pc = "done" => Finished(st.out)

Talks == call.pc = "receiving" => Listens(stream[call.stream])

IInv == Types /\ SlotsKept /\ Files /\ Streams /\ Holding /\ Quiet /\ Talks

-----------------------------------------------------------------------------
(* Sequences and records. *)

LEMMA Appended ==
    ASSUME NEW S, NEW s \in Seq(S), NEW e \in S
    PROVE  /\ Append(s, e) \in Seq(S) /\ Len(Append(s, e)) = Len(s) + 1 /\ Append(s, e) # <<>>
           /\ \A i \in 1..Len(s) : Append(s, e)[i] = s[i]
           /\ Append(s, e)[Len(s) + 1] = e
  OBVIOUS

LEMMA FirstFacts ==
    ASSUME NEW S, NEW s \in Seq(S), NEW n \in 0..Len(s)
    PROVE  /\ First(n, s) \in Seq(S) /\ Len(First(n, s)) = n
           /\ \A i \in 1..n : First(n, s)[i] = s[i]
PROOF
<1>1. \A i \in 1..n : s[i] \in S
  BY ElementOfSeq, LenProperties
<1>2. n \in Int /\ 1 \in Int /\ Len(s) \in Nat
  BY LenProperties
<1> QED BY <1>1, <1>2, SubSeqProperties DEF First

LEMMA ContentBytes == \A c \in Contents : c \in Seq(Bytes)
PROOF
<1> SUFFICES ASSUME NEW c \in Contents PROVE c \in Seq(Bytes)
  OBVIOUS
<1>1. c \in Seq(STRING)
  BY DownloadAssumption
<1>2. Len(c) \in Nat /\ DOMAIN c = 1..Len(c) /\ c \in [1..Len(c) -> STRING]
  BY <1>1, LenProperties
<1>3. \A i \in 1..Len(c) : c[i] \in Bytes
  <2>1. ASSUME NEW i \in 1..Len(c) PROVE c[i] \in {c[j] : j \in DOMAIN c}
    BY <1>2, <2>1
  <2>2. {c[j] : j \in DOMAIN c} \in {{d[j] : j \in DOMAIN d} : d \in Contents}
    BY Zenon
  <2> QED BY <2>1, <2>2 DEF Bytes
<1>4. c \in [1..Len(c) -> Bytes]
  BY <1>2, <1>3
<1> QED BY <1>2, <1>4, SeqDef

LEMMA Versions ==
    ASSUME versions \in Seq(Contents)
    PROVE  /\ Revision \in Nat
           /\ \A v \in 1..Revision : versions[v] \in Seq(Bytes) /\ Len(versions[v]) \in Nat
PROOF
<1>1. \A v \in 1..Revision : versions[v] \in Contents
  BY ElementOfSeq DEF Revision
<1> QED BY <1>1, ContentBytes, LenProperties DEF Revision

LEMMA Frees ==
    /\ Free \in StreamRecord /\ ~Free.up /\ Free.out = <<>> /\ Free.pc = "free"
    /\ Free.rev = 0 /\ Free.began = 0 /\ Free.stamp = 0
  BY DEF Free, StreamRecord

(* The end of a handler. *)
LEMMA LastFacts ==
    ASSUME NEW s \in Stream, Types, NEW f \in FrameRecord, Last(s, f)
    PROVE  \E new \in StreamRecord :
              /\ stream' = [stream EXCEPT ![s] = new]
              /\ new.pc = "done" /\ new.up /\ new.rev = 0 /\ new.began = 0 /\ new.stamp = 0
              /\ new.out = Append(stream[s].out, f)
PROOF
<1>1. PICK out : out = Append(stream[s].out, f)
  OBVIOUS
<1>2. out \in Seq(FrameRecord)
  BY <1>1, Appended DEF Types, StreamRecord
<1>3. PICK free, new : free = Free /\ new = [free EXCEPT !.pc = "done", !.up = TRUE, !.out = out]
  OBVIOUS
<1>4. /\ new \in StreamRecord /\ new.pc = "done" /\ new.up /\ new.rev = 0 /\ new.began = 0 /\ new.stamp = 0
      /\ new.out = out
  <2>1. free \in StreamRecord /\ free.rev = 0 /\ free.began = 0 /\ free.stamp = 0
    BY <1>3, Frees
  <2> QED BY <1>2, <1>3, <2>1 DEF StreamRecord
<1>5. stream' = [stream EXCEPT ![s] = new]
  BY <1>1, <1>3 DEF Last
<1> QED BY <1>1, <1>4, <1>5

(* The slots *)
LEMMA SlotsStay ==
    ASSUME SlotsKept, Serving' \subseteq Serving
    PROVE  SlotsKept'
PROOF
<1>1. IsFiniteSet(Serving)
  <2>1. Serving \subseteq Stream /\ IsFiniteSet(Stream)
    BY DownloadAssumption DEF Serving
  <2> QED BY <2>1, FS_Subset
<1>2. IsFiniteSet(Serving') /\ Cardinality(Serving') <= Cardinality(Serving)
  BY <1>1, FS_Subset
<1>3. Cardinality(Serving) \in Nat /\ Cardinality(Serving') \in Nat
  BY <1>1, <1>2, FS_CardinalityType
<1> QED BY <1>2, <1>3, DownloadAssumption DEF SlotsKept

LEMMA SlotTaken ==
    ASSUME NEW s \in Stream, Cardinality(Serving) < Slots, Serving' \subseteq Serving \cup {s}
    PROVE  SlotsKept'
PROOF
<1>1. IsFiniteSet(Serving)
  <2>1. Serving \subseteq Stream /\ IsFiniteSet(Stream)
    BY DownloadAssumption DEF Serving
  <2> QED BY <2>1, FS_Subset
<1>2. /\ IsFiniteSet(Serving \cup {s}) /\ Cardinality(Serving) \in Nat
      /\ Cardinality(Serving \cup {s}) <= Cardinality(Serving) + 1
  <2>1. IsFiniteSet(Serving \cup {s}) /\ Cardinality(Serving) \in Nat
    BY <1>1, FS_AddElement, FS_CardinalityType
  <2>2. Cardinality(Serving \cup {s}) \in {Cardinality(Serving), Cardinality(Serving) + 1}
    BY <1>1, FS_AddElement
  <2> QED BY <2>1, <2>2
<1>3. IsFiniteSet(Serving') /\ Cardinality(Serving') <= Cardinality(Serving \cup {s})
  BY <1>2, FS_Subset
<1>4. Cardinality(Serving \cup {s}) \in Nat /\ Cardinality(Serving') \in Nat
  BY <1>2, <1>3, FS_CardinalityType
<1> QED BY <1>2, <1>3, <1>4, DownloadAssumption DEF SlotsKept

-----------------------------------------------------------------------------
(* A step of a handler. *)

(* The stream that has a client is the one of the call. *)
LEMMA Listened ==
    ASSUME IInv, NEW s \in Stream, stream[s].up
    PROVE  /\ Types /\ call.pc = "receiving" /\ call.stream = s /\ Listens(stream[s])
           /\ stream[s] \in StreamRecord /\ call \in CallRecord /\ part \in PartRecord
           /\ Accepted \in Nat /\ Revision \in Nat /\ Len(stream[s].out) \in Nat
           /\ call.since \in 1..Revision
           /\ (call.quiet => call.since = Revision)
           /\ part.bytes \in Seq(Bytes) /\ stream[s].out \in Seq(FrameRecord)
           /\ Waits \in {0, 1}
PROOF
<1>1. Types /\ call.pc = "receiving" /\ call.stream = s
  BY DEF IInv, Streams
<1>2. stream[s] \in StreamRecord /\ call \in CallRecord /\ part \in PartRecord
  BY <1>1 DEF Types
<1>3. stream[s].out \in Seq(FrameRecord) /\ part.bytes \in Seq(Bytes)
  BY <1>2 DEF StreamRecord, PartRecord
<1>4. Len(stream[s].out) \in Nat /\ Accepted \in Nat
  BY <1>3, LenProperties DEF Accepted
<1>5. Revision \in Nat
  BY <1>1, Versions DEF Types
<1> QED BY <1>1, <1>2, <1>3, <1>4, <1>5 DEF IInv, Talks, Holding, Quiet, Waits

LEMMA ListensStill ==
    ASSUME UNCHANGED <<versions, part, call>>, NEW st, Listens(st)
    PROVE  Listens(st)'
PROOF
<1>1. Revision' = Revision /\ Accepted' = Accepted /\ Waits' = Waits
  BY DEF Revision, Accepted, Waits
<1>2. ASSUME NEW out, NEW n, NEW rev PROVE Frames(out, n, rev) => Frames(out, n, rev)'
  BY <1>1 DEF Frames
<1>3. ASSUME NEW out, NEW n, NEW b PROVE Carries(out, n, b) => Carries(out, n, b)'
  BY <1>1 DEF Carries
<1>4. Before(st) => Before(st)'
  BY <1>1 DEF Before
<1>5. Sees(st) => Sees(st)'
  BY <1>1 DEF Sees
<1>6. Finished(st.out) => Finished(st.out)'
  BY <1>1, <1>2, <1>3 DEF Finished
<1> QED BY <1>1, <1>2, <1>3, <1>4, <1>5, <1>6 DEF Listens

LEMMA HandlerStep ==
    ASSUME IInv, NEW s \in Stream, stream[s].up, NEW new \in StreamRecord,
           stream' = [stream EXCEPT ![s] = new], new.up,
           new.rev <= Revision, new.began <= Revision, new.stamp <= Revision, Len(new.out) <= Window + 1,
           Listens(new), SlotsKept', UNCHANGED <<versions, saved, part, target, call, troubles>>
    PROVE  IInv'
PROOF
<1>1. Types /\ call.pc = "receiving" /\ call.stream = s
  BY Listened
<1>2. /\ \A v \in Stream \ {s} : stream'[v] = stream[v]
      /\ stream'[s] = new /\ stream' \in [Stream -> StreamRecord]
  BY <1>1 DEF Types
<1>3. Revision' = Revision /\ Accepted' = Accepted /\ Waits' = Waits
  BY DEF Revision, Accepted, Waits
<1>4. Types'
  BY <1>1, <1>2, <1>3 DEF Types
<1>5. Files' /\ Holding' /\ Quiet'
  BY <1>3 DEF IInv, Files, Holding, Quiet
<1>6. Streams'
  BY <1>1, <1>2 DEF IInv, Streams
<1>7. Talks'
  <2>1. Listens(new)'
    BY ListensStill
  <2> QED BY <1>1, <1>2, <2>1 DEF Talks
<1> QED BY <1>4, <1>5, <1>6, <1>7 DEF IInv

(* What is said of the first frames holds of any queue that begins with them. *)
LEMMA FramesAlike ==
    ASSUME NEW out, NEW more, NEW n \in Nat, \A i \in 1..n : more[i] = out[i], NEW rev, Waits \in {0, 1},
           Frames(out, n, rev)
    PROVE  Frames(more, n, rev)
PROOF
<1>1. n >= Waits /\ (call.meta = -1 => 1 \in 1..n)
  BY DEF Frames, Waits
<1> QED BY <1>1 DEF Frames

LEMMA CarriesAlike ==
    ASSUME NEW out, NEW more, NEW n \in Nat, \A i \in 1..n : more[i] = out[i], NEW bytes,
           Carries(out, n, bytes)
    PROVE  Carries(more, n, bytes)
  BY DEF Carries

(* A handler that fails. *)
LEMMA FailsStep ==
    ASSUME IInv, NEW s \in Stream, stream[s].up, NEW how \in Errors, Fails(s, how),
           Len(stream[s].out) <= Window, stream[s].pc # "done",
           UNCHANGED <<versions, saved, part, target, call, troubles>>,
           call.quiet => how = "changed" /\ ~call.restarted /\ stream[s].out = <<>> /\ call.meta = -1
    PROVE  IInv'
PROOF
<1>0. /\ Types /\ stream[s] \in StreamRecord /\ stream[s].out \in Seq(FrameRecord) /\ Waits \in {0, 1}
      /\ Listens(stream[s]) /\ Revision \in Nat /\ call.since \in 1..Revision
  BY Listened
<1>1. PICK f : f = Frame(how, "", 0, 0, <<>>)
  OBVIOUS
<1>2. f \in FrameRecord /\ f.kind = how
  <2>1. <<>> \in Seq(Bytes)
    BY EmptySeq, Zenon
  <2>2. "" \in Bytes \cup {""} /\ 0 \in Nat
    OBVIOUS
  <2>3. how \in {"metadata", "chunk", "summary"} \cup Errors
    OBVIOUS
  <2> QED BY <1>1, <2>1, <2>2, <2>3 DEF Frame, FrameRecord
<1>3. PICK new \in StreamRecord :
              /\ stream' = [stream EXCEPT ![s] = new]
              /\ new.pc = "done" /\ new.up /\ new.rev = 0 /\ new.began = 0 /\ new.stamp = 0
              /\ new.out = Append(stream[s].out, f)
  BY <1>0, <1>1, <1>2, LastFacts DEF Fails
<1>4. /\ Len(new.out) = Len(stream[s].out) + 1 /\ new.out[Len(new.out)] = f
      /\ \A i \in 1..Len(stream[s].out) : new.out[i] = stream[s].out[i]
      /\ Len(stream[s].out) \in Nat
  BY <1>0, <1>2, <1>3, Appended, LenProperties
<1>5. Finished(new.out)
  <2>1. PICK n \in Nat : n = Len(stream[s].out)
    BY <1>4
  <2>2. Len(new.out) - 1 = n /\ new.out[n + 1] = f /\ Len(new.out) > 0
    BY <1>4, <2>1
  <2>3. (n = 0 /\ call.meta = -1) \/ \E rev \in 1..Revision : Frames(new.out, n, rev)
    <3>1. CASE stream[s].pc \in {"queued", "prefix"}
      BY <1>0, <2>1, <3>1 DEF Listens, Before
    <3>2. CASE stream[s].pc = "sending"
      <4>1. Frames(stream[s].out, n, stream[s].began) /\ stream[s].began \in 1..Revision
        BY <1>0, <2>1, <3>2 DEF Listens, Sees
      <4>2. PICK old, more, rev : old = stream[s].out /\ more = new.out /\ rev = stream[s].began
        OBVIOUS
      <4>3. Frames(old, n, rev)
        BY <4>1, <4>2
      <4>6. \A i \in 1..n : more[i] = old[i]
        BY <1>4, <2>1, <4>2
      <4>7. n >= Waits /\ (call.meta = -1 => 1 \in 1..n)
        BY <2>1, <4>3 DEF Frames, Waits
      <4>4. Frames(more, n, rev)
        BY <4>3, <4>6, <4>7 DEF Frames
      <4>5. rev \in 1..Revision /\ Frames(new.out, n, rev)
        BY <4>1, <4>2, <4>4
      <4> QED BY <4>5
    <3> QED BY <1>0, <3>1, <3>2 DEF Listens, StreamRecord
  <2>4. call.quiet => how = "changed" /\ ~call.restarted /\ n = 0 /\ call.meta = -1
    BY <2>1
  <2>5. f.kind \in Errors /\ f.kind # "summary"
    BY <1>2 DEF Errors
  <2> QED BY <1>2, <2>2, <2>3, <2>4, <2>5 DEF Finished
<1>6. Listens(new)
  <2>1. call.meta = -1 => Accepted = call.offset
    BY <1>0 DEF Listens
  <2> QED BY <1>3, <1>5, <2>1 DEF Listens
<1>7. SlotsKept'
  <2>1. Serving' \subseteq Serving
    BY <1>0, <1>3 DEF Serving, Types
  <2> QED BY <2>1, SlotsStay DEF IInv
<1>8. Len(new.out) <= Window + 1
  BY <1>4, DownloadAssumption
<1>9. new.rev <= Revision /\ new.began <= Revision /\ new.stamp <= Revision
  BY <1>0, <1>3
<1> QED BY <1>3, <1>6, <1>7, <1>8, <1>9, HandlerStep

(* What the call holds fits the revision it is of. *)
LEMMA Fits ==
    ASSUME IInv, call.pc = "receiving"
    PROVE  /\ call.rev > 0 => Accepted <= Len(versions[call.rev])
           /\ Accepted > 0 => call.rev > 0
           /\ saved.rev = call.rev /\ saved # NoState /\ part.exists /\ saved.offset = call.offset
PROOF
<1>1. PICK s \in Stream : s = call.stream
  BY DEF IInv, Streams
<1>2. stream[s].up
  BY <1>1 DEF IInv, Streams
<1>3. /\ saved.rev = call.rev /\ saved # NoState /\ part.exists /\ saved.offset = call.offset
      /\ (saved.offset > 0 => saved.rev > 0) /\ (saved.rev > 0 => saved.offset <= Len(versions[saved.rev]))
  BY DEF IInv, Files, Holding
<1>4. Listens(stream[s]) /\ Accepted \in Nat /\ Types /\ Revision \in Nat /\ call.since \in 1..Revision
      /\ Len(stream[s].out) \in Nat /\ stream[s].pc \in {"free", "queued", "prefix", "sending", "done"}
  BY <1>2, Listened DEF StreamRecord
<1>5. CASE call.meta = -1
  BY <1>3, <1>4, <1>5 DEF Listens
<1>6. CASE call.meta # -1
  <2>1. ASSUME NEW out, NEW n \in Nat, NEW rev \in Nat, Frames(out, n, rev)
        PROVE  call.rev > 0 /\ Accepted <= Len(versions[call.rev])
    <3>1. call.rev = rev /\ rev \in call.since..Revision /\ Accepted + n - 0 <= Len(versions[rev])
      BY <1>6, <2>1 DEF Frames, Waits
    <3>2. Len(versions[rev]) \in Nat
      BY <1>4, <3>1, Versions DEF Types
    <3> QED BY <1>4, <3>1, <3>2
  <2>2. stream[s].pc \in {"sending", "done"}
    BY <1>4, <1>6 DEF Listens, Before
  <2>3. CASE stream[s].pc = "sending"
    <3>1. Frames(stream[s].out, Len(stream[s].out), stream[s].began) /\ stream[s].began \in Nat
      BY <1>4, <2>3 DEF Listens, Sees
    <3> QED BY <1>3, <1>4, <2>1, <3>1
  <2>4. CASE stream[s].pc = "done"
    <3>1. PICK n : n = Len(stream[s].out) - 1
      OBVIOUS
    <3>2. n \in Nat /\ Finished(stream[s].out)
      BY <1>4, <2>4, <3>1 DEF Listens, Finished
    <3>3. \E rev \in Nat : Frames(stream[s].out, n, rev)
      <4>1. CASE stream[s].out[n + 1].kind = "summary"
        <5>1. Frames(stream[s].out, n, stream[s].out[n + 1].rev)
          BY <3>1, <3>2, <4>1 DEF Finished
        <5>2. stream[s].out[n + 1].rev \in Nat
          BY <1>4, <5>1 DEF Frames
        <5> QED BY <5>1, <5>2, Zenon
      <4>2. CASE stream[s].out[n + 1].kind \in Errors
        BY <1>4, <1>6, <3>1, <3>2, <4>2 DEF Finished
      <4>3. stream[s].out[n + 1].kind \in Errors \cup {"summary"}
        BY <3>1, <3>2 DEF Finished
      <4> QED BY <4>1, <4>2, <4>3
    <3> QED BY <1>3, <2>1, <3>2, <3>3
  <2> QED BY <2>2, <2>3, <2>4
<1> QED BY <1>5, <1>6

LEMMA AdmitStep ==
    ASSUME IInv, NEW s \in Stream, Admit(s)
    PROVE  IInv'
PROOF
<1>0. /\ Types /\ stream[s] \in StreamRecord /\ stream[s].out = <<>> /\ Len(stream[s].out) = 0
      /\ Listens(stream[s]) /\ Revision \in Nat /\ call.since \in 1..Revision /\ stream[s].up
      /\ call.pc = "receiving" /\ stream[s].pc = "queued" /\ Before(stream[s]) /\ Accepted \in Nat
      /\ (call.meta = -1 /\ Accepted = call.offset)
  BY Listened DEF Admit, Listens, Before
<1>1. /\ Looks(s) /\ Cardinality(Serving) < Slots
      /\ UNCHANGED <<versions, saved, part, target, call, troubles>>
  BY DEF Admit, local
<1>2. Source \in Seq(Bytes) /\ Len(Source) \in Nat /\ Source = versions[Revision]
  BY <1>0, Versions DEF Types, Source
<1>3. CASE stream[s].rev # 0 /\ stream[s].rev # Revision
  <2>1. Fails(s, "changed")
    BY <1>1, <1>3 DEF Looks
  <2>2. call.quiet => ~call.restarted
    BY <1>0, <1>3 DEF Before
  <2> QED BY <1>0, <1>1, <2>1, <2>2, FailsStep, DownloadAssumption DEF Errors
<1>4. CASE ~(stream[s].rev # 0 /\ stream[s].rev # Revision)
  <2>1. stream[s].at <= Len(Source)
    <3>1. CASE stream[s].at > 0
      <4>1. call.rev > 0 /\ call.rev = Revision
        BY <1>0, <1>4, <3>1, Fits DEF Before
      <4> QED BY <1>0, <1>2, <4>1, Fits DEF Before
    <3> QED BY <1>0, <1>2, <3>1 DEF StreamRecord
  <2>2. stream' = [stream EXCEPT ![s].pc = "prefix", ![s].began = Revision,
                ![s].stamp = Revision, ![s].view = Source, ![s].size = Len(Source)]
    <3>1. ~(stream[s].at > Len(Source))
      BY <1>0, <1>2, <2>1 DEF StreamRecord
    <3> QED BY <1>1, <1>4, <3>1 DEF Looks
  <2>3. PICK st, rev, view, size : st = stream[s] /\ rev = Revision /\ view = Source /\ size = Len(Source)
    OBVIOUS
  <2>4. PICK new : new = [st EXCEPT !.pc = "prefix", !.began = rev, !.stamp = rev, !.view = view, !.size = size]
    OBVIOUS
  <2>5. /\ new \in StreamRecord /\ new.pc = "prefix" /\ new.began = rev /\ new.stamp = rev /\ new.view = view
        /\ new.size = size /\ new.out = st.out /\ new.up = st.up /\ new.rev = st.rev /\ new.at = st.at
        /\ new.prefix = st.prefix
    BY <1>0, <1>2, <2>3, <2>4 DEF StreamRecord
  <2>6. stream' = [stream EXCEPT ![s] = new]
    BY <1>0, <2>2, <2>3, <2>4 DEF Types
  <2>7. Listens(new)
    <3>1. Before(new)
      BY <1>0, <2>3, <2>5 DEF Before
    <3>2. Sees(new)
      BY <1>0, <1>2, <2>3, <2>5 DEF Sees
    <3> QED BY <1>0, <2>1, <2>3, <2>5, <3>1, <3>2 DEF Listens
  <2>8. SlotsKept'
    <3>1. Serving' \subseteq Serving \cup {s}
      BY <1>0, <2>6 DEF Serving, Types
    <3> QED BY <1>1, <3>1, SlotTaken
  <2>9. stream[s].rev <= Revision /\ Len(stream[s].out) <= Window + 1
    BY <1>0 DEF Types
  <2>10. new.rev <= Revision /\ new.began <= Revision /\ new.stamp <= Revision /\ Len(new.out) <= Window + 1
         /\ new.up /\ stream[s].up
    BY <1>0, <2>3, <2>5, <2>9
  <2> QED BY <1>1, <2>5, <2>6, <2>7, <2>8, <2>10, HandlerStep
<1> QED BY <1>3, <1>4

LEMMA OpenFailsStep ==
    ASSUME IInv, NEW s \in Stream, OpenFails(s)
    PROVE  IInv'
PROOF
<1>0. /\ Types /\ stream[s] \in StreamRecord /\ stream[s].out = <<>> /\ stream[s].up
      /\ call.pc = "receiving" /\ stream[s].pc = "queued" /\ call.meta = -1 /\ Accepted = call.offset
      /\ call.stream = s /\ call \in CallRecord /\ Revision \in Nat
  BY Listened DEF OpenFails, Listens, Before
<1>1. /\ Fails(s, "refused") /\ UNCHANGED <<versions, saved, part, target>>
      /\ troubles < MaxTroubles /\ troubles' = troubles + 1
      /\ call' = [call EXCEPT !.quiet = FALSE]
  BY <1>0 DEF OpenFails, Trouble
<1>2. PICK f : f = Frame("refused", "", 0, 0, <<>>)
  OBVIOUS
<1>3. f \in FrameRecord /\ f.kind = "refused"
  <2>1. <<>> \in Seq(Bytes)
    BY EmptySeq, Zenon
  <2>2. "" \in Bytes \cup {""} /\ 0 \in Nat
    OBVIOUS
  <2>3. "refused" \in {"metadata", "chunk", "summary"} \cup Errors
    BY DEF Errors
  <2> QED BY <1>2, <2>1, <2>2, <2>3 DEF Frame, FrameRecord
<1>4. PICK new \in StreamRecord :
              /\ stream' = [stream EXCEPT ![s] = new]
              /\ new.pc = "done" /\ new.up /\ new.rev = 0 /\ new.began = 0 /\ new.stamp = 0
              /\ new.out = Append(stream[s].out, f)
  BY <1>0, <1>1, <1>2, <1>3, LastFacts DEF Fails
<1>5. /\ Len(new.out) = 1 /\ new.out[1] = f
  BY <1>0, <1>3, <1>4
<1>6. /\ call' \in CallRecord /\ ~call'.quiet /\ call'.pc = call.pc /\ call'.stream = call.stream
      /\ call'.since = call.since /\ call'.offset = call.offset /\ call'.rev = call.rev
      /\ call'.meta = call.meta /\ call'.durable = call.durable /\ call'.attempt = call.attempt
  BY <1>0, <1>1 DEF CallRecord
<1>7. /\ \A v \in Stream \ {s} : stream'[v] = stream[v]
      /\ stream'[s] = new /\ stream' \in [Stream -> StreamRecord]
  BY <1>0, <1>4 DEF Types
<1>8. Revision' = Revision /\ Accepted' = Accepted
  BY <1>1 DEF Revision, Accepted
<1>9. Types'
  <2>1. Len(new.out) <= Window + 1
    BY <1>5, DownloadAssumption
  <2>2. troubles' \in 0..MaxTroubles
    BY <1>0, <1>1, DownloadAssumption DEF Types
  <2>3. /\ versions' \in Seq(Contents) /\ Revision' \in 1..MaxEdits + 1 /\ saved' \in SavedRecord
        /\ saved'.rev <= Revision' /\ part' \in PartRecord /\ target' \in Seq(Bytes \cup {"old"})
    BY <1>0, <1>1, <1>8 DEF Types
  <2>4. \A v \in Stream : /\ stream'[v].rev <= Revision' /\ stream'[v].began <= Revision'
                           /\ stream'[v].stamp <= Revision' /\ Len(stream'[v].out) <= Window + 1
    <3>1. new.rev <= Revision' /\ new.began <= Revision' /\ new.stamp <= Revision'
      BY <1>0, <1>4, <1>8
    <3>2. ASSUME NEW v \in Stream, v # s
          PROVE  /\ stream'[v].rev <= Revision' /\ stream'[v].began <= Revision'
                 /\ stream'[v].stamp <= Revision' /\ Len(stream'[v].out) <= Window + 1
      <4>1. stream'[v] = stream[v]
        BY <1>7, <3>2
      <4> QED BY <1>0, <1>8, <4>1 DEF Types
    <3> QED BY <1>7, <2>1, <3>1, <3>2
  <2>5. call' \in CallRecord /\ call'.attempt <= MaxAttempts
    BY <1>0, <1>6 DEF Types
  <2> QED BY <1>7, <2>2, <2>3, <2>4, <2>5 DEF Types
<1>10. SlotsKept'
  <2>1. Serving' \subseteq Serving
    BY <1>4, <1>7 DEF Serving
  <2> QED BY <2>1, SlotsStay DEF IInv
<1>11. Files' /\ Holding' /\ Quiet'
  BY <1>0, <1>1, <1>6, <1>8 DEF IInv, Files, Holding, Quiet
<1>12. Streams'
  BY <1>0, <1>4, <1>6, <1>7 DEF IInv, Streams
<1>13. Talks'
  <2>1. Finished(new.out)'
    BY <1>0, <1>3, <1>5, <1>6 DEF Finished, Errors
  <2>2. Listens(new)'
    BY <1>0, <1>4, <1>6, <1>8, <2>1 DEF Listens
  <2> QED BY <1>0, <1>6, <1>7, <2>2 DEF Talks
<1> QED BY <1>9, <1>10, <1>11, <1>12, <1>13 DEF IInv

LEMMA PrefixStep ==
    ASSUME IInv, NEW s \in Stream, CheckPrefix(s)
    PROVE  IInv'
PROOF
<1>0. /\ Types /\ stream[s] \in StreamRecord /\ stream[s].out = <<>> /\ Len(stream[s].out) = 0
      /\ Revision \in Nat /\ call.since \in 1..Revision /\ stream[s].up
      /\ call.pc = "receiving" /\ stream[s].pc = "prefix" /\ Before(stream[s]) /\ Sees(stream[s])
      /\ Accepted \in Nat /\ call.meta = -1 /\ Accepted = call.offset /\ stream[s].at <= stream[s].size
      /\ (call.quiet => call.since = Revision) /\ part.bytes \in Seq(Bytes)
  <2>1. stream[s].up /\ stream[s].pc = "prefix"
    BY DEF CheckPrefix, Room
  <2>2. Listens(stream[s])
    BY <2>1, Listened
  <2>3. Before(stream[s]) /\ Sees(stream[s]) /\ stream[s].at <= stream[s].size /\ (call.meta = -1 => Accepted = call.offset)
    BY <2>1, <2>2 DEF Listens
  <2> QED BY <2>1, <2>3, Listened DEF Before
<1>1. UNCHANGED <<versions, saved, part, target, call, troubles>>
  BY DEF CheckPrefix, local
<1>2. PICK st, at, view : st = stream[s] /\ at = stream[s].at /\ view = stream[s].view
  OBVIOUS
<1>3. /\ st \in StreamRecord /\ at \in Nat /\ view \in Seq(Bytes) /\ Len(view) \in Nat
      /\ at = Accepted /\ st.prefix = part.bytes /\ Len(st.prefix) = at /\ st.prefix \in Seq(Bytes)
  BY <1>0, <1>2, LenProperties DEF StreamRecord, Before, Accepted
<1>4. CASE at > Len(view) \/ First(at, view) # st.prefix
  <2>1. Fails(s, "changed")
    BY <1>2, <1>4 DEF CheckPrefix
  <2>2. ASSUME call.quiet, call.restarted PROVE FALSE
    <3>1. at = 0
      BY <1>0, <1>2, <2>2 DEF Before
    <3>2. First(at, view) \in Seq(Bytes) /\ Len(First(at, view)) = 0
      BY <1>3, <3>1, FirstFacts
    <3>3. First(at, view) = <<>> /\ st.prefix = <<>>
      BY <1>3, <3>1, <3>2, EmptySeq
    <3> QED BY <1>3, <1>4, <3>1, <3>3
  <2> QED BY <1>0, <1>1, <2>1, <2>2, FailsStep, DownloadAssumption DEF Errors
<1>5. CASE ~(at > Len(view) \/ First(at, view) # st.prefix)
  <2>1. stream' = [stream EXCEPT ![s] = [stream[s] EXCEPT !.pc = "sending", !.sent = stream[s].prefix,
                    !.prefix = <<>>, !.at = 0, !.rev = 0,
                    !.out = Append(stream[s].out, Frame("metadata", "", stream[s].began, stream[s].size, <<>>))]]
    BY <1>2, <1>5 DEF CheckPrefix
  <2>2. PICK f, out, sent : /\ f = Frame("metadata", "", stream[s].began, stream[s].size, <<>>)
                            /\ out = Append(stream[s].out, f) /\ sent = stream[s].prefix
    OBVIOUS
  <2>3. f \in FrameRecord /\ f.kind = "metadata" /\ f.rev = st.began /\ f.size = st.size
    <3>1. <<>> \in Seq(Bytes)
      BY EmptySeq, Zenon
    <3>2. "" \in Bytes \cup {""} /\ stream[s].began \in Nat /\ stream[s].size \in Nat
      BY <1>0 DEF StreamRecord
    <3> QED BY <1>2, <2>2, <3>1, <3>2 DEF Frame, FrameRecord
  <2>4. out \in Seq(FrameRecord) /\ Len(out) = 1 /\ out[1] = f
    <3>1. PICK q \in Seq(FrameRecord) : q = stream[s].out /\ Len(q) = 0
      BY <1>0 DEF StreamRecord
    <3>2. out = Append(q, f) /\ f \in FrameRecord
      BY <2>2, <2>3, <3>1
    <3>3. Append(q, f) \in Seq(FrameRecord) /\ Len(Append(q, f)) = Len(q) + 1 /\ Append(q, f)[Len(q) + 1] = f
      BY <3>2, Appended
    <3> QED BY <3>1, <3>2, <3>3
  <2>5. PICK new, none : none = <<>> /\ new = [st EXCEPT !.pc = "sending", !.sent = sent, !.prefix = none, !.at = 0,
                                                        !.rev = 0, !.out = out]
    OBVIOUS
  <2>6. none \in Seq(Bytes) /\ sent \in Seq(Bytes) /\ Len(sent) = at
    BY <1>2, <1>3, <2>2, <2>5, EmptySeq
  <2>7. /\ new \in StreamRecord /\ new.pc = "sending" /\ new.sent = sent /\ new.out = out /\ new.rev = 0
        /\ new.began = st.began /\ new.stamp = st.stamp /\ new.view = st.view /\ new.size = st.size /\ new.up = st.up
    <3>1. none \in Seq(Bytes) /\ sent \in Seq(Bytes) /\ out \in Seq(FrameRecord) /\ st \in StreamRecord
      BY <1>3, <2>4, <2>6
    <3> QED BY <2>5, <3>1 DEF StreamRecord
  <2>8. stream' = [stream EXCEPT ![s] = new]
    <3>1. stream' = [stream EXCEPT ![s] = [stream[s] EXCEPT !.pc = "sending", !.sent = sent,
                       !.prefix = <<>>, !.at = 0, !.rev = 0, !.out = out]]
      BY <2>1, <2>2, Zenon
    <3> QED BY <1>2, <2>5, <3>1, Zenon
  <2>9. Sees(new)
    BY <1>0, <1>2, <2>7 DEF Sees
  <2>10. Waits = 1 /\ st.began \in call.since..Revision /\ st.size = Len(versions[st.began])
         /\ Len(versions[st.began]) \in Nat
    <3>1. Waits = 1
      BY <1>0 DEF Waits
    <3>2. st.began \in call.since..Revision /\ st.size = Len(versions[st.began])
      BY <1>0, <1>2 DEF Sees
    <3>3. st.began \in 1..Revision /\ versions \in Seq(Contents)
      BY <1>0, <3>2 DEF Types
    <3> QED BY <3>1, <3>2, <3>3, Versions
  <2>11. Frames(out, 1, st.began)
    <3>1. Accepted + 1 - Waits <= Len(versions[st.began])
      BY <1>0, <1>2, <1>3, <2>10
    <3>2. \A i \in 1..1 : i = 1
      OBVIOUS
    <3>3. \A i \in 1..1 : out[i].kind = IF i <= Waits THEN "metadata" ELSE "chunk"
      BY <2>3, <2>4, <2>10, <3>2
    <3>4. \A i \in 1..1 : i > Waits => out[i].byte \in Bytes
      BY <2>10, <3>2
    <3>5. out[1].rev = st.began /\ out[1].size = Len(versions[st.began]) /\ 1 >= Waits
      BY <2>3, <2>4, <2>10
    <3> QED BY <1>0, <2>10, <3>1, <3>3, <3>4, <3>5 DEF Frames
  <2>12. Carries(out, 1, sent)
    <3>1. sent = part.bytes /\ Len(sent) = Accepted + 1 - Waits
      <4>1. sent = part.bytes
        BY <1>2, <1>3, <2>2
      <4> QED BY <1>0, <1>3, <2>6, <2>10, <4>1
    <3>2. \A i \in 1..1 : ~(i > Waits)
      BY <2>10
    <3> QED BY <3>1, <3>2 DEF Carries
  <2>13. \A j \in 1..Len(sent) : sent[j] = view[j]
    <3>1. First(at, view) = sent
      BY <1>2, <1>5, <2>2
    <3>2. at \in 0..Len(view)
      BY <1>3, <1>5
    <3> QED BY <1>3, <2>6, <3>1, <3>2, FirstFacts
  <2>14. Listens(new)
    BY <1>0, <1>2, <2>4, <2>7, <2>9, <2>11, <2>12, <2>13 DEF Listens
  <2>15. SlotsKept'
    <3>1. Serving' \subseteq Serving
      BY <1>0, <2>8 DEF Serving, Types
    <3> QED BY <3>1, SlotsStay DEF IInv
  <2>16. new.rev <= Revision /\ new.began <= Revision /\ new.stamp <= Revision /\ Len(new.out) <= Window + 1
         /\ new.up
    <3>1. st.began <= Revision /\ st.stamp <= Revision /\ st.up
      BY <1>0, <1>2 DEF Types
    <3>2. new.rev = 0 /\ Len(new.out) = 1
      BY <2>4, <2>7
    <3> QED BY <1>0, <2>7, <3>1, <3>2, DownloadAssumption
  <2> QED BY <1>0, <1>1, <2>7, <2>8, <2>14, <2>15, <2>16, HandlerStep
<1> QED BY <1>4, <1>5

LEMMA SameBytes ==
    ASSUME NEW s \in Seq(Bytes), NEW t \in Seq(Bytes), Len(s) = Len(t), \A i \in 1..Len(s) : s[i] = t[i]
    PROVE  s = t
  OBVIOUS

LEMMA ChunkStep ==
    ASSUME IInv, NEW s \in Stream, SendChunk(s)
    PROVE  IInv'
PROOF
<1>0. /\ Types /\ stream[s] \in StreamRecord /\ stream[s].up /\ stream[s].pc = "sending" /\ call.pc = "receiving"
      /\ Revision \in Nat /\ call.since \in 1..Revision /\ (call.quiet => call.since = Revision)
      /\ Listens(stream[s]) /\ Accepted \in Nat /\ Waits \in {0, 1} /\ Len(stream[s].out) < Window
      /\ Len(stream[s].sent) < stream[s].size /\ Len(stream[s].out) \in Nat
  BY Listened DEF SendChunk, Room
<1>1. UNCHANGED <<versions, saved, part, target, call, troubles>>
  BY DEF SendChunk, local
<1>2. PICK st, out, sent, view, n, rev :
        /\ st = stream[s] /\ out = stream[s].out /\ sent = stream[s].sent /\ view = stream[s].view
        /\ n = Len(stream[s].out) /\ rev = stream[s].began
  OBVIOUS
<1>3. /\ st \in StreamRecord /\ out \in Seq(FrameRecord) /\ sent \in Seq(Bytes) /\ view \in Seq(Bytes)
      /\ n \in Nat /\ Len(sent) \in Nat /\ Len(view) \in Nat /\ st.size \in Nat /\ n = Len(out)
  BY <1>0, <1>2, LenProperties DEF StreamRecord
<1>4. /\ Sees(st) /\ Frames(out, n, rev) /\ Carries(out, n, sent) /\ (call.meta = -1 => Accepted = call.offset)
      /\ (st.stamp = rev => \A j \in 1..Len(sent) : sent[j] = view[j])
  BY <1>0, <1>2 DEF Listens
<1>5. rev \in call.since..Revision /\ st.stamp = Revision /\ st.size = Len(versions[rev])
      /\ (st.stamp = rev => view = versions[rev]) /\ Len(versions[rev]) \in Nat
  <2>1. rev \in call.since..Revision /\ st.stamp = Revision /\ st.size = Len(versions[rev])
        /\ (st.stamp = rev => view = versions[rev])
    BY <1>2, <1>4 DEF Sees
  <2>2. rev \in 1..Revision /\ versions \in Seq(Contents)
    BY <1>0, <2>1 DEF Types
  <2> QED BY <2>1, <2>2, Versions
<1>6. CASE Len(sent) + 1 > Len(view)
  <2>1. Fails(s, "changed")
    BY <1>2, <1>6 DEF SendChunk
  <2>2. ~call.quiet
    BY <1>0, <1>2, <1>3, <1>5, <1>6
  <2> QED BY <1>0, <1>1, <2>1, <2>2, FailsStep, DownloadAssumption DEF Errors
<1>7. CASE ~(Len(sent) + 1 > Len(view))
  <2>1. PICK b, f, more, grown :
          /\ b = view[Len(sent) + 1] /\ f = Frame("chunk", b, 0, 0, <<>>)
          /\ more = Append(out, f) /\ grown = Append(sent, b)
    OBVIOUS
  <2>2. b \in Bytes
    BY <1>3, <1>7, <2>1, ElementOfSeq
  <2>3. f \in FrameRecord /\ f.kind = "chunk" /\ f.byte = b
    <3>1. <<>> \in Seq(Bytes)
      BY EmptySeq, Zenon
    <3>2. b \in Bytes \cup {""} /\ 0 \in Nat
      BY <2>2
    <3> QED BY <2>1, <3>1, <3>2 DEF Frame, FrameRecord
  <2>4. /\ more \in Seq(FrameRecord) /\ Len(more) = n + 1 /\ more[n + 1] = f
        /\ \A i \in 1..n : more[i] = out[i]
    BY <1>3, <2>1, <2>3, Appended
  <2>5. /\ grown \in Seq(Bytes) /\ Len(grown) = Len(sent) + 1 /\ grown[Len(sent) + 1] = b
        /\ \A i \in 1..Len(sent) : grown[i] = sent[i]
    BY <1>3, <2>1, <2>2, Appended
  <2>6. PICK new : new = [st EXCEPT !.sent = grown, !.out = more]
    OBVIOUS
  <2>7. /\ new \in StreamRecord /\ new.pc = "sending" /\ new.sent = grown /\ new.out = more /\ new.rev = st.rev
        /\ new.began = st.began /\ new.stamp = st.stamp /\ new.view = st.view /\ new.size = st.size /\ new.up = st.up
    <3>1. st.pc = "sending"
      BY <1>0, <1>2
    <3> QED BY <1>3, <2>4, <2>5, <2>6, <3>1 DEF StreamRecord
  <2>8. stream' = [stream EXCEPT ![s] = new]
    <3>1. stream' = [stream EXCEPT ![s] = [stream[s] EXCEPT
                       !.sent = Append(stream[s].sent, b), !.out = Append(stream[s].out, f)]]
      BY <1>2, <1>7, <2>1 DEF SendChunk
    <3>2. stream' = [stream EXCEPT ![s] = [st EXCEPT !.sent = grown, !.out = more]]
      BY <1>2, <2>1, <3>1
    <3> QED BY <2>6, <3>2
  <2>9. n >= Waits /\ Len(sent) = Accepted + n - Waits
    BY <1>4 DEF Frames, Carries
  <2>10. Frames(more, n + 1, rev)
    <3>1. Accepted + (n + 1) - Waits <= Len(versions[rev]) /\ n + 1 >= Waits
      <4>1. Len(sent) < Len(versions[rev])
        BY <1>0, <1>2, <1>5
      <4> QED BY <1>0, <1>3, <1>5, <2>9, <4>1
    <3>2. ASSUME NEW i \in 1..n + 1
          PROVE  /\ more[i].kind = IF i <= Waits THEN "metadata" ELSE "chunk"
                 /\ i > Waits => more[i].byte \in Bytes
      <4>1. CASE i = n + 1
        BY <1>0, <1>3, <2>2, <2>3, <2>4, <2>9, <4>1
      <4>2. CASE i # n + 1
        <5>1. i \in 1..n /\ more[i] = out[i]
          BY <1>3, <2>4, <4>2
        <5> QED BY <1>4, <5>1 DEF Frames
      <4> QED BY <4>1, <4>2
    <3>3. IF call.meta = -1 THEN more[1].rev = rev /\ more[1].size = Len(versions[rev])
          ELSE call.rev = rev /\ call.meta = Len(versions[rev])
      <4>1. CASE call.meta = -1
        <5>1. 1 \in 1..n /\ more[1] = out[1]
          BY <1>3, <2>4, <2>9, <4>1 DEF Waits
        <5> QED BY <1>4, <4>1, <5>1 DEF Frames
      <4>2. CASE call.meta # -1
        BY <1>4, <4>2 DEF Frames
      <4> QED BY <4>1, <4>2
    <3> QED BY <1>5, <3>1, <3>2, <3>3 DEF Frames
  <2>11. Carries(more, n + 1, grown)
    <3>1. Len(grown) = Accepted + (n + 1) - Waits
      BY <1>0, <1>3, <2>5, <2>9
    <3>2. ASSUME NEW j \in 1..Accepted PROVE grown[j] = part.bytes[j]
      <4>1. j \in 1..Len(sent)
        BY <1>0, <1>3, <2>9
      <4> QED BY <1>4, <2>5, <4>1 DEF Carries
    <3>3. ASSUME NEW i \in 1..n + 1, i > Waits PROVE more[i].byte = grown[Accepted + i - Waits]
      <4>1. CASE i = n + 1
        <5>1. Accepted + i - Waits = Len(sent) + 1
          BY <1>0, <1>3, <2>9, <4>1
        <5> QED BY <2>3, <2>4, <2>5, <4>1, <5>1
      <4>2. CASE i # n + 1
        <5>1. i \in 1..n /\ more[i] = out[i]
          BY <1>3, <2>4, <4>2
        <5>2. Accepted + i - Waits \in 1..Len(sent)
          BY <1>0, <1>3, <2>9, <3>3, <5>1
        <5>3. out[i].byte = sent[Accepted + i - Waits]
          BY <1>4, <3>3, <5>1 DEF Carries
        <5> QED BY <2>5, <5>1, <5>2, <5>3
      <4> QED BY <4>1, <4>2
    <3> QED BY <3>1, <3>2, <3>3 DEF Carries
  <2>12. new.stamp = rev => \A j \in 1..Len(grown) : grown[j] = view[j]
    <3> SUFFICES ASSUME new.stamp = rev, NEW j \in 1..Len(grown) PROVE grown[j] = view[j]
      OBVIOUS
    <3>1. CASE j = Len(sent) + 1
      BY <2>1, <2>5, <3>1
    <3>2. CASE j # Len(sent) + 1
      <4>1. j \in 1..Len(sent)
        BY <1>3, <2>5, <3>2
      <4> QED BY <1>4, <2>5, <2>7, <4>1
    <3> QED BY <3>1, <3>2
  <2>13. Sees(new)
    BY <1>4, <2>7 DEF Sees
  <2>14. Listens(new)
    <3>1. new.began = rev /\ new.view = view /\ Len(new.out) = n + 1
      BY <1>2, <2>4, <2>7
    <3> QED BY <1>4, <2>7, <2>10, <2>11, <2>12, <2>13, <3>1 DEF Listens
  <2>15. SlotsKept'
    <3>1. Serving' \subseteq Serving
      BY <1>0, <2>8 DEF Serving, Types
    <3> QED BY <3>1, SlotsStay DEF IInv
  <2>16. new.rev <= Revision /\ new.began <= Revision /\ new.stamp <= Revision /\ Len(new.out) <= Window + 1
         /\ new.up
    <3>1. st.rev <= Revision /\ st.began <= Revision /\ st.stamp <= Revision /\ st.up
      BY <1>0, <1>2 DEF Types
    <3>2. Len(new.out) <= Window + 1
      BY <1>0, <1>2, <1>3, <2>4, <2>7, DownloadAssumption
    <3> QED BY <2>7, <3>1, <3>2
  <2> QED BY <1>0, <1>1, <2>7, <2>8, <2>14, <2>15, <2>16, HandlerStep
<1> QED BY <1>6, <1>7

LEMMA SummaryStep ==
    ASSUME IInv, NEW s \in Stream, SendSummary(s)
    PROVE  IInv'
PROOF
<1>0. /\ Types /\ stream[s] \in StreamRecord /\ stream[s].up /\ stream[s].pc = "sending" /\ call.pc = "receiving"
      /\ Revision \in Nat /\ call.since \in 1..Revision /\ (call.quiet => call.since = Revision)
      /\ Listens(stream[s]) /\ Accepted \in Nat /\ Waits \in {0, 1} /\ Len(stream[s].out) < Window
      /\ Len(stream[s].sent) = stream[s].size /\ Len(stream[s].out) \in Nat
  BY Listened DEF SendSummary, Room
<1>1. UNCHANGED <<versions, saved, part, target, call, troubles>>
  BY DEF SendSummary, local
<1>2. PICK st, out, sent, view, n, rev :
        /\ st = stream[s] /\ out = stream[s].out /\ sent = stream[s].sent /\ view = stream[s].view
        /\ n = Len(stream[s].out) /\ rev = stream[s].began
  OBVIOUS
<1>3. /\ st \in StreamRecord /\ out \in Seq(FrameRecord) /\ sent \in Seq(Bytes) /\ view \in Seq(Bytes)
      /\ n \in Nat /\ Len(sent) \in Nat /\ Len(view) \in Nat /\ st.size \in Nat /\ n = Len(out) /\ rev \in Nat
  BY <1>0, <1>2, LenProperties DEF StreamRecord
<1>4. /\ Sees(st) /\ Frames(out, n, rev) /\ Carries(out, n, sent) /\ (call.meta = -1 => Accepted = call.offset)
      /\ (st.stamp = rev => \A j \in 1..Len(sent) : sent[j] = view[j])
  BY <1>0, <1>2 DEF Listens
<1>5. rev \in call.since..Revision /\ st.stamp = Revision /\ st.size = Len(versions[rev])
      /\ (st.stamp = rev => view = versions[rev])
  BY <1>2, <1>4 DEF Sees
<1>6. CASE st.stamp # rev
  <2>1. Fails(s, "aborted")
    BY <1>2, <1>6 DEF SendSummary
  <2>2. ~call.quiet
    BY <1>0, <1>5, <1>6
  <2> QED BY <1>0, <1>1, <2>1, <2>2, FailsStep, DownloadAssumption DEF Errors
<1>7. CASE st.stamp = rev
  <2>1. PICK f : f = Frame("summary", "", rev, st.size, sent)
    OBVIOUS
  <2>2. f \in FrameRecord /\ f.kind = "summary" /\ f.rev = rev /\ f.of = sent
    <3>1. "" \in Bytes \cup {""}
      OBVIOUS
    <3> QED BY <1>3, <2>1, <3>1 DEF Frame, FrameRecord
  <2>3. Last(s, f)
    BY <1>2, <1>7, <2>1 DEF SendSummary
  <2>4. PICK new \in StreamRecord :
              /\ stream' = [stream EXCEPT ![s] = new]
              /\ new.pc = "done" /\ new.up /\ new.rev = 0 /\ new.began = 0 /\ new.stamp = 0
              /\ new.out = Append(stream[s].out, f)
    BY <1>0, <2>2, <2>3, LastFacts
  <2>5. /\ Len(new.out) = n + 1 /\ new.out[n + 1] = f
        /\ \A i \in 1..n : new.out[i] = out[i]
    BY <1>2, <1>3, <2>2, <2>4, Appended
  <2>6. sent = versions[rev]
    <3>1. view = versions[rev] /\ Len(sent) = Len(view)
      BY <1>0, <1>2, <1>5, <1>7
    <3> QED BY <1>3, <1>4, <1>7, <3>1, SameBytes
  <2>7. Finished(new.out)
    <3>1. Frames(new.out, n, rev)
      <4>1. n >= Waits /\ (call.meta = -1 => 1 \in 1..n)
        BY <1>3, <1>4 DEF Frames, Waits
      <4> QED BY <1>4, <2>5, <4>1 DEF Frames
    <3>2. Carries(new.out, n, sent)
      BY <1>4, <2>5 DEF Carries
    <3>3. Len(new.out) - 1 = n /\ Len(new.out) > 0 /\ "summary" \notin Errors
      BY <1>3, <2>5 DEF Errors
    <3> QED BY <2>2, <2>5, <2>6, <3>1, <3>2, <3>3 DEF Finished
  <2>8. Listens(new)
    BY <1>4, <2>4, <2>7 DEF Listens
  <2>9. SlotsKept'
    <3>1. Serving' \subseteq Serving
      BY <1>0, <2>4 DEF Serving, Types
    <3> QED BY <3>1, SlotsStay DEF IInv
  <2>10. new.rev <= Revision /\ new.began <= Revision /\ new.stamp <= Revision /\ Len(new.out) <= Window + 1
    BY <1>0, <1>2, <1>3, <2>4, <2>5, DownloadAssumption
  <2> QED BY <1>1, <1>0, <2>4, <2>8, <2>9, <2>10, HandlerStep
<1> QED BY <1>6, <1>7

(* A handler without a client *)
LEMMA EndsStep ==
    ASSUME IInv, NEW s \in Stream, HandlerEnds(s)
    PROVE  IInv'
PROOF
<1>0. Types /\ ~stream[s].up /\ UNCHANGED <<versions, saved, part, target, call, troubles>>
      /\ stream' = [stream EXCEPT ![s] = Free] /\ Streams
  BY DEF HandlerEnds, IInv, local
<1>1. Revision' = Revision /\ Accepted' = Accepted /\ Waits' = Waits /\ Revision \in Nat
  BY <1>0, Versions DEF Revision, Accepted, Waits, Types
<1>2. PICK free : free = Free
  OBVIOUS
<1>3. free \in StreamRecord /\ ~free.up /\ free.out = <<>> /\ free.pc = "free"
      /\ free.rev = 0 /\ free.began = 0 /\ free.stamp = 0
  BY <1>2, Frees
<1>4. /\ \A v \in Stream \ {s} : stream'[v] = stream[v]
      /\ stream'[s] = free /\ stream' \in [Stream -> StreamRecord]
  BY <1>0, <1>2, <1>3 DEF Types
<1>5. Types'
  <2>1. Len(free.out) <= Window + 1 /\ free.rev <= Revision /\ free.began <= Revision /\ free.stamp <= Revision
    <3>1. Len(free.out) = 0
      BY <1>3
    <3> QED BY <1>1, <1>3, <3>1, DownloadAssumption
  <2> QED BY <1>0, <1>1, <1>4, <2>1 DEF Types
<1>6. SlotsKept'
  <2>1. Serving' \subseteq Serving
    BY <1>3, <1>4 DEF Serving
  <2> QED BY <2>1, SlotsStay DEF IInv
<1>7. Files' /\ Holding' /\ Quiet'
  BY <1>0, <1>1 DEF IInv, Files, Holding, Quiet
<1>8. Streams'
  BY <1>0, <1>3, <1>4 DEF Streams
<1>9. Talks'
  <2> SUFFICES ASSUME call.pc = "receiving" PROVE Listens(stream[call.stream])'
    BY <1>0 DEF Talks
  <2>1. PICK c \in Stream : c = call.stream /\ c # s
    BY <1>0 DEF Streams
  <2>2. PICK st : st = stream[c]
    OBVIOUS
  <2>3. stream'[call.stream'] = st /\ Listens(st)
    BY <1>0, <1>4, <2>1, <2>2 DEF IInv, Talks
  <2>4. Listens(st)'
    BY <1>0, <2>3, ListensStill
  <2> QED BY <2>3, <2>4
<1> QED BY <1>5, <1>6, <1>7, <1>8, <1>9 DEF IInv

-----------------------------------------------------------------------------
(* An edit of the source *)

LEMMA EditStep ==
    ASSUME IInv, NEW bytes \in Contents, NEW inPlace \in BOOLEAN, EditSource(bytes, inPlace)
    PROVE  IInv'
PROOF
<1>0. /\ Types /\ Revision \in Nat /\ Revision <= MaxEdits /\ versions' = Append(versions, bytes)
      /\ UNCHANGED <<saved, part, target, troubles>> /\ call \in CallRecord /\ versions \in Seq(Contents)
  BY Versions DEF EditSource, IInv, Types
<1>1. /\ versions' \in Seq(Contents) /\ Revision' = Revision + 1 /\ Revision' \in 1..MaxEdits + 1
      /\ \A v \in 1..Revision : versions'[v] = versions[v]
  BY <1>0, Appended, DownloadAssumption DEF Revision
<1>13. ASSUME NEW since \in 1..Revision, NEW v \in since..Revision
      PROVE  v \in 1..Revision /\ v \in since..Revision' /\ v # Revision + 1 /\ versions'[v] = versions[v]
  <2>1. Revision \in Nat
    BY <1>0
  <2>2. v \in 1..Revision /\ v \in since..Revision + 1 /\ v # Revision + 1
    BY <2>1
  <2> QED BY <1>1, <2>2
<1>14. saved' = saved /\ part' = part /\ target' = target
  BY <1>0
<1>2. Accepted' = Accepted
  BY <1>0 DEF Accepted
<1>3. /\ call' \in CallRecord /\ (call.pc # "idle" => ~call'.quiet) /\ call'.pc = call.pc /\ call'.stream = call.stream
      /\ call'.since = call.since /\ call'.offset = call.offset /\ call'.rev = call.rev
      /\ call'.meta = call.meta /\ call'.durable = call.durable /\ call'.attempt = call.attempt
  <2>1. CASE call.pc = "idle"
    BY <1>0, <2>1 DEF EditSource, Disturbed, Calling
  <2>2. CASE call.pc # "idle"
    <3>1. call' = [call EXCEPT !.quiet = FALSE]
      BY <2>2 DEF EditSource, Disturbed, Calling
    <3> QED BY <1>0, <3>1 DEF CallRecord
  <2> QED BY <2>1, <2>2
<1>4. Waits' = Waits
  BY <1>3 DEF Waits
<1>5. ASSUME NEW s \in Stream
      PROVE  /\ stream'[s] \in StreamRecord /\ stream'[s].pc = stream[s].pc /\ stream'[s].up = stream[s].up
             /\ stream'[s].out = stream[s].out /\ stream'[s].rev = stream[s].rev /\ stream'[s].began = stream[s].began
             /\ stream'[s].at = stream[s].at /\ stream'[s].prefix = stream[s].prefix /\ stream'[s].size = stream[s].size
             /\ stream'[s].sent = stream[s].sent
             /\ stream'[s].stamp \in {stream[s].stamp, Revision + 1}
             /\ stream[s].pc \in {"prefix", "sending"} => stream'[s].stamp = Revision + 1
  <2>1. PICK st, now : st = stream[s] /\ now = Revision + 1
    OBVIOUS
  <2>2. st \in StreamRecord /\ now \in Nat
    BY <1>0, <2>1 DEF Types
  <2>3. CASE s \notin Serving
    <3>1. stream'[s] = stream[s] /\ stream[s].pc \notin {"prefix", "sending"}
      BY <2>3 DEF EditSource, Serving
    <3> QED BY <2>1, <2>2, <3>1
  <2>4. CASE s \in Serving
    <3>1. PICK view : view = IF inPlace THEN bytes ELSE st.view
      OBVIOUS
    <3>2. view \in Seq(Bytes)
      BY <2>2, <3>1, ContentBytes DEF StreamRecord
    <3>3. stream'[s] = [st EXCEPT !.stamp = now, !.view = view]
      BY <2>1, <2>4, <3>1 DEF EditSource
    <3>4. PICK new : new = [st EXCEPT !.stamp = now, !.view = view]
      OBVIOUS
    <3>5. /\ new \in StreamRecord /\ new.pc = st.pc /\ new.up = st.up
          /\ new.out = st.out /\ new.rev = st.rev /\ new.began = st.began
          /\ new.at = st.at /\ new.prefix = st.prefix /\ new.size = st.size
          /\ new.sent = st.sent /\ new.stamp = now
      BY <2>2, <3>2, <3>4 DEF StreamRecord
    <3> QED BY <2>1, <3>3, <3>4, <3>5
  <2> QED BY <2>3, <2>4
<1>6. Types'
  <2>1. stream' \in [Stream -> StreamRecord]
    <3>1. DOMAIN stream' = Stream /\ stream' = [s \in Stream |-> stream'[s]]
      BY DEF EditSource
    <3> QED BY <1>5, <3>1
  <2>2. \A s \in Stream : /\ stream'[s].rev <= Revision' /\ stream'[s].began <= Revision'
                           /\ stream'[s].stamp <= Revision' /\ Len(stream'[s].out) <= Window + 1
    <3> TAKE s \in Stream
    <3>1. /\ stream[s].rev <= Revision /\ stream[s].began <= Revision /\ stream[s].stamp <= Revision
          /\ Len(stream[s].out) <= Window + 1 /\ stream[s] \in StreamRecord
      BY <1>0 DEF Types
    <3>2. stream[s].rev \in Nat /\ stream[s].began \in Nat /\ stream[s].stamp \in Nat
      BY <3>1 DEF StreamRecord
    <3>3. /\ stream'[s].out = stream[s].out /\ stream'[s].rev = stream[s].rev /\ stream'[s].began = stream[s].began
          /\ stream'[s].stamp \in {stream[s].stamp, Revision + 1}
      BY <1>5
    <3> QED BY <1>0, <1>1, <3>1, <3>2, <3>3
  <2>3. saved' \in SavedRecord /\ saved'.rev <= Revision' /\ part' \in PartRecord
        /\ target' \in Seq(Bytes \cup {"old"}) /\ troubles' \in 0..MaxTroubles
    <3>1. saved \in SavedRecord /\ saved.rev <= Revision /\ saved.rev \in Nat
      BY <1>0 DEF Types, SavedRecord
    <3> QED BY <1>0, <1>1, <3>1 DEF Types
  <2>4. call' \in CallRecord /\ call'.attempt <= MaxAttempts
    BY <1>0, <1>3 DEF Types
  <2> QED BY <1>1, <2>1, <2>2, <2>3, <2>4 DEF Types
<1>7. SlotsKept'
  <2>1. Serving' \subseteq Serving
    BY <1>5 DEF Serving
  <2> QED BY <2>1, SlotsStay DEF IInv
<1>8. Files'
  <2>1. saved.rev \in Nat /\ saved.rev <= Revision
    BY <1>0 DEF Types, SavedRecord
  <2>2. saved.rev > 0 => versions'[saved.rev] = versions[saved.rev]
    <3>1. Revision \in Nat
      BY <1>0
    <3>2. saved.rev > 0 => saved.rev \in 1..Revision
      BY <2>1, <3>1
    <3> QED BY <1>1, <3>2
  <2>3. saved.rev > 0 => saved.offset <= Len(versions[saved.rev])
    BY DEF IInv, Files
  <2>4. saved'.rev > 0 => saved'.offset <= Len(versions'[saved'.rev])
    BY <1>14, <2>2, <2>3
  <2>5. saved' # NoState => saved'.offset \in Nat
    BY <1>14 DEF IInv, Files
  <2>6. /\ part'.synced <= Len(part'.bytes)
        /\ saved' # NoState /\ part'.exists =>
              saved'.offset <= part'.synced /\ (saved'.offset > 0 => saved'.rev > 0)
    BY <1>14 DEF IInv, Files
  <2> QED BY <2>4, <2>5, <2>6 DEF Files
<1>9. Streams'
  <2>1. \A s \in Stream : stream'[s].up = stream[s].up /\ stream'[s].out = stream[s].out
    BY <1>5
  <2> QED BY <1>3, <2>1 DEF IInv, Streams
<1>10. Holding'
  <2>1. call.pc \in {"prepared", "receiving", "failing", "verified", "published"} => call.since \in 1..Revision
    BY DEF IInv, Holding
  <2>2. ASSUME NEW x, call.since \in 1..Revision, \E v \in call.since..Revision : x = versions[v]
        PROVE  \E v \in call'.since..Revision' : x = versions'[v]
    <3>1. PICK v \in call.since..Revision : x = versions[v]
      BY <2>2
    <3>2. v \in call'.since..Revision' /\ versions'[v] = versions[v]
      BY <1>3, <1>13, <2>2
    <3> QED BY <3>1, <3>2
  <2>3. call'.since \in 1..Revision => call'.since \in 1..Revision'
    BY <1>0, <1>1
  <2>4. call.pc = "verified" => \E v \in call'.since..Revision' : part'.bytes = versions'[v]
    BY <1>0, <2>1, <2>2 DEF IInv, Holding
  <2>5. call.pc = "published" => \E v \in call'.since..Revision' : target' = versions'[v]
    BY <1>0, <2>1, <2>2 DEF IInv, Holding
  <2> QED BY <1>0, <1>3, <2>1, <2>3, <2>4, <2>5 DEF IInv, Holding
<1>11. Quiet'
  BY <1>3 DEF Quiet
<1>12. Talks'
  <2> SUFFICES ASSUME call.pc = "receiving" PROVE Listens(stream[call.stream])'
    BY <1>3 DEF Talks
  <2>1. PICK c \in Stream : c = call.stream
    BY DEF IInv, Streams
  <2>2. PICK st, new : st = stream[c] /\ new = stream'[c]
    OBVIOUS
  <2>3. Listens(st) /\ call.since \in 1..Revision /\ ~call'.quiet /\ st \in StreamRecord
    BY <1>0, <1>3, <2>1, <2>2 DEF IInv, Talks, Holding, Types
  <2>4. ASSUME NEW out, NEW n, NEW rev, Frames(out, n, rev) PROVE Frames(out, n, rev)'
    <3>1. rev \in call.since..Revision
      BY <2>4 DEF Frames
    <3>2. rev \in call'.since..Revision' /\ versions'[rev] = versions[rev]
      BY <1>3, <1>13, <2>3, <3>1
    <3> QED BY <1>2, <1>3, <1>4, <2>4, <3>2 DEF Frames
  <2>5. ASSUME NEW out, NEW n, NEW b, Carries(out, n, b) PROVE Carries(out, n, b)'
    BY <1>0, <1>2, <1>4, <2>5 DEF Carries
  <2>6. /\ new.pc = st.pc /\ new.up = st.up /\ new.out = st.out /\ new.rev = st.rev /\ new.began = st.began
        /\ new.at = st.at /\ new.prefix = st.prefix /\ new.size = st.size /\ new.sent = st.sent
        /\ (st.pc \in {"prefix", "sending"} => new.stamp = Revision + 1)
    BY <1>5, <2>2
  <2>7. Before(st) => Before(new)'
    BY <1>0, <1>2, <1>3, <2>3, <2>6 DEF Before
  <2>8. st.pc \in {"prefix", "sending"} => Sees(new)' /\ new.stamp # new.began
    <3> SUFFICES ASSUME st.pc \in {"prefix", "sending"} PROVE Sees(new)' /\ new.stamp # new.began
      OBVIOUS
    <3>1. st.began \in call.since..Revision /\ st.size = Len(versions[st.began])
      BY <2>3 DEF Listens, Sees
    <3>2. st.began \in call'.since..Revision' /\ versions'[st.began] = versions[st.began] /\ st.began # Revision + 1
      BY <1>3, <1>13, <2>3, <3>1
    <3> QED BY <1>1, <2>6, <3>1, <3>2 DEF Sees
  <2>9. Finished(st.out) => Finished(st.out)'
    <3> SUFFICES ASSUME Finished(st.out) PROVE Finished(st.out)'
      OBVIOUS
    <3>1. PICK out, n, last : out = st.out /\ n = Len(out) - 1 /\ last = out[n + 1]
      OBVIOUS
    <3>2. Len(out) > 0 /\ last.kind \in Errors \cup {"summary"}
      BY <3>1 DEF Finished
    <3>3. ASSUME last.kind = "summary"
          PROVE  Frames(out, n, last.rev)' /\ Carries(out, n, last.of)' /\ last.of = versions'[last.rev]
      <4>1. Frames(out, n, last.rev) /\ Carries(out, n, last.of) /\ last.of = versions[last.rev]
        BY <3>1, <3>3 DEF Finished
      <4>2. last.rev \in 1..Revision
        BY <1>0, <2>3, <4>1 DEF Frames
      <4> QED BY <1>1, <2>4, <2>5, <4>1, <4>2
    <3>4. ASSUME last.kind \in Errors
          PROVE  (n = 0 /\ call'.meta = -1) \/ \E rev \in 1..Revision' : Frames(out, n, rev)'
      <4>1. (n = 0 /\ call.meta = -1) \/ \E rev \in 1..Revision : Frames(out, n, rev)
        BY <3>1, <3>4 DEF Finished
      <4>2. CASE n = 0 /\ call.meta = -1
        BY <1>3, <4>2
      <4>3. ASSUME NEW rev \in 1..Revision, Frames(out, n, rev)
            PROVE  rev \in 1..Revision' /\ Frames(out, n, rev)'
        BY <1>0, <1>1, <2>4, <4>3
      <4> QED BY <4>1, <4>2, <4>3
    <3> QED BY <2>3, <3>1, <3>2, <3>3, <3>4 DEF Finished
  <2>10. st.pc = "sending" => Frames(st.out, Len(st.out), st.began)' /\ Carries(st.out, Len(st.out), st.sent)'
    BY <2>3, <2>4, <2>5 DEF Listens
  <2>11. Listens(new)'
    BY <1>2, <1>3, <2>3, <2>6, <2>7, <2>8, <2>9, <2>10 DEF Listens
  <2> QED BY <1>3, <2>1, <2>2, <2>11
<1> QED BY <1>6, <1>7, <1>8, <1>9, <1>10, <1>11, <1>12 DEF IInv

-----------------------------------------------------------------------------
(* A step of the client keeps its own side, of files and calls, and the    *)
(* side of the streams.                                                    *)

StreamSide ==
    /\ stream \in [Stream -> StreamRecord]
    /\ \A s \in Stream : /\ stream[s].rev <= Revision /\ stream[s].began <= Revision
                         /\ stream[s].stamp <= Revision /\ Len(stream[s].out) <= Window + 1
    /\ SlotsKept /\ Streams /\ Talks

ClientSide ==
    /\ saved \in SavedRecord /\ saved.rev <= Revision
    /\ part \in PartRecord
    /\ target \in Seq(Bytes \cup {"old"})
    /\ call \in CallRecord /\ call.attempt <= MaxAttempts
    /\ troubles \in 0..MaxTroubles
    /\ Files /\ Holding /\ Quiet

LEMMA Sides ==
    ASSUME IInv
    PROVE  /\ StreamSide /\ ClientSide /\ Revision \in Nat /\ Revision > 0 /\ versions \in Seq(Contents)
           /\ Accepted \in Nat /\ part.bytes \in Seq(Bytes)
           /\ UNCHANGED versions => Revision' = Revision
           /\ UNCHANGED versions /\ StreamSide' /\ ClientSide' => IInv'
PROOF
<1>1. StreamSide /\ ClientSide
  BY DEF IInv, Types, StreamSide, ClientSide
<1>2. versions \in Seq(Contents) /\ Revision \in 1..MaxEdits + 1
  BY DEF IInv, Types
<1>3. Revision \in Nat
  BY <1>2, Versions
<1>4. part.bytes \in Seq(Bytes)
  BY <1>1 DEF ClientSide, PartRecord
<1>5. Accepted \in Nat
  BY <1>4, LenProperties DEF Accepted
<1>6. UNCHANGED versions => Revision' = Revision
  BY DEF Revision
<1>7. UNCHANGED versions /\ StreamSide' /\ ClientSide' => IInv'
  BY <1>2, <1>6 DEF IInv, Types, StreamSide, ClientSide
<1> QED BY <1>1, <1>2, <1>3, <1>4, <1>5, <1>6, <1>7

(* The client lets go of its stream. *)
LEMMA Hangs ==
    ASSUME IInv, call.pc = "receiving", stream' = Dropped, UNCHANGED versions,
           call'.pc # "receiving", call'.stream = "none"
    PROVE  StreamSide'
PROOF
<1>0. StreamSide /\ Revision \in Nat /\ Revision' = Revision
  BY Sides
<1>1. PICK c \in Stream : c = call.stream
  BY <1>0 DEF StreamSide, Streams
<1>2. PICK st, free : st = stream[c] /\ free = Free
  OBVIOUS
<1>3. st \in StreamRecord /\ free \in StreamRecord /\ ~free.up /\ free.out = <<>> /\ free.pc = "free"
      /\ free.rev = 0 /\ free.began = 0 /\ free.stamp = 0
  BY <1>0, <1>1, <1>2, Frees DEF StreamSide
<1>4. PICK pc, left : pc = st.pc /\ left = [free EXCEPT !.pc = pc]
  OBVIOUS
<1>5. /\ left \in StreamRecord /\ ~left.up /\ left.out = <<>> /\ left.pc = pc
      /\ left.rev = 0 /\ left.began = 0 /\ left.stamp = 0
  <2>1. pc \in {"free", "queued", "prefix", "sending", "done"}
    BY <1>3, <1>4 DEF StreamRecord
  <2> QED BY <1>3, <1>4, <2>1 DEF StreamRecord
<1>6. PICK new : new = IF st.pc = "done" THEN free ELSE left
  OBVIOUS
<1>7. /\ new \in StreamRecord /\ ~new.up /\ new.out = <<>> /\ new.rev = 0 /\ new.began = 0 /\ new.stamp = 0
      /\ (new.pc = st.pc \/ new.pc = "free")
  BY <1>3, <1>4, <1>5, <1>6
<1>8. stream' = [stream EXCEPT ![c] = new]
  BY <1>1, <1>2, <1>4, <1>6 DEF Dropped
<1>9. /\ \A v \in Stream \ {c} : stream'[v] = stream[v]
      /\ stream'[c] = new /\ stream' \in [Stream -> StreamRecord]
  BY <1>0, <1>7, <1>8 DEF StreamSide
<1>10. \A s \in Stream : /\ stream'[s].rev <= Revision' /\ stream'[s].began <= Revision'
                          /\ stream'[s].stamp <= Revision' /\ Len(stream'[s].out) <= Window + 1
  <2>1. new.rev <= Revision /\ new.began <= Revision /\ new.stamp <= Revision /\ Len(new.out) <= Window + 1
    <3>1. Len(new.out) = 0
      BY <1>7
    <3> QED BY <1>0, <1>7, <3>1, DownloadAssumption
  <2> QED BY <1>0, <1>9, <2>1 DEF StreamSide
<1>11. SlotsKept'
  <2>1. Serving' \subseteq Serving
    BY <1>2, <1>7, <1>9 DEF Serving
  <2> QED BY <2>1, SlotsStay DEF IInv
<1>12. Streams'
  <2>1. \A s \in Stream : ~stream'[s].up /\ stream'[s].out = <<>>
    <3> TAKE s \in Stream
    <3>1. s # c => ~stream[s].up /\ stream[s].out = <<>>
      BY <1>0, <1>1 DEF StreamSide, Streams
    <3> QED BY <1>7, <1>9, <3>1
  <2> QED BY <2>1 DEF Streams
<1>13. Talks'
  BY DEF Talks
<1> QED BY <1>9, <1>10, <1>11, <1>12, <1>13 DEF StreamSide

LEMMA StreamsStill ==
    ASSUME IInv, UNCHANGED <<versions, stream>>, call.pc # "receiving",
           call'.pc # "receiving", call'.stream = "none"
    PROVE  StreamSide'
PROOF
<1>0. StreamSide /\ Revision' = Revision
  BY Sides
<1>1. SlotsKept'
  <2>1. Serving' \subseteq Serving
    BY DEF Serving
  <2> QED BY <2>1, SlotsStay DEF IInv
<1>2. Streams' /\ Talks'
  BY <1>0 DEF StreamSide, Streams, Talks
<1> QED BY <1>0, <1>1, <1>2 DEF StreamSide

(* The client takes a frame. *)
LEMMA Takes ==
    ASSUME IInv, call.pc = "receiving", stream[call.stream].out # <<>>, stream' = Taken, UNCHANGED versions,
           call'.pc = "receiving", call'.stream = call.stream, NEW new, new = stream'[call.stream], Listens(new)'
    PROVE  StreamSide'
PROOF
<1>0. StreamSide /\ Revision \in Nat /\ Revision' = Revision
  BY Sides
<1>1. PICK c \in Stream : c = call.stream
  BY <1>0 DEF StreamSide, Streams
<1>2. PICK st, rest : st = stream[c] /\ rest = Tail(st.out)
  OBVIOUS
<1>3. st \in StreamRecord /\ st.out \in Seq(FrameRecord) /\ st.out # <<>>
  BY <1>0, <1>1, <1>2 DEF StreamSide, StreamRecord
<1>4. rest \in Seq(FrameRecord) /\ Len(rest) = Len(st.out) - 1 /\ Len(st.out) \in Nat
  BY <1>2, <1>3, HeadTailProperties, LenProperties
<1>5. stream' = [stream EXCEPT ![c] = [st EXCEPT !.out = rest]]
  <2>1. stream' = [stream EXCEPT ![c].out = Tail(@)]
    BY <1>1 DEF Taken
  <2> QED BY <1>0, <1>2, <2>1 DEF StreamSide
<1>6. PICK next : next = [st EXCEPT !.out = rest]
  OBVIOUS
<1>7. /\ next \in StreamRecord /\ next.out = rest /\ next.up = st.up /\ next.pc = st.pc
      /\ next.rev = st.rev /\ next.began = st.began /\ next.stamp = st.stamp
  BY <1>3, <1>4, <1>6 DEF StreamRecord
<1>8. /\ \A v \in Stream \ {c} : stream'[v] = stream[v]
      /\ stream'[c] = next /\ stream' \in [Stream -> StreamRecord]
  BY <1>0, <1>5, <1>6, <1>7 DEF StreamSide
<1>9. \A s \in Stream : /\ stream'[s].rev <= Revision' /\ stream'[s].began <= Revision'
                         /\ stream'[s].stamp <= Revision' /\ Len(stream'[s].out) <= Window + 1
  <2>1. st.rev <= Revision /\ st.began <= Revision /\ st.stamp <= Revision /\ Len(st.out) <= Window + 1
    BY <1>0, <1>2 DEF StreamSide
  <2>2. Len(next.out) <= Window + 1
    BY <1>4, <1>7, <2>1, DownloadAssumption
  <2> QED BY <1>0, <1>7, <1>8, <2>1, <2>2 DEF StreamSide
<1>10. SlotsKept'
  <2>1. Serving' \subseteq Serving
    BY <1>2, <1>7, <1>8 DEF Serving
  <2> QED BY <2>1, SlotsStay DEF IInv
<1>11. Streams'
  <2>1. st.up
    BY <1>0, <1>1, <1>2 DEF StreamSide, Streams
  <2>2. \A s \in Stream : stream'[s].up <=> call.stream = s
    BY <1>0, <1>1, <1>7, <1>8, <2>1 DEF StreamSide, Streams
  <2>3. \A s \in Stream : ~stream'[s].up => stream'[s].out = <<>>
    BY <1>0, <1>7, <1>8, <2>1 DEF StreamSide, Streams
  <2> QED BY <1>1, <2>2, <2>3 DEF Streams
<1>12. Talks'
  <2>1. stream'[call'.stream] = new
    OBVIOUS
  <2> QED BY <2>1 DEF Talks
<1> QED BY <1>8, <1>9, <1>10, <1>11, <1>12 DEF StreamSide

(* How calls end. *)
LEMMA EndsFacts ==
    ASSUME IInv, NEW ok \in BOOLEAN
    PROVE  /\ Ends(ok) \in CallRecord /\ Ends(ok).pc = "ended" /\ Ends(ok).ok = ok
           /\ Ends(ok).quiet = call.quiet /\ Ends(ok).attempt = 0 /\ Ends(ok).stream = "none"
PROOF
<1>1. PICK idle, quiet : idle = Idle /\ quiet = call.quiet
  OBVIOUS
<1>2. idle \in CallRecord /\ idle.attempt = 0 /\ idle.stream = "none"
  BY <1>1 DEF Idle, CallRecord
<1>3. quiet \in BOOLEAN
  BY <1>1, Sides DEF ClientSide, CallRecord
<1>4. PICK ended : ended = [idle EXCEPT !.pc = "ended", !.ok = ok, !.quiet = quiet]
  OBVIOUS
<1>5. /\ ended \in CallRecord /\ ended.pc = "ended" /\ ended.ok = ok
      /\ ended.quiet = quiet /\ ended.attempt = 0 /\ ended.stream = "none"
  BY <1>2, <1>3, <1>4 DEF CallRecord
<1>6. Ends(ok) = ended
  BY <1>1, <1>4 DEF Ends
<1> QED BY <1>1, <1>5, <1>6

LEMMA Troubled ==
    ASSUME IInv, NEW next \in CallRecord, next.pc # "idle", Trouble(next)
    PROVE  /\ call' \in CallRecord /\ call'.pc = next.pc /\ ~call'.quiet /\ call'.attempt = next.attempt
           /\ call'.stream = next.stream /\ troubles' \in 0..MaxTroubles
PROOF
<1>1. call' = [next EXCEPT !.quiet = FALSE]
  BY DEF Trouble
<1>2. troubles' \in 0..MaxTroubles
  BY Sides, DownloadAssumption DEF Trouble, ClientSide
<1> QED BY <1>1, <1>2 DEF CallRecord

LEMMA FailedCall ==
    ASSUME IInv, Trouble(Ends(FALSE))
    PROVE  /\ call' \in CallRecord /\ call'.pc = "ended" /\ ~call'.quiet /\ call'.attempt = 0
           /\ call'.stream = "none" /\ troubles' \in 0..MaxTroubles
PROOF
<1>1. PICK next : next = Ends(FALSE)
  OBVIOUS
<1>2. next \in CallRecord /\ next.pc = "ended" /\ next.attempt = 0 /\ next.stream = "none"
  BY <1>1, EndsFacts
<1> QED BY <1>1, <1>2, Troubled

LEMMA EndedSide ==
    ASSUME IInv, UNCHANGED <<versions, saved, part, target>>, call' \in CallRecord, call'.pc = "ended",
           call'.attempt = 0, call'.quiet => call'.ok, troubles' \in 0..MaxTroubles
    PROVE  ClientSide'
PROOF
<1>1. ClientSide /\ Revision' = Revision
  BY Sides
<1>2. Files'
  BY <1>1 DEF ClientSide, Files
<1>3. Holding' /\ Quiet'
  BY DEF Holding, Quiet
<1> QED BY <1>1, <1>2, <1>3, DownloadAssumption DEF ClientSide

(* A checkpoint that fails ends the call. *)
LEMMA CheckpointFailsStep ==
    ASSUME IInv, call.pc = "receiving", CheckpointFails, stream' = Dropped, UNCHANGED <<versions, target>>
    PROVE  IInv'
PROOF
<1>1. /\ call' \in CallRecord /\ call'.pc = "ended" /\ ~call'.quiet /\ call'.attempt = 0
      /\ call'.stream = "none" /\ troubles' \in 0..MaxTroubles
  BY FailedCall DEF CheckpointFails
<1>2. UNCHANGED <<saved, part>>
  BY DEF CheckpointFails
<1>3. ClientSide'
  BY <1>1, <1>2, EndedSide
<1>4. StreamSide'
  BY <1>1, Hangs
<1> QED BY <1>3, <1>4, Sides

(* What a checkpoint leaves. *)
LEMMA Checkpointed ==
    ASSUME IInv, call.pc = "receiving", UNCHANGED versions,
           part' = [part EXCEPT !.synced = Accepted], saved' = [saved EXCEPT !.offset = Accepted]
    PROVE  /\ saved' \in SavedRecord /\ saved'.rev = saved.rev /\ saved'.rev <= Revision' /\ saved'.offset = Accepted
           /\ saved' # NoState /\ part' \in PartRecord /\ part'.bytes = part.bytes /\ part'.exists
           /\ saved'.rev = call.rev /\ Files' /\ Accepted' = Accepted
PROOF
<1>0. /\ ClientSide /\ Accepted \in Nat /\ Revision' = Revision /\ saved \in SavedRecord /\ part \in PartRecord
      /\ part.bytes \in Seq(Bytes) /\ saved.rev <= Revision
  BY Sides DEF ClientSide
<1>1. /\ call.rev > 0 => Accepted <= Len(versions[call.rev])
      /\ Accepted > 0 => call.rev > 0
      /\ saved.rev = call.rev /\ part.exists
  BY Fits
<1>2. PICK held : held = Accepted /\ held \in Nat
  BY <1>0
<1>3. saved' \in SavedRecord /\ saved'.rev = saved.rev /\ saved'.offset = held
  BY <1>0, <1>2 DEF SavedRecord
<1>4. /\ part' \in PartRecord /\ part'.bytes = part.bytes /\ part'.exists = part.exists /\ part'.synced = held
  BY <1>0, <1>2 DEF PartRecord
<1>5. saved' # NoState
  <2>1. NoState.offset = -1
    BY DEF NoState
  <2>2. saved'.offset # -1
    BY <1>2, <1>3
  <2> QED BY <2>1, <2>2, Zenon
<1>6. Files'
  <2>1. part'.synced <= Len(part'.bytes)
    BY <1>2, <1>4 DEF Accepted
  <2>2. saved'.offset <= part'.synced /\ (saved'.offset > 0 => saved'.rev > 0)
    BY <1>1, <1>2, <1>3, <1>4
  <2>3. saved'.rev > 0 => saved'.offset <= Len(versions'[saved'.rev])
    BY <1>1, <1>2, <1>3
  <2> QED BY <1>2, <1>3, <2>1, <2>2, <2>3 DEF Files
<1>7. Accepted' = Accepted
  BY <1>4 DEF Accepted
<1> QED BY <1>0, <1>1, <1>2, <1>3, <1>4, <1>5, <1>6, <1>7

(* The frame that the client takes next. *)
LEMMA NextFrame ==
    ASSUME IInv, call.pc = "receiving", NEW st, st = stream[call.stream], NEW out, out = st.out, out # <<>>
    PROVE  /\ call.stream \in Stream /\ st \in StreamRecord /\ out \in Seq(FrameRecord) /\ Len(out) \in Nat
           /\ Len(out) > 0 /\ st.up /\ Listens(st) /\ st.pc \in {"sending", "done"}
           /\ out[1] \in FrameRecord
           /\ \/ st.pc = "done" /\ Len(out) = 1 /\ out[1].kind \in Errors \cup {"summary"}
              \/ \E n \in Nat \ {0}, rev \in 1..Revision :
                    /\ Frames(out, n, rev) /\ out[1].kind = IF call.meta = -1 THEN "metadata" ELSE "chunk"
                    /\ st.pc = "sending" => n = Len(out) /\ rev = st.began
                    /\ st.pc = "done" =>
                          /\ n = Len(out) - 1
                          /\ out[n + 1].kind = "summary" => rev = out[n + 1].rev
PROOF
<1>0. StreamSide /\ Revision \in Nat /\ ClientSide
  BY Sides
<1>1. PICK c \in Stream : c = call.stream
  BY <1>0 DEF StreamSide, Streams
<1>2. st \in StreamRecord /\ out \in Seq(FrameRecord) /\ st.up /\ Listens(st)
  BY <1>0, <1>1 DEF StreamSide, StreamRecord, Streams, Talks
<1>3. Len(out) \in Nat /\ Len(out) > 0
  BY <1>2, EmptySeq, LenProperties
<1>4. out[1] \in FrameRecord
  BY <1>2, <1>3, ElementOfSeq
<1>5. call.since \in 1..Revision
  BY <1>0 DEF ClientSide, Holding
<1>6. st.pc \in {"sending", "done"}
  BY <1>2 DEF Listens, Before, StreamRecord
<1>7. ASSUME NEW n \in Nat \ {0}, NEW rev, Frames(out, n, rev)
      PROVE  rev \in 1..Revision /\ out[1].kind = IF call.meta = -1 THEN "metadata" ELSE "chunk"
  <2>1. rev \in call.since..Revision
    BY <1>7 DEF Frames
  <2>2. rev \in 1..Revision
    BY <1>0, <1>5, <2>1
  <2>3. 1 \in 1..n
    OBVIOUS
  <2> QED BY <1>7, <2>2, <2>3 DEF Frames, Waits
<1>8. CASE st.pc = "sending"
  <2>1. Frames(out, Len(out), st.began) /\ Len(out) \in Nat \ {0}
    BY <1>2, <1>3, <1>8 DEF Listens
  <2>2. st.began \in 1..Revision /\ out[1].kind = IF call.meta = -1 THEN "metadata" ELSE "chunk"
    BY <1>7, <2>1
  <2> QED BY <1>1, <1>2, <1>3, <1>4, <1>8, <2>1, <2>2
<1>9. CASE st.pc = "done"
  <2>1. PICK n, last : n = Len(out) - 1 /\ last = out[n + 1]
    OBVIOUS
  <2>2. /\ last.kind \in Errors \cup {"summary"}
        /\ last.kind = "summary" => Frames(out, n, last.rev)
        /\ last.kind \in Errors => (n = 0 /\ call.meta = -1) \/ \E rev \in 1..Revision : Frames(out, n, rev)
    BY <1>2, <1>9, <2>1 DEF Listens, Finished
  <2>3. CASE n = 0
    <3>1. Len(out) = 1 /\ out[1] = last
      BY <1>3, <2>1, <2>3
    <3> QED BY <1>1, <1>2, <1>3, <1>4, <1>6, <1>9, <2>2, <3>1
  <2>4. CASE n # 0
    <3>1. n \in Nat \ {0}
      BY <1>3, <2>1, <2>4
    <3>2. PICK rev : Frames(out, n, rev) /\ (last.kind = "summary" => rev = last.rev)
      <4>1. CASE last.kind = "summary"
        BY <2>2, <4>1
      <4>2. CASE last.kind # "summary"
        BY <2>2, <2>4, <4>2
      <4> QED BY <4>1, <4>2
    <3>3. rev \in 1..Revision /\ out[1].kind = IF call.meta = -1 THEN "metadata" ELSE "chunk"
      BY <1>7, <3>1, <3>2
    <3> QED BY <1>1, <1>2, <1>3, <1>4, <1>6, <1>9, <2>1, <3>1, <3>2, <3>3
  <2> QED BY <2>3, <2>4
<1> QED BY <1>6, <1>8, <1>9

LEMMA Previous == \A n \in Nat \ {0} : (n - 1) + 1 = n /\ n \in 1..n
  OBVIOUS

LEMMA TakesFrame ==
    ASSUME IInv, call.pc = "receiving", NEW st, st = stream[call.stream], NEW out, out = st.out, out # <<>>,
           NEW rest, rest = Tail(out), out[1].kind \in {"metadata", "chunk"}, stream' = Taken,
           UNCHANGED versions, call'.pc = "receiving", call'.stream = call.stream, call'.since = call.since,
           call'.quiet = call.quiet, call'.meta # -1,
           \A n \in 1..Len(out), rev \in 1..Revision : Frames(out, n, rev) => Frames(rest, n - 1, rev)',
           \A n \in 1..Len(out), rev \in 1..Revision, bytes \in Seq(Bytes) :
              Frames(out, n, rev) /\ Carries(out, n, bytes) => Carries(rest, n - 1, bytes)'
    PROVE  StreamSide'
PROOF
<1>0. StreamSide /\ Revision \in Nat /\ Revision' = Revision
  BY Sides
<1>1. /\ call.stream \in Stream /\ st \in StreamRecord /\ out \in Seq(FrameRecord) /\ Len(out) \in Nat
      /\ Len(out) > 0 /\ Listens(st) /\ st.pc \in {"sending", "done"}
  BY NextFrame
<1>2. PICK n \in Nat \ {0}, rev \in 1..Revision :
         /\ Frames(out, n, rev)
         /\ st.pc = "sending" => n = Len(out) /\ rev = st.began
         /\ st.pc = "done" =>
               /\ n = Len(out) - 1
               /\ out[n + 1].kind = "summary" => rev = out[n + 1].rev
  BY NextFrame DEF Errors
<1>9. n \in 1..Len(out)
  BY <1>1, <1>2
<1>3. rest \in Seq(FrameRecord) /\ Len(rest) = Len(out) - 1 /\ \A i \in 1..Len(rest) : rest[i] = out[i + 1]
  BY <1>1, HeadTailProperties
<1>4. PICK new : new = [st EXCEPT !.out = rest]
  OBVIOUS
<1>5. /\ new \in StreamRecord /\ new.pc = st.pc /\ new.out = rest /\ new.began = st.began /\ new.stamp = st.stamp
      /\ new.view = st.view /\ new.size = st.size /\ new.sent = st.sent
  BY <1>1, <1>3, <1>4 DEF StreamRecord
<1>6. stream'[call.stream] = new
  <2>1. PICK c \in Stream : c = call.stream
    BY <1>1
  <2>2. stream' = [stream EXCEPT ![c].out = Tail(@)]
    BY <2>1 DEF Taken
  <2> QED BY <1>0, <1>4, <2>1, <2>2 DEF StreamSide
<1>7. CASE st.pc = "sending"
  <2>1. /\ Carries(out, n, st.sent) /\ Sees(st) /\ st.sent \in Seq(Bytes)
        /\ st.stamp = st.began => \A j \in 1..Len(st.sent) : st.sent[j] = st.view[j]
    BY <1>1, <1>2, <1>7 DEF Listens, StreamRecord
  <2>2. Frames(rest, n - 1, rev)' /\ Carries(rest, n - 1, st.sent)'
    BY <1>2, <1>9, <2>1
  <2>3. Len(rest) = n - 1 /\ st.began = rev
    BY <1>2, <1>3, <1>7
  <2>4. Frames(rest, Len(rest), st.began)' /\ Carries(rest, Len(rest), st.sent)'
    BY <2>2, <2>3
  <2>5. Sees(new)'
    BY <1>0, <1>5, <2>1 DEF Sees
  <2>6. Listens(new)'
    BY <1>5, <1>7, <2>1, <2>4, <2>5 DEF Listens
  <2> QED BY <1>6, <2>6, Takes
<1>8. CASE st.pc = "done"
  <2>1. PICK last : last = out[n + 1]
    OBVIOUS
  <2>2. n = Len(out) - 1 /\ Finished(out) /\ n # 0
    BY <1>1, <1>2, <1>8 DEF Listens
  <2>3. /\ last.kind \in Errors \cup {"summary"} /\ last \in FrameRecord
        /\ last.kind = "summary" => Carries(out, n, last.of) /\ last.of = versions[last.rev] /\ rev = last.rev
        /\ last.kind \in Errors => ~call.quiet
    <3>1. last \in FrameRecord
      BY <1>1, <2>1, <2>2, ElementOfSeq
    <3> QED BY <1>2, <1>8, <2>1, <2>2, <3>1 DEF Finished
  <2>4. Frames(rest, n - 1, rev)'
    BY <1>2, <1>9
  <2>5. last.kind = "summary" => Carries(rest, n - 1, last.of)'
    <3>1. last.of \in Seq(Bytes)
      BY <2>3 DEF FrameRecord
    <3> QED BY <1>2, <1>9, <2>3, <3>1
  <2>6. Len(rest) - 1 = n - 1 /\ rest[(n - 1) + 1] = last /\ Len(rest) > 0
    <3>1. Len(rest) = n /\ (n - 1) + 1 = n /\ n \in 1..n
      <4>1. n \in Nat \ {0}
        BY <1>2
      <4>2. n = Len(out) - 1 /\ Len(rest) = Len(out) - 1
        BY <1>3, <2>2
      <4> QED BY <4>1, <4>2, Previous, Zenon
    <3>2. rest[n] = out[n + 1]
      <4>1. n \in 1..Len(rest)
        BY <3>1
      <4> QED BY <1>3, <4>1, Zenon
    <3>3. Len(rest) - 1 = n - 1 /\ rest[(n - 1) + 1] = rest[n]
      BY <3>1, Zenon
    <3>4. Len(rest) > 0
      BY <3>1
    <3> QED BY <2>1, <3>2, <3>3, <3>4, Zenon
  <2>7. Finished(rest)'
    <3>1. last.kind = "summary" =>
             Frames(rest, n - 1, last.rev)' /\ Carries(rest, n - 1, last.of)' /\ last.of = versions'[last.rev]
      BY <2>3, <2>4, <2>5
    <3>2. last.kind \in Errors => (\E r \in 1..Revision' : Frames(rest, n - 1, r)') /\ ~call'.quiet
      BY <1>0, <2>3, <2>4
    <3> QED BY <2>3, <2>6, <3>1, <3>2 DEF Finished
  <2>8. Listens(new)'
    BY <1>5, <1>8, <2>7 DEF Listens
  <2> QED BY <1>6, <2>8, Takes
<1> QED BY <1>1, <1>7, <1>8

LEMMA MetadataStep ==
    ASSUME IInv, ReceiveMetadata
    PROVE  IInv'
PROOF
<1>0. /\ ClientSide /\ StreamSide /\ Revision \in Nat /\ UNCHANGED <<versions, target>> /\ call.pc = "receiving"
      /\ Revision' = Revision /\ Accepted \in Nat
  BY Sides DEF ReceiveMetadata, Received, Keeps
<1>1. CASE CheckpointFails /\ stream' = Dropped
  BY <1>0, <1>1, CheckpointFailsStep
<1>2. CASE /\ saved' = [saved EXCEPT !.rev = Frame1.rev]
           /\ call' = [call EXCEPT !.rev = Frame1.rev, !.meta = Frame1.size]
           /\ stream' = Taken /\ UNCHANGED <<part, troubles>>
  <2>1. PICK st, out, f, rest : st = stream[call.stream] /\ out = st.out /\ f = Head(out) /\ rest = Tail(out)
    OBVIOUS
  <2>2. out # <<>> /\ f.kind = "metadata" /\ f = Frame1
    BY <2>1 DEF ReceiveMetadata, Received, Frame1
  <2>3. out \in Seq(FrameRecord) /\ Len(out) \in Nat /\ out[1] \in FrameRecord
    BY <1>0, <2>1, <2>2, NextFrame
  <2>4. f = out[1] /\ f \in FrameRecord /\ rest \in Seq(FrameRecord) /\ Len(rest) = Len(out) - 1
        /\ \A i \in 1..Len(rest) : rest[i] = out[i + 1]
    BY <2>1, <2>2, <2>3, HeadTailProperties
  <2>5. call.meta = -1 /\ \E n \in Nat \ {0}, rev \in 1..Revision : Frames(out, n, rev)
    BY <1>0, <2>1, <2>2, <2>4, NextFrame DEF Errors
  <2>6. PICK n0 \in Nat \ {0}, rev0 \in 1..Revision : Frames(out, n0, rev0)
    BY <2>5
  <2>7. PICK rev, size : rev = f.rev /\ size = f.size
    OBVIOUS
  <2>8. rev \in Nat /\ size \in Nat
    BY <2>4, <2>7 DEF FrameRecord
  <2>9. rev = rev0 /\ size = Len(versions[rev]) /\ rev \in 1..Revision /\ Accepted <= size
    <3>1. rev = rev0 /\ size = Len(versions[rev])
      BY <2>4, <2>5, <2>6, <2>7 DEF Frames
    <3>2. Accepted + n0 - 1 <= size
      BY <2>5, <2>6, <3>1 DEF Frames, Waits
    <3> QED BY <1>0, <2>6, <2>8, <3>1, <3>2
  <2>10. call \in CallRecord /\ saved \in SavedRecord /\ call' = [call EXCEPT !.rev = rev, !.meta = size]
         /\ saved' = [saved EXCEPT !.rev = rev]
    BY <1>0, <1>2, <2>2, <2>7 DEF ClientSide
  <2>11. /\ call' \in CallRecord /\ call'.pc = call.pc /\ call'.stream = call.stream
         /\ call'.since = call.since /\ call'.offset = call.offset /\ call'.rev = rev /\ call'.quiet = call.quiet
         /\ call'.meta = size /\ call'.durable = call.durable /\ call'.attempt = call.attempt
         /\ call'.restarted = call.restarted
    BY <2>8, <2>10 DEF CallRecord
  <2>12. saved' \in SavedRecord /\ saved'.rev = rev /\ saved'.offset = saved.offset
    BY <2>8, <2>10 DEF SavedRecord
  <2>13. Accepted' = Accepted /\ Waits' = 0
    <3>1. Accepted' = Accepted
      BY <1>2 DEF Accepted
    <3> QED BY <2>8, <2>11, <3>1 DEF Waits
  <2>14. ASSUME NEW n \in 1..Len(out), NEW r \in 1..Revision, Frames(out, n, r)
         PROVE  Frames(rest, n - 1, r)'
    <3>1. r = rev /\ r \in call.since..Revision /\ Accepted + n - 1 <= Len(versions[r])
          /\ \A i \in 1..n : i > 1 => out[i].kind = "chunk" /\ out[i].byte \in Bytes
      BY <2>4, <2>5, <2>7, <2>14 DEF Frames, Waits
    <3>2. ASSUME NEW i \in 1..n - 1 PROVE out[i + 1].kind = "chunk" /\ out[i + 1].byte \in Bytes
      <4>1. i + 1 \in 1..n /\ i + 1 > 1
        BY <2>3, <2>14
      <4> QED BY <3>1, <4>1
    <3>3. \A i \in 1..n - 1 : rest[i] = out[i + 1]
      <4>1. \A i \in 1..n - 1 : i \in 1..Len(rest)
        BY <2>3, <2>4
      <4> QED BY <2>4, <4>1
    <3>4. \A i \in 1..n - 1 : rest[i].kind = "chunk" /\ rest[i].byte \in Bytes /\ ~(i <= 0)
      BY <3>2, <3>3
    <3>5. Accepted' + (n - 1) - Waits' <= Len(versions'[r]) /\ n - 1 >= Waits'
      BY <1>0, <2>13, <3>1
    <3>6. call'.rev = r /\ call'.meta = Len(versions'[r]) /\ call'.meta # -1 /\ r \in call'.since..Revision'
      BY <1>0, <2>8, <2>9, <2>11, <3>1
    <3> QED BY <2>13, <3>4, <3>5, <3>6 DEF Frames
  <2>15. ASSUME NEW n \in 1..Len(out), NEW r \in 1..Revision, NEW bytes \in Seq(Bytes),
                Frames(out, n, r), Carries(out, n, bytes)
         PROVE  Carries(rest, n - 1, bytes)'
    <3>1. /\ Len(bytes) = Accepted + n - 1 /\ \A j \in 1..Accepted : bytes[j] = part.bytes[j]
          /\ \A i \in 1..n : i > 1 => out[i].byte = bytes[Accepted + i - 1]
      BY <2>5, <2>15 DEF Carries, Waits
    <3>2. Len(bytes) = Accepted' + (n - 1) - Waits' /\ \A j \in 1..Accepted' : bytes[j] = part'.bytes[j]
      BY <1>0, <1>2, <2>13, <3>1
    <3>3. ASSUME NEW i \in 1..n - 1 PROVE rest[i].byte = bytes[Accepted' + i - Waits']
      <4>1. i + 1 \in 1..n /\ i + 1 > 1 /\ Accepted + (i + 1) - 1 = Accepted + i /\ Accepted + i - 0 = Accepted + i
        BY <1>0, <2>3, <2>15
      <4>2. rest[i] = out[i + 1]
        <5>1. i \in 1..Len(rest)
          BY <2>3, <2>4
        <5> QED BY <2>4, <5>1
      <4> QED BY <2>13, <3>1, <4>1, <4>2
    <3> QED BY <3>2, <3>3 DEF Carries
  <2>16. StreamSide'
    <3>1. \A n \in 1..Len(out), r \in 1..Revision : Frames(out, n, r) => Frames(rest, n - 1, r)'
      BY <2>14
    <3>2. \A n \in 1..Len(out), r \in 1..Revision, bytes \in Seq(Bytes) :
              Frames(out, n, r) /\ Carries(out, n, bytes) => Carries(rest, n - 1, bytes)'
      BY <2>15
    <3>3. call'.meta # -1 /\ out[1].kind \in {"metadata", "chunk"}
      BY <2>2, <2>4, <2>8, <2>11
    <3> QED BY <1>0, <1>2, <2>1, <2>2, <2>11, <3>1, <3>2, <3>3, TakesFrame
  <2>17. Files'
    <3>1. saved # NoState /\ saved.offset = call.offset /\ part.exists
      BY <1>0 DEF ClientSide, Holding
    <3>2. Accepted = call.offset
      BY <1>0, <2>5, <2>1, <2>2, NextFrame DEF Listens
    <3>3. part'.synced <= Len(part'.bytes)
      BY <1>0, <1>2 DEF ClientSide, Files
    <3>4. saved.offset \in Nat /\ saved.offset <= part.synced
      BY <1>0, <3>1 DEF ClientSide, Files
    <3>5. saved'.offset <= Len(versions'[saved'.rev])
      BY <1>0, <2>9, <2>12, <3>1, <3>2
    <3>6. saved'.rev > 0
      BY <2>9, <2>12
    <3> QED BY <1>2, <2>12, <3>3, <3>4, <3>5, <3>6 DEF Files
  <2>18. Holding'
    <3>1. saved # NoState /\ saved.offset = call.offset /\ part.exists /\ call.since \in 1..Revision
          /\ call.durable = call.offset /\ call.attempt < MaxAttempts
      BY <1>0 DEF ClientSide, Holding
    <3>2. saved' # NoState
      <4>1. NoState.offset = -1 /\ saved.offset \in Nat
        BY <1>0, <3>1 DEF NoState, ClientSide, Files
      <4>2. saved'.offset # -1
        BY <2>12, <4>1
      <4> QED BY <4>1, <4>2, Zenon
    <3> QED BY <1>0, <1>2, <2>11, <2>12, <3>1, <3>2 DEF Holding
  <2>19. Quiet'
    BY <1>0, <2>11 DEF ClientSide, Quiet
  <2>20. ClientSide'
    <3>1. saved'.rev <= Revision' /\ UNCHANGED <<part, target, troubles>>
      BY <1>0, <1>2, <2>9, <2>12
    <3> QED BY <1>0, <2>11, <2>12, <2>17, <2>18, <2>19, <3>1 DEF ClientSide
  <2> QED BY <1>0, <2>16, <2>20, Sides
<1> QED BY <1>1, <1>2 DEF ReceiveMetadata

LEMMA ReceivedChunkStep ==
    ASSUME IInv, ReceiveChunk
    PROVE  IInv'
PROOF
<1>0. /\ ClientSide /\ StreamSide /\ Revision \in Nat /\ UNCHANGED <<versions, target>> /\ call.pc = "receiving"
      /\ Revision' = Revision /\ Accepted \in Nat /\ call.meta # -1 /\ part.bytes \in Seq(Bytes)
      /\ call \in CallRecord /\ saved \in SavedRecord /\ part \in PartRecord
  BY Sides DEF ReceiveChunk, Received, Keeps, ClientSide
<1>1. CASE CheckpointFails /\ stream' = Dropped
  BY <1>0, <1>1, CheckpointFailsStep
<1>2. CASE ~(CheckpointFails /\ stream' = Dropped)
  <2>1. PICK st, out, f, rest : st = stream[call.stream] /\ out = st.out /\ f = Head(out) /\ rest = Tail(out)
    OBVIOUS
  <2>2. out # <<>> /\ f.kind = "chunk" /\ f = Frame1
    BY <2>1 DEF ReceiveChunk, Received, Frame1
  <2>3. out \in Seq(FrameRecord) /\ Len(out) \in Nat /\ out[1] \in FrameRecord
    BY <1>0, <2>1, <2>2, NextFrame
  <2>4. f = out[1] /\ rest \in Seq(FrameRecord) /\ Len(rest) = Len(out) - 1
        /\ \A i \in 1..Len(rest) : rest[i] = out[i + 1]
    BY <2>1, <2>2, <2>3, HeadTailProperties
  <2>5. \E n \in Nat \ {0}, rev \in 1..Revision : Frames(out, n, rev)
    BY <1>0, <2>1, <2>2, <2>4, NextFrame DEF Errors
  <2>6. PICK n0 \in Nat \ {0}, rev0 \in 1..Revision : Frames(out, n0, rev0)
    BY <2>5
  <2>7. Waits = 0
    BY <1>0 DEF Waits
  <2>8. PICK byte, grown : byte = f.byte /\ grown = Append(part.bytes, byte)
    OBVIOUS
  <2>9. /\ byte \in Bytes /\ call.rev = rev0 /\ Accepted + 1 <= Len(versions[rev0])
    <3>1. 1 \in 1..n0 /\ 1 > 0
      OBVIOUS
    <3>2. byte \in Bytes /\ call.rev = rev0
      BY <1>0, <2>4, <2>6, <2>7, <2>8, <3>1 DEF Frames
    <3>3. Accepted + n0 - 0 <= Len(versions[rev0])
      BY <2>6, <2>7 DEF Frames
    <3>4. Len(versions[rev0]) \in Nat
      BY Versions, Sides
    <3> QED BY <1>0, <3>2, <3>3, <3>4
  <2>10. /\ grown \in Seq(Bytes) /\ Len(grown) = Accepted + 1 /\ grown[Accepted + 1] = byte
         /\ \A j \in 1..Accepted : grown[j] = part.bytes[j]
    BY <1>0, <2>8, <2>9, Appended DEF Accepted
  <2>11. PICK size : size = Len(grown) /\ size \in Nat /\ size = Accepted + 1
    BY <1>0, <2>10
  <2>12. /\ stream' = Taken /\ UNCHANGED troubles
         /\ \/ part' = [part EXCEPT !.bytes = grown] /\ UNCHANGED <<saved, call>>
            \/ /\ part' = [part EXCEPT !.bytes = grown, !.synced = size]
               /\ saved' = [saved EXCEPT !.offset = size]
               /\ call' = [call EXCEPT !.offset = size, !.durable = size]
    BY <1>2, <2>2, <2>8, <2>11 DEF ReceiveChunk
  <2>13. /\ call' \in CallRecord /\ call'.pc = call.pc /\ call'.stream = call.stream /\ call'.rev = call.rev
         /\ call'.since = call.since /\ call'.quiet = call.quiet /\ call'.meta = call.meta
         /\ call'.attempt = call.attempt /\ call'.restarted = call.restarted
         /\ part' \in PartRecord /\ part'.bytes = grown /\ part'.exists = part.exists
         /\ saved' \in SavedRecord /\ saved'.rev = saved.rev
         /\ \/ part'.synced = part.synced /\ saved' = saved /\ call' = call
            \/ part'.synced = size /\ saved'.offset = size /\ call'.offset = size /\ call'.durable = size
    <3>1. CASE part' = [part EXCEPT !.bytes = grown] /\ UNCHANGED <<saved, call>>
      <4>1. part' \in PartRecord /\ part'.bytes = grown /\ part'.exists = part.exists /\ part'.synced = part.synced
        BY <1>0, <2>10, <3>1 DEF PartRecord
      <4> QED BY <1>0, <3>1, <4>1
    <3>2. CASE /\ part' = [part EXCEPT !.bytes = grown, !.synced = size]
               /\ saved' = [saved EXCEPT !.offset = size]
               /\ call' = [call EXCEPT !.offset = size, !.durable = size]
      <4>1. part' \in PartRecord /\ part'.bytes = grown /\ part'.exists = part.exists /\ part'.synced = size
        BY <1>0, <2>10, <2>11, <3>2 DEF PartRecord
      <4>2. saved' \in SavedRecord /\ saved'.rev = saved.rev /\ saved'.offset = size
        BY <1>0, <2>11, <3>2 DEF SavedRecord
      <4>3. /\ call' \in CallRecord /\ call'.pc = call.pc /\ call'.stream = call.stream /\ call'.rev = call.rev
            /\ call'.since = call.since /\ call'.quiet = call.quiet /\ call'.meta = call.meta
            /\ call'.attempt = call.attempt /\ call'.restarted = call.restarted
            /\ call'.offset = size /\ call'.durable = size
        BY <1>0, <2>11, <3>2 DEF CallRecord
      <4> QED BY <4>1, <4>2, <4>3
    <3> QED BY <2>12, <3>1, <3>2
  <2>14. Accepted' = Accepted + 1 /\ Waits' = 0
    BY <1>0, <2>10, <2>13 DEF Accepted, Waits
  <2>15. ASSUME NEW n \in 1..Len(out), NEW r \in 1..Revision, Frames(out, n, r)
         PROVE  Frames(rest, n - 1, r)'
    <3>1. /\ r \in call.since..Revision /\ Accepted + n - 0 <= Len(versions[r])
          /\ call.rev = r /\ call.meta = Len(versions[r])
          /\ \A i \in 1..n : i > 0 => out[i].kind = "chunk" /\ out[i].byte \in Bytes
      BY <1>0, <2>7, <2>15 DEF Frames
    <3>2. ASSUME NEW i \in 1..n - 1 PROVE rest[i].kind = "chunk" /\ rest[i].byte \in Bytes /\ ~(i <= 0)
      <4>1. i + 1 \in 1..n /\ i + 1 > 0 /\ i \in 1..Len(rest) /\ ~(i <= 0)
        BY <2>3, <2>4, <2>15
      <4> QED BY <2>4, <3>1, <4>1
    <3>3. Accepted' + (n - 1) - Waits' <= Len(versions'[r]) /\ n - 1 >= Waits'
      <4>1. Accepted + n - 0 = (Accepted + 1) + (n - 1) - 0 /\ n - 1 >= 0
        BY <1>0, <2>3, <2>15
      <4> QED BY <1>0, <2>14, <3>1, <4>1
    <3>4. call'.rev = r /\ call'.meta = Len(versions'[r]) /\ call'.meta # -1 /\ r \in call'.since..Revision'
      BY <1>0, <2>13, <3>1
    <3> QED BY <2>14, <3>2, <3>3, <3>4 DEF Frames
  <2>16. ASSUME NEW n \in 1..Len(out), NEW r \in 1..Revision, NEW bytes \in Seq(Bytes),
                Frames(out, n, r), Carries(out, n, bytes)
         PROVE  Carries(rest, n - 1, bytes)'
    <3>1. /\ Len(bytes) = Accepted + n - 0 /\ \A j \in 1..Accepted : bytes[j] = part.bytes[j]
          /\ \A i \in 1..n : i > 0 => out[i].byte = bytes[Accepted + i - 0]
      BY <2>7, <2>16 DEF Carries
    <3>2. Len(bytes) = Accepted' + (n - 1) - Waits'
      <4>1. Accepted + n - 0 = (Accepted + 1) + (n - 1) - 0
        BY <1>0, <2>3, <2>16
      <4> QED BY <2>14, <3>1, <4>1
    <3>3. ASSUME NEW j \in 1..Accepted' PROVE bytes[j] = part'.bytes[j]
      <4>1. CASE j = Accepted + 1
        <5>1. 1 \in 1..n /\ 1 > 0 /\ Accepted + 1 - 0 = Accepted + 1
          BY <1>0, <2>3, <2>16
        <5>2. out[1].byte = bytes[Accepted + 1]
          BY <3>1, <5>1
        <5> QED BY <2>4, <2>8, <2>10, <2>13, <4>1, <5>2
      <4>2. CASE j # Accepted + 1
        <5>1. j \in 1..Accepted
          BY <1>0, <2>14, <4>2
        <5> QED BY <2>10, <2>13, <3>1, <5>1
      <4> QED BY <4>1, <4>2
    <3>4. ASSUME NEW i \in 1..n - 1 PROVE rest[i].byte = bytes[Accepted' + i - Waits']
      <4>1. i + 1 \in 1..n /\ i + 1 > 0 /\ Accepted + (i + 1) - 0 = (Accepted + 1) + i - 0 /\ i \in 1..Len(rest)
        BY <1>0, <2>3, <2>4, <2>16
      <4> QED BY <2>4, <2>14, <3>1, <4>1
    <3> QED BY <3>2, <3>3, <3>4 DEF Carries
  <2>17. StreamSide'
    <3>1. \A n \in 1..Len(out), r \in 1..Revision : Frames(out, n, r) => Frames(rest, n - 1, r)'
      BY <2>15
    <3>2. \A n \in 1..Len(out), r \in 1..Revision, bytes \in Seq(Bytes) :
              Frames(out, n, r) /\ Carries(out, n, bytes) => Carries(rest, n - 1, bytes)'
      BY <2>16
    <3>3. call'.meta # -1 /\ out[1].kind \in {"metadata", "chunk"}
      BY <1>0, <2>2, <2>4, <2>13
    <3> QED BY <1>0, <2>1, <2>2, <2>12, <2>13, <3>1, <3>2, <3>3, TakesFrame
  <2>18. /\ saved # NoState /\ saved.offset = call.offset /\ part.exists /\ call.since \in 1..Revision
         /\ call.durable = call.offset /\ call.attempt < MaxAttempts /\ saved.rev = call.rev
         /\ saved.offset \in Nat /\ saved.offset <= part.synced /\ part.synced \in Nat /\ part.synced <= Accepted
    BY <1>0 DEF ClientSide, Holding, Files, PartRecord, Accepted
  <2>19. Files'
    <3>1. part'.synced <= Len(part'.bytes)
      BY <1>0, <2>10, <2>11, <2>13, <2>18
    <3>2. saved'.offset \in Nat /\ saved'.offset <= part'.synced
      BY <2>11, <2>13, <2>18
    <3>3. saved'.rev > 0 /\ saved'.offset <= Len(versions'[saved'.rev])
      <4>1. saved'.offset <= Accepted + 1 /\ saved'.rev = rev0 /\ rev0 > 0
        BY <1>0, <2>9, <2>11, <2>13, <2>18
      <4>2. Len(versions[rev0]) \in Nat
        BY Versions, Sides
      <4> QED BY <1>0, <2>9, <3>2, <4>1, <4>2
    <3> QED BY <3>1, <3>2, <3>3 DEF Files
  <2>20. Holding'
    <3>1. saved' # NoState
      <4>1. NoState.offset = -1 /\ saved'.offset \in Nat
        BY <2>11, <2>13, <2>18 DEF NoState
      <4>2. saved'.offset # -1
        BY <4>1
      <4> QED BY <4>1, <4>2, Zenon
    <3> QED BY <1>0, <2>13, <2>18, <3>1 DEF Holding
  <2>21. Quiet'
    BY <1>0, <2>13 DEF ClientSide, Quiet
  <2> QED BY <1>0, <2>12, <2>13, <2>17, <2>19, <2>20, <2>21, Sides DEF ClientSide
<1> QED BY <1>1, <1>2

LEMMA ReceivedSummaryStep ==
    ASSUME IInv, ReceiveSummary
    PROVE  IInv'
PROOF
<1>0. /\ ClientSide /\ StreamSide /\ Revision \in Nat /\ UNCHANGED <<versions, target>> /\ call.pc = "receiving"
      /\ Revision' = Revision /\ Accepted \in Nat /\ part.bytes \in Seq(Bytes) /\ stream' = Dropped
      /\ call \in CallRecord
  BY Sides DEF ReceiveSummary, Received, Keeps, ClientSide
<1>1. PICK st, out, f : st = stream[call.stream] /\ out = st.out /\ f = Head(out)
  OBVIOUS
<1>2. out # <<>> /\ f.kind = "summary" /\ f = Frame1
  BY <1>1 DEF ReceiveSummary, Received, Frame1
<1>3. out \in Seq(FrameRecord) /\ f = out[1] /\ f \in FrameRecord /\ Listens(st)
  BY <1>0, <1>1, <1>2, NextFrame
<1>4. st.pc = "done" /\ Len(out) = 1
  BY <1>0, <1>1, <1>2, <1>3, NextFrame DEF Errors
<1>5. Frames(out, 0, f.rev) /\ Carries(out, 0, f.of) /\ f.of = versions[f.rev]
  <2>1. Finished(out) /\ Len(out) - 1 = 0 /\ 0 + 1 = 1
    BY <1>1, <1>3, <1>4 DEF Listens
  <2> QED BY <1>2, <1>3, <2>1 DEF Finished
<1>6. call.meta # -1
  BY <1>5 DEF Frames, Waits
<1>7. f.rev \in call.since..Revision /\ call.rev = f.rev /\ call.meta = Len(versions[f.rev])
  BY <1>5, <1>6 DEF Frames
<1>8. f.of = part.bytes
  <2>1. Len(f.of) = Accepted + 0 - 0 /\ \A j \in 1..Accepted : f.of[j] = part.bytes[j]
    BY <1>5, <1>6 DEF Carries, Waits
  <2>2. f.of \in Seq(Bytes) /\ Len(f.of) = Len(part.bytes) /\ Accepted = Len(part.bytes)
    <3>1. f.of \in Seq(Bytes)
      BY <1>3 DEF FrameRecord
    <3>2. Accepted + 0 - 0 = Accepted
      BY <1>0
    <3>3. Accepted = Len(part.bytes)
      BY DEF Accepted
    <3> QED BY <2>1, <3>1, <3>2, <3>3, Zenon
  <2> QED BY <1>0, <2>1, <2>2, SameBytes
<1>9. call.meta = Accepted
  BY <1>5, <1>7, <1>8 DEF Accepted
<1>10. PICK next : next = [call EXCEPT !.pc = "verified", !.stream = "none", !.meta = -1]
  OBVIOUS
<1>11. Checkpoint(next) \/ CheckpointFails
  BY <1>2, <1>7, <1>8, <1>9, <1>10 DEF ReceiveSummary
<1>12. CASE CheckpointFails
  BY <1>0, <1>12, CheckpointFailsStep
<1>13. CASE Checkpoint(next)
  <2>1. /\ next \in CallRecord /\ next.pc = "verified" /\ next.stream = "none" /\ next.rev = call.rev
        /\ next.since = call.since /\ next.quiet = call.quiet /\ next.attempt = call.attempt
    BY <1>0, <1>10 DEF CallRecord
  <2>2. PICK held : held = Accepted /\ held \in Nat
    BY <1>0
  <2>3. call' = [next EXCEPT !.offset = held, !.durable = held]
    BY <1>13, <2>2 DEF Checkpoint
  <2>4. /\ call' \in CallRecord /\ call'.pc = "verified" /\ call'.stream = "none" /\ call'.rev = call.rev
        /\ call'.since = call.since /\ call'.quiet = call.quiet /\ call'.attempt = call.attempt
        /\ call'.offset = held
    BY <2>1, <2>2, <2>3 DEF CallRecord
  <2>5. /\ part' = [part EXCEPT !.synced = Accepted] /\ saved' = [saved EXCEPT !.offset = Accepted]
        /\ UNCHANGED troubles
    BY <1>13 DEF Checkpoint
  <2>6. /\ saved' \in SavedRecord /\ saved'.rev <= Revision' /\ saved'.offset = Accepted
        /\ saved' # NoState /\ part' \in PartRecord /\ part'.bytes = part.bytes /\ part'.exists
        /\ saved'.rev = call.rev /\ Files'
    BY <1>0, <2>5, Checkpointed
  <2>7. StreamSide'
    BY <1>0, <2>4, Hangs
  <2>8. Holding'
    <3>1. f.rev \in call'.since..Revision' /\ part'.bytes = versions'[f.rev]
      BY <1>0, <1>5, <1>7, <1>8, <2>4, <2>6
    <3>2. call'.since \in 1..Revision'
      BY <1>0, <2>4 DEF ClientSide, Holding
    <3> QED BY <2>2, <2>4, <2>6, <3>1, <3>2 DEF Holding
  <2>9. Quiet'
    BY <1>0, <2>4 DEF ClientSide, Quiet
  <2> QED BY <1>0, <2>4, <2>5, <2>6, <2>7, <2>8, <2>9, Sides DEF ClientSide
<1> QED BY <1>11, <1>12, <1>13

(* The attempt has failed: what a call keeps that goes on. *)
LEMMA FailingSide ==
    ASSUME IInv, call.pc = "receiving", UNCHANGED <<versions, target>>,
           call' \in CallRecord, call'.pc = "failing", call'.since = call.since, call'.attempt = call.attempt,
           call'.restarted = call.restarted, call'.rev = call.rev,
           call'.quiet => call.quiet /\ call'.why = "changed" /\ ~call.restarted,
           saved' \in SavedRecord, saved'.rev = call.rev, saved'.rev <= Revision', saved' # NoState,
           saved'.offset = call'.offset, part' \in PartRecord, part'.exists, Files', troubles' \in 0..MaxTroubles
    PROVE  ClientSide'
PROOF
<1>1. ClientSide /\ Revision' = Revision
  BY Sides
<1>2. Holding'
  BY <1>1 DEF ClientSide, Holding
<1>3. Quiet'
  BY <1>1 DEF ClientSide, Quiet
<1> QED BY <1>1, <1>2, <1>3 DEF ClientSide

LEMMA ReceivedErrorStep ==
    ASSUME IInv, ReceiveError
    PROVE  IInv'
PROOF
<1>0. /\ ClientSide /\ StreamSide /\ Revision \in Nat /\ UNCHANGED <<versions, target>> /\ call.pc = "receiving"
      /\ Revision' = Revision /\ Accepted \in Nat /\ stream' = Dropped /\ call \in CallRecord
  BY Sides DEF ReceiveError, Received, Keeps, ClientSide
<1>1. PICK why \in Errors : Received(why) /\ Broken(why, call)
  BY DEF ReceiveError, Errors
<1>2. PICK st, out, f : st = stream[call.stream] /\ out = st.out /\ f = Head(out)
  OBVIOUS
<1>3. out # <<>> /\ f.kind = why
  BY <1>1, <1>2 DEF Received
<1>4. out \in Seq(FrameRecord) /\ f = out[1] /\ f \in FrameRecord /\ Listens(st)
  BY <1>0, <1>2, <1>3, NextFrame
<1>5. st.pc = "done" /\ Len(out) = 1
  BY <1>0, <1>1, <1>2, <1>3, <1>4, NextFrame DEF Errors
<1>6. call.quiet => why = "changed" /\ ~call.restarted
  <2>1. Finished(out) /\ Len(out) - 1 = 0 /\ 0 + 1 = 1
    BY <1>2, <1>4, <1>5 DEF Listens
  <2> QED BY <1>1, <1>3, <1>4, <2>1 DEF Finished
<1>7. PICK next : next = [call EXCEPT !.pc = "failing", !.why = why, !.stream = "none", !.meta = -1]
  OBVIOUS
<1>8. /\ next \in CallRecord /\ next.pc = "failing" /\ next.why = why /\ next.stream = "none"
      /\ next.rev = call.rev /\ next.since = call.since /\ next.quiet = call.quiet /\ next.attempt = call.attempt
      /\ next.restarted = call.restarted /\ next.offset = call.offset
  BY <1>0, <1>1, <1>7 DEF CallRecord
<1>9. \/ call' = next /\ UNCHANGED <<saved, part, troubles>>
      \/ Checkpoint(next)
      \/ CheckpointFails
  BY <1>1, <1>7 DEF Broken
<1>10. CASE call' = next /\ UNCHANGED <<saved, part, troubles>>
  <2>1. StreamSide'
    BY <1>0, <1>8, <1>10, Hangs
  <2>2. /\ saved \in SavedRecord /\ saved.rev = call.rev /\ saved.rev <= Revision /\ saved # NoState
        /\ saved.offset = call.offset /\ part \in PartRecord /\ part.exists /\ troubles \in 0..MaxTroubles
    BY <1>0 DEF ClientSide, Holding
  <2>3. Files'
    BY <1>0, <1>10 DEF ClientSide, Files
  <2>4. ClientSide'
    BY <1>0, <1>6, <1>8, <1>10, <2>2, <2>3, FailingSide
  <2> QED BY <1>0, <2>1, <2>4, Sides
<1>11. CASE Checkpoint(next)
  <2>1. PICK held : held = Accepted /\ held \in Nat
    BY <1>0
  <2>2. call' = [next EXCEPT !.offset = held, !.durable = held]
    BY <1>11, <2>1 DEF Checkpoint
  <2>3. /\ call' \in CallRecord /\ call'.pc = "failing" /\ call'.why = why /\ call'.stream = "none"
        /\ call'.rev = call.rev /\ call'.since = call.since /\ call'.quiet = call.quiet /\ call'.attempt = call.attempt
        /\ call'.restarted = call.restarted /\ call'.offset = held
    BY <1>8, <2>1, <2>2 DEF CallRecord
  <2>4. /\ part' = [part EXCEPT !.synced = Accepted] /\ saved' = [saved EXCEPT !.offset = Accepted]
        /\ UNCHANGED troubles
    BY <1>11 DEF Checkpoint
  <2>5. /\ saved' \in SavedRecord /\ saved'.rev <= Revision' /\ saved'.offset = Accepted
        /\ saved' # NoState /\ part' \in PartRecord /\ part'.exists /\ saved'.rev = call.rev /\ Files'
    BY <1>0, <2>4, Checkpointed
  <2>6. StreamSide'
    BY <1>0, <2>3, Hangs
  <2>7. troubles' \in 0..MaxTroubles
    BY <1>0, <2>4 DEF ClientSide
  <2>8. ClientSide'
    BY <1>0, <1>6, <2>1, <2>3, <2>5, <2>7, FailingSide
  <2> QED BY <1>0, <2>6, <2>8, Sides
<1>12. CASE CheckpointFails
  BY <1>0, <1>12, CheckpointFailsStep
<1> QED BY <1>9, <1>10, <1>11, <1>12

LEMMA BreaksStep ==
    ASSUME IInv, ConnectionBreaks
    PROVE  IInv'
PROOF
<1>0. /\ ClientSide /\ StreamSide /\ Revision \in Nat /\ UNCHANGED <<versions, target>> /\ call.pc = "receiving"
      /\ Revision' = Revision /\ Accepted \in Nat /\ stream' = Dropped /\ call \in CallRecord
      /\ part' = [part EXCEPT !.synced = Accepted] /\ saved' = [saved EXCEPT !.offset = Accepted]
  BY Sides DEF ConnectionBreaks, Keeps, ClientSide
<1>1. PICK held : held = Accepted /\ held \in Nat
  BY <1>0
<1>2. call' = [call EXCEPT !.pc = "failing", !.why = "unavailable", !.stream = "none", !.meta = -1,
                           !.offset = held, !.durable = held, !.quiet = FALSE]
  BY <1>1 DEF ConnectionBreaks
<1>3. /\ call' \in CallRecord /\ call'.pc = "failing" /\ call'.stream = "none"
      /\ call'.rev = call.rev /\ call'.since = call.since /\ ~call'.quiet /\ call'.attempt = call.attempt
      /\ call'.restarted = call.restarted /\ call'.offset = held
  BY <1>0, <1>1, <1>2 DEF CallRecord
<1>4. /\ saved' \in SavedRecord /\ saved'.rev <= Revision' /\ saved'.offset = Accepted
      /\ saved' # NoState /\ part' \in PartRecord /\ part'.exists /\ saved'.rev = call.rev /\ Files'
  BY <1>0, Checkpointed
<1>5. StreamSide'
  BY <1>0, <1>3, Hangs
<1>6. troubles' \in 0..MaxTroubles
  BY <1>0, DownloadAssumption DEF ConnectionBreaks, ClientSide
<1>7. ClientSide'
  BY <1>0, <1>1, <1>3, <1>4, <1>6, FailingSide
<1> QED BY <1>0, <1>5, <1>7, Sides

-----------------------------------------------------------------------------
(* The other steps of the client *)

LEMMA ClientFacts ==
    ASSUME IInv, call.pc # "receiving"
    PROVE  /\ ClientSide /\ StreamSide /\ Revision \in Nat /\ Revision > 0 /\ call \in CallRecord
           /\ saved \in SavedRecord /\ part \in PartRecord /\ part.bytes \in Seq(Bytes)
           /\ call.stream = "none" /\ (UNCHANGED versions => Revision' = Revision)
           /\ \A s \in Stream : ~stream[s].up /\ stream[s].out = <<>>
PROOF
<1>1. ClientSide /\ StreamSide /\ Revision \in Nat /\ Revision > 0 /\ part.bytes \in Seq(Bytes)
      /\ (UNCHANGED versions => Revision' = Revision)
  BY Sides
<1> QED BY <1>1 DEF ClientSide, StreamSide, Streams

LEMMA NewFiles ==
    /\ NewState \in SavedRecord /\ NewState.offset = 0 /\ NewState.rev = 0 /\ NewState # NoState
    /\ NoState \in SavedRecord /\ NoState.offset = -1 /\ NoState.rev = 0
    /\ NoPart \in PartRecord /\ ~NoPart.exists /\ NoPart.synced = 0 /\ Len(NoPart.bytes) = 0
    /\ NewPart \in PartRecord /\ NewPart.exists /\ NewPart.synced = 0 /\ Len(NewPart.bytes) = 0
PROOF
<1>1. /\ NewState \in SavedRecord /\ NewState.offset = 0 /\ NewState.rev = 0
      /\ NoState \in SavedRecord /\ NoState.offset = -1 /\ NoState.rev = 0
  BY DEF NewState, NoState, SavedRecord
<1>2. NewState # NoState
  <2>1. 0 # -1
    OBVIOUS
  <2> QED BY <1>1, <2>1, Zenon
<1>3. PICK none, no : none = <<>> /\ no = NoPart
  OBVIOUS
<1>4. none \in Seq(Bytes) /\ Len(none) = 0
  BY <1>3, EmptySeq, Zenon
<1>5. no = [exists |-> FALSE, bytes |-> none, synced |-> 0]
  BY <1>3 DEF NoPart
<1>6. no \in PartRecord /\ ~no.exists /\ no.synced = 0 /\ no.bytes = none
  BY <1>4, <1>5 DEF PartRecord
<1>7. PICK new : new = [no EXCEPT !.exists = TRUE]
  OBVIOUS
<1>8. new \in PartRecord /\ new.exists /\ new.synced = 0 /\ new.bytes = none
  BY <1>6, <1>7 DEF PartRecord
<1>9. NewPart = new
  BY <1>3, <1>7 DEF NewPart
<1> QED BY <1>1, <1>2, <1>3, <1>4, <1>6, <1>8, <1>9

(* What a caller becomes. *)
LEMMA PreparedFacts ==
    ASSUME NEW rec \in CallRecord, NEW pc, NEW caller, caller = [rec EXCEPT !.pc = pc],
           NEW state \in SavedRecord, state.offset \in Nat
    PROVE  /\ Prepared(caller, state) \in CallRecord /\ Prepared(caller, state).pc = "prepared"
           /\ Prepared(caller, state).offset = state.offset /\ Prepared(caller, state).rev = state.rev
           /\ Prepared(caller, state).attempt = rec.attempt /\ Prepared(caller, state).restarted = rec.restarted
           /\ Prepared(caller, state).quiet = rec.quiet /\ Prepared(caller, state).since = rec.since
           /\ Prepared(caller, state).stream = rec.stream
PROOF
<1>1. PICK offset, rev : offset = state.offset /\ rev = state.rev
  OBVIOUS
<1>2. offset \in Nat /\ rev \in Nat
  BY <1>1 DEF SavedRecord
<1>3. PICK next : next = [rec EXCEPT !.pc = "prepared", !.why = "none", !.durable = 0, !.offset = offset, !.rev = rev]
  OBVIOUS
<1>4. /\ next \in CallRecord /\ next.pc = "prepared" /\ next.offset = offset /\ next.rev = rev
      /\ next.attempt = rec.attempt /\ next.restarted = rec.restarted /\ next.quiet = rec.quiet
      /\ next.since = rec.since /\ next.stream = rec.stream
  BY <1>2, <1>3 DEF CallRecord
<1>5. Prepared(caller, state) = next
  <2>1. Prepared(caller, state)
          = [caller EXCEPT !.pc = "prepared", !.why = "none", !.durable = 0, !.offset = offset, !.rev = rev]
    BY <1>1 DEF Prepared
  <2> QED BY <1>3, <2>1 DEF CallRecord
<1> QED BY <1>1, <1>4, <1>5

LEMMA PreparedSide ==
    ASSUME IInv, UNCHANGED <<versions, target, troubles>>,
           call' \in CallRecord, call'.pc = "prepared", call'.since \in 1..Revision, call'.attempt <= MaxAttempts,
           call'.quiet => call'.since = Revision /\ IF call'.restarted THEN call'.attempt = 1 ELSE call'.attempt = 0,
           call'.quiet /\ call'.restarted => call'.offset = 0,
           saved' \in SavedRecord, saved'.rev <= Revision, saved' # NoState, part' \in PartRecord, part'.exists,
           call'.offset = saved'.offset, call'.rev = saved'.rev, Files'
    PROVE  ClientSide'
PROOF
<1>1. ClientSide /\ Revision' = Revision
  BY Sides
<1>2. Holding' /\ Quiet'
  BY <1>1 DEF Holding, Quiet
<1> QED BY <1>1, <1>2 DEF ClientSide

LEMMA PrepareNewStep ==
    ASSUME IInv, call.pc # "receiving", UNCHANGED <<versions, stream, target>>,
           NEW rec \in CallRecord, NEW pc, NEW caller, caller = [rec EXCEPT !.pc = pc], PrepareNew(caller),
           rec.stream = "none", rec.since \in 1..Revision, rec.attempt <= MaxAttempts,
           rec.quiet => rec.since = Revision /\ IF rec.restarted THEN rec.attempt = 1 ELSE rec.attempt = 0
    PROVE  IInv'
PROOF
<1>0. ClientSide /\ Revision' = Revision
  BY ClientFacts
<1>1. CASE /\ saved' = NewState /\ part' = NewPart
           /\ call' = Prepared(caller, NewState)
           /\ UNCHANGED troubles
  <2>1. /\ call' \in CallRecord /\ call'.pc = "prepared" /\ call'.offset = 0 /\ call'.rev = 0
        /\ call'.attempt = rec.attempt /\ call'.restarted = rec.restarted
        /\ call'.quiet = rec.quiet /\ call'.since = rec.since /\ call'.stream = rec.stream
    <3>1. PICK next, state : next = Prepared(caller, state) /\ state = NewState
      OBVIOUS
    <3>2. state \in SavedRecord /\ state.offset \in Nat
      BY <3>1, NewFiles
    <3>3. /\ next \in CallRecord /\ next.pc = "prepared" /\ next.offset = state.offset /\ next.rev = state.rev
          /\ next.attempt = rec.attempt /\ next.restarted = rec.restarted
          /\ next.quiet = rec.quiet /\ next.since = rec.since /\ next.stream = rec.stream
      <4>1. caller = [rec EXCEPT !.pc = pc] /\ rec \in CallRecord
        OBVIOUS
      <4> QED BY <3>1, <3>2, <4>1, PreparedFacts
    <3> QED BY <1>1, <3>1, <3>3, NewFiles
  <2>2. /\ saved' \in SavedRecord /\ saved'.offset = 0 /\ saved'.rev = 0 /\ saved' # NoState
        /\ part' \in PartRecord /\ part'.exists /\ part'.synced = 0 /\ Len(part'.bytes) = 0
    BY <1>1, NewFiles
  <2>3. Files'
    BY <2>2 DEF Files
  <2>4. saved'.rev <= Revision
    BY <2>2, Sides
  <2>5. ClientSide'
    BY <1>1, <2>1, <2>2, <2>3, <2>4, PreparedSide
  <2>6. StreamSide'
    BY <2>1, StreamsStill
  <2> QED BY <2>5, <2>6, Sides
<1>2. CASE /\ saved' = NoState /\ part' = NoPart
           /\ Trouble([caller EXCEPT !.pc = "ended"])
  <2>1. PICK next : next = [rec EXCEPT !.pc = "ended"]
    OBVIOUS
  <2>2. next \in CallRecord /\ next.pc = "ended" /\ next.attempt = rec.attempt /\ next.stream = "none"
    BY <2>1 DEF CallRecord
  <2>3. [caller EXCEPT !.pc = "ended"] = next
    BY <2>1 DEF CallRecord
  <2>4. /\ call' \in CallRecord /\ call'.pc = "ended" /\ ~call'.quiet /\ call'.attempt = rec.attempt
        /\ call'.stream = "none" /\ troubles' \in 0..MaxTroubles
    BY <1>2, <2>2, <2>3, Troubled
  <2>5. /\ saved' \in SavedRecord /\ saved' = NoState /\ saved'.rev = 0
        /\ part' \in PartRecord /\ ~part'.exists /\ part'.synced = 0 /\ Len(part'.bytes) = 0
    BY <1>2, NewFiles
  <2>6. Files'
    BY <2>5 DEF Files
  <2>7. Holding' /\ Quiet'
    BY <2>4 DEF Holding, Quiet
  <2>8. saved'.rev <= Revision'
    BY <1>0, <2>5, Sides
  <2>9. ClientSide'
    BY <1>0, <2>4, <2>5, <2>6, <2>7, <2>8 DEF ClientSide
  <2>10. StreamSide'
    BY <2>4, StreamsStill
  <2> QED BY <2>9, <2>10, Sides
<1> QED BY <1>1, <1>2 DEF PrepareNew

LEMMA DownloadStep ==
    ASSUME IInv, DownloadFile
    PROVE  IInv'
PROOF
<1>0. /\ call.pc = "idle" /\ UNCHANGED <<versions, stream, target>>
      /\ ClientSide /\ Revision \in Nat /\ Revision > 0 /\ Revision' = Revision
  BY ClientFacts DEF DownloadFile, Calling, Keeps
<1>1. PICK idle, rev : idle = Idle /\ rev = Revision
  OBVIOUS
<1>2. /\ idle \in CallRecord /\ idle.attempt = 0 /\ idle.stream = "none" /\ ~idle.restarted /\ idle.quiet
  BY <1>1 DEF Idle, CallRecord
<1>3. PICK rec : rec = [idle EXCEPT !.since = rev]
  OBVIOUS
<1>4. rec \in CallRecord /\ rec.attempt = 0 /\ rec.stream = "none" /\ ~rec.restarted /\ rec.quiet /\ rec.since = rev
  BY <1>0, <1>1, <1>2, <1>3 DEF CallRecord
<1>5. PICK caller : caller = [rec EXCEPT !.pc = "called"]
  OBVIOUS
<1>6. [Idle EXCEPT !.pc = "called", !.since = Revision] = caller
  BY <1>1, <1>2, <1>3, <1>5 DEF CallRecord
<1>7. CASE saved = NoState \/ ~part.exists
  <2>1. PrepareNew(caller)
    BY <1>6, <1>7 DEF DownloadFile
  <2>2. rec.since \in 1..Revision /\ rec.attempt <= MaxAttempts
    BY <1>0, <1>1, <1>4, DownloadAssumption
  <2> QED BY <1>0, <1>1, <1>4, <1>5, <2>1, <2>2, PrepareNewStep
<1>8. CASE ~(saved = NoState \/ ~part.exists)
  <2>1. saved.offset \in Nat /\ saved.offset <= part.synced /\ (saved.offset > 0 => saved.rev > 0)
        /\ part.synced <= Len(part.bytes) /\ saved \in SavedRecord /\ part \in PartRecord /\ part.exists
        /\ saved # NoState /\ part.synced \in Nat /\ Len(part.bytes) \in Nat /\ saved.rev <= Revision
    BY <1>0, <1>8, Sides DEF ClientSide, Files, PartRecord, Accepted
  <2>2. ~Inconsistent
    BY <2>1 DEF Inconsistent
  <2>3. call' = Prepared(caller, saved) /\ UNCHANGED <<saved, part, troubles>>
    BY <1>6, <1>8, <2>2 DEF DownloadFile
  <2>4. /\ call' \in CallRecord /\ call'.pc = "prepared" /\ call'.offset = saved.offset /\ call'.rev = saved.rev
        /\ call'.attempt = 0 /\ ~call'.restarted /\ call'.since = rev /\ call'.stream = "none"
    <3>1. PICK next, state : next = Prepared(caller, state) /\ state = saved
      OBVIOUS
    <3>2. state \in SavedRecord /\ state.offset \in Nat
      BY <2>1, <3>1
    <3>3. /\ next \in CallRecord /\ next.pc = "prepared" /\ next.offset = state.offset /\ next.rev = state.rev
          /\ next.attempt = rec.attempt /\ next.restarted = rec.restarted
          /\ next.quiet = rec.quiet /\ next.since = rec.since /\ next.stream = rec.stream
      <4>1. caller = [rec EXCEPT !.pc = "called"] /\ rec \in CallRecord
        BY <1>4, <1>5
      <4> QED BY <3>1, <3>2, <4>1, PreparedFacts
    <3> QED BY <1>4, <2>3, <3>1, <3>3
  <2>5. Files'
    BY <1>0, <2>3 DEF ClientSide, Files
  <2>6. call'.since \in 1..Revision /\ call'.attempt <= MaxAttempts /\ call'.since = Revision
    BY <1>0, <1>1, <2>4, DownloadAssumption
  <2>7. ClientSide'
    BY <1>0, <2>1, <2>3, <2>4, <2>5, <2>6, PreparedSide
  <2>8. StreamSide'
    BY <1>0, <2>4, StreamsStill
  <2> QED BY <1>0, <2>7, <2>8, Sides
<1> QED BY <1>7, <1>8

LEMMA AttemptStep ==
    ASSUME IInv, NEW s \in Stream, Attempt(s)
    PROVE  IInv'
PROOF
<1>0. /\ call.pc = "prepared" /\ call.attempt < MaxAttempts /\ stream[s].pc = "free"
      /\ UNCHANGED <<saved, troubles, versions, target>>
      /\ ClientSide /\ StreamSide /\ Revision \in Nat /\ Revision' = Revision /\ call \in CallRecord
      /\ part \in PartRecord /\ part.bytes \in Seq(Bytes)
      /\ \A v \in Stream : ~stream[v].up /\ stream[v].out = <<>>
  BY ClientFacts DEF Attempt, Keeps
<1>1. /\ saved # NoState /\ part.exists /\ call.offset = saved.offset /\ call.rev = saved.rev
      /\ call.since \in 1..Revision /\ saved.offset \in Nat /\ saved.offset <= part.synced
      /\ (saved.offset > 0 => saved.rev > 0) /\ part.synced <= Len(part.bytes) /\ part.synced \in Nat
      /\ saved.rev <= Revision /\ saved.rev \in Nat /\ saved \in SavedRecord
  BY <1>0 DEF ClientSide, Holding, Files, PartRecord, SavedRecord
<1>2. PICK at, held, rev : at = call.offset /\ held = First(at, part.bytes) /\ rev = IF at > 0 THEN call.rev ELSE 0
  OBVIOUS
<1>3. at \in Nat /\ at \in 0..Len(part.bytes) /\ rev \in Nat /\ rev <= Revision
  <2>1. Len(part.bytes) \in Nat
    BY <1>0, LenProperties
  <2> QED BY <1>0, <1>1, <1>2, <2>1
<1>4. held \in Seq(Bytes) /\ Len(held) = at
  BY <1>0, <1>2, <1>3, FirstFacts
<1>5. part' = [part EXCEPT !.bytes = held, !.synced = at]
  BY <1>2 DEF Attempt
<1>6. part' \in PartRecord /\ part'.bytes = held /\ part'.synced = at /\ part'.exists
  BY <1>0, <1>1, <1>3, <1>4, <1>5 DEF PartRecord
<1>7. call' = [call EXCEPT !.pc = "receiving", !.stream = s, !.meta = -1, !.durable = at]
  BY <1>2 DEF Attempt
<1>8. /\ call' \in CallRecord /\ call'.pc = "receiving" /\ call'.stream = s /\ call'.meta = -1 /\ call'.durable = at
      /\ call'.offset = at /\ call'.rev = call.rev /\ call'.since = call.since /\ call'.attempt = call.attempt
      /\ call'.quiet = call.quiet /\ call'.restarted = call.restarted
  BY <1>0, <1>2, <1>3, <1>7 DEF CallRecord
<1>9. PICK free : free = Free
  OBVIOUS
<1>10. free \in StreamRecord /\ free.out = <<>> /\ free.began = 0 /\ free.stamp = 0
  BY <1>9, Frees
<1>11. PICK new : new = [free EXCEPT !.pc = "queued", !.up = TRUE, !.at = at, !.prefix = held, !.rev = rev]
  OBVIOUS
<1>12. /\ new \in StreamRecord /\ new.pc = "queued" /\ new.up /\ new.at = at /\ new.prefix = held /\ new.rev = rev
       /\ new.out = <<>> /\ new.began = 0 /\ new.stamp = 0
  BY <1>3, <1>4, <1>10, <1>11 DEF StreamRecord
<1>13. stream' = [stream EXCEPT ![s] = new]
  BY <1>2, <1>9, <1>11 DEF Attempt
<1>14. /\ \A v \in Stream \ {s} : stream'[v] = stream[v]
       /\ stream'[s] = new /\ stream' \in [Stream -> StreamRecord]
  BY <1>0, <1>12, <1>13 DEF StreamSide
<1>15. StreamSide'
  <2>1. \A v \in Stream : /\ stream'[v].rev <= Revision' /\ stream'[v].began <= Revision'
                          /\ stream'[v].stamp <= Revision' /\ Len(stream'[v].out) <= Window + 1
    <3>1. Len(new.out) <= Window + 1 /\ new.rev <= Revision /\ new.began <= Revision /\ new.stamp <= Revision
      <4>1. Len(new.out) = 0
        BY <1>12
      <4> QED BY <1>0, <1>3, <1>12, <4>1, DownloadAssumption
    <3> QED BY <1>0, <1>14, <3>1 DEF StreamSide
  <2>2. SlotsKept'
    <3>1. Serving' \subseteq Serving
      BY <1>12, <1>14 DEF Serving
    <3> QED BY <3>1, SlotsStay DEF IInv
  <2>3. Streams'
    BY <1>0, <1>8, <1>12, <1>14 DEF Streams
  <2>4. Listens(new)'
    <3>1. Accepted' = at
      BY <1>4, <1>6 DEF Accepted
    <3>2. call.quiet /\ call.restarted => at = 0
      BY <1>0, <1>2 DEF ClientSide, Quiet
    <3>3. Before(new)'
      BY <1>2, <1>6, <1>8, <1>12, <3>1, <3>2 DEF Before
    <3> QED BY <1>8, <1>12, <3>1, <3>3 DEF Listens
  <2>5. Talks'
    BY <1>8, <1>14, <2>4 DEF Talks
  <2> QED BY <1>14, <2>1, <2>2, <2>3, <2>5 DEF StreamSide
<1>16. Files'
  <2>1. part'.synced <= Len(part'.bytes)
    BY <1>3, <1>4, <1>6
  <2>2. saved'.offset \in Nat /\ saved'.offset <= part'.synced /\ (saved'.offset > 0 => saved'.rev > 0)
    BY <1>0, <1>1, <1>2, <1>3, <1>6
  <2>3. saved'.rev > 0 => saved'.offset <= Len(versions'[saved'.rev])
    BY <1>0 DEF ClientSide, Files
  <2> QED BY <2>1, <2>2, <2>3 DEF Files
<1>17. Holding'
  BY <1>0, <1>1, <1>2, <1>6, <1>8 DEF Holding
<1>18. Quiet'
  BY <1>0, <1>8 DEF ClientSide, Quiet
<1>19. ClientSide'
  BY <1>0, <1>6, <1>8, <1>16, <1>17, <1>18 DEF ClientSide
<1> QED BY <1>0, <1>15, <1>19, Sides

LEMMA StartOverStep ==
    ASSUME IInv, StartOver
    PROVE  IInv'
PROOF
<1>0. /\ call.pc = "failing" /\ ~call.restarted /\ UNCHANGED <<versions, stream, target>>
      /\ ClientSide /\ call \in CallRecord /\ call.stream = "none" /\ Revision \in Nat
      /\ PrepareNew([call EXCEPT !.restarted = TRUE, !.attempt = @ + 1])
  BY ClientFacts DEF StartOver, Keeps
<1>1. PICK more : more = call.attempt + 1
  OBVIOUS
<1>2. /\ more \in Nat /\ more <= MaxAttempts /\ call.since \in 1..Revision
      /\ call.quiet => call.since = Revision /\ more = 1
  <2>1. call.attempt \in Nat /\ call.attempt < MaxAttempts /\ call.since \in 1..Revision
    BY <1>0 DEF ClientSide, Holding, CallRecord
  <2>2. call.quiet => call.since = Revision /\ call.attempt = 0
    BY <1>0 DEF ClientSide, Quiet
  <2> QED BY <1>1, <2>1, <2>2, DownloadAssumption
<1>3. PICK rec : rec = [call EXCEPT !.restarted = TRUE, !.attempt = more]
  OBVIOUS
<1>4. /\ rec \in CallRecord /\ rec.pc = "failing" /\ rec.restarted /\ rec.attempt = more /\ rec.stream = "none"
      /\ rec.quiet = call.quiet /\ rec.since = call.since
  BY <1>0, <1>2, <1>3 DEF CallRecord
<1>5. PrepareNew(rec)
  <2>1. [call EXCEPT !.restarted = TRUE, !.attempt = @ + 1] = rec
    BY <1>0, <1>1, <1>3 DEF CallRecord
  <2> QED BY <1>0, <2>1
<1>6. PICK pc : pc = "failing"
  OBVIOUS
<1>7. rec = [rec EXCEPT !.pc = pc]
  BY <1>4, <1>6 DEF CallRecord
<1>8. rec.quiet => rec.since = Revision /\ IF rec.restarted THEN rec.attempt = 1 ELSE rec.attempt = 0
  BY <1>2, <1>4
<1>9. rec.since \in 1..Revision /\ rec.attempt <= MaxAttempts /\ call.pc # "receiving"
  BY <1>0, <1>2, <1>4
<1> QED BY <1>0, <1>4, <1>5, <1>7, <1>8, <1>9, PrepareNewStep

LEMMA TryAgainStep ==
    ASSUME IInv, TryAgain
    PROVE  IInv'
PROOF
<1>0. /\ call.pc = "failing" /\ (Revised => call.restarted) /\ call.why \in {"aborted", "unavailable"}
      /\ UNCHANGED <<versions, stream, target, saved, part, troubles>>
      /\ ClientSide /\ call \in CallRecord /\ call.stream = "none" /\ Revision \in Nat
      /\ saved \in SavedRecord /\ part \in PartRecord
      /\ call' = [Prepared(call, saved) EXCEPT !.attempt = @ + 1]
  BY ClientFacts DEF TryAgain, Keeps
<1>1. ~call.quiet
  BY <1>0 DEF ClientSide, Quiet
<1>2. /\ saved.offset \in Nat /\ saved # NoState /\ part.exists /\ call.since \in 1..Revision
      /\ call.attempt \in Nat /\ call.attempt < MaxAttempts /\ saved.rev <= Revision
  BY <1>0 DEF ClientSide, Files, Holding, CallRecord
<1>3. PICK next, state, pc : next = Prepared(call, state) /\ state = saved /\ pc = "failing"
  OBVIOUS
<1>4. /\ next \in CallRecord /\ next.pc = "prepared" /\ next.offset = state.offset /\ next.rev = state.rev
      /\ next.attempt = call.attempt /\ next.quiet = call.quiet /\ next.since = call.since /\ next.stream = call.stream
  <2>1. state \in SavedRecord /\ state.offset \in Nat
    BY <1>0, <1>2, <1>3
  <2>2. PICK rec : rec = call
    OBVIOUS
  <2>3. rec = [rec EXCEPT !.pc = pc] /\ rec \in CallRecord
    BY <1>0, <1>3, <2>2 DEF CallRecord
  <2>4. next = Prepared(rec, state)
    BY <1>3, <2>2
  <2>5. /\ Prepared(rec, state) \in CallRecord /\ Prepared(rec, state).pc = "prepared"
        /\ Prepared(rec, state).offset = state.offset /\ Prepared(rec, state).rev = state.rev
        /\ Prepared(rec, state).attempt = rec.attempt /\ Prepared(rec, state).quiet = rec.quiet
        /\ Prepared(rec, state).since = rec.since /\ Prepared(rec, state).stream = rec.stream
    BY <2>1, <2>3, PreparedFacts
  <2> QED BY <2>2, <2>4, <2>5
<1>5. PICK more : more = call.attempt + 1
  OBVIOUS
<1>6. more \in Nat /\ more <= MaxAttempts
  BY <1>2, <1>5, DownloadAssumption
<1>7. call' = [next EXCEPT !.attempt = more]
  BY <1>0, <1>3, <1>4, <1>5
<1>8. /\ call' \in CallRecord /\ call'.pc = "prepared" /\ call'.offset = state.offset /\ call'.rev = state.rev
      /\ call'.attempt = more /\ call'.quiet = call.quiet /\ call'.since = call.since /\ call'.stream = call.stream
  BY <1>4, <1>6, <1>7 DEF CallRecord
<1>9. Files'
  BY <1>0 DEF ClientSide, Files
<1>10. ClientSide'
  BY <1>0, <1>1, <1>2, <1>3, <1>6, <1>8, <1>9, PreparedSide
<1>11. StreamSide'
  BY <1>0, <1>8, StreamsStill
<1> QED BY <1>0, <1>10, <1>11, Sides

(* A call that ends without a trouble. *)
LEMMA EndedStep ==
    ASSUME IInv, call.pc # "receiving", NEW ok \in BOOLEAN, call' = Ends(ok), ok \/ ~call.quiet,
           UNCHANGED <<versions, stream, saved, part, target, troubles>>
    PROVE  IInv'
PROOF
<1>1. PICK ended : ended = Ends(ok)
  OBVIOUS
<1>2. /\ ended \in CallRecord /\ ended.pc = "ended" /\ ended.ok = ok
      /\ ended.quiet = call.quiet /\ ended.attempt = 0 /\ ended.stream = "none"
  BY <1>1, EndsFacts
<1>3. troubles' \in 0..MaxTroubles
  BY Sides DEF ClientSide
<1>4. ClientSide'
  BY <1>1, <1>2, <1>3, EndedSide
<1>5. StreamSide'
  BY <1>1, <1>2, StreamsStill
<1> QED BY <1>4, <1>5, Sides

LEMMA GiveUpStep ==
    ASSUME IInv, GiveUp
    PROVE  IInv'
PROOF
<1>0. ClientSide /\ call' = Ends(FALSE) /\ UNCHANGED <<versions, stream, saved, part, target, troubles>>
  BY Sides DEF GiveUp, Keeps
<1>1. CASE /\ call.pc = "failing" /\ (Revised => call.restarted)
           /\ call.why \notin {"aborted", "unavailable"}
  <2>1. ~call.quiet
    BY <1>0, <1>1 DEF ClientSide, Quiet, Revised
  <2> QED BY <1>0, <1>1, <2>1, EndedStep
<1>2. CASE call.pc = "prepared" /\ call.attempt = MaxAttempts
  <2>1. ~call.quiet
    BY <1>0, <1>2, DownloadAssumption DEF ClientSide, Quiet
  <2> QED BY <1>0, <1>2, <2>1, EndedStep
<1> QED BY <1>1, <1>2 DEF GiveUp

LEMMA PublishStep ==
    ASSUME IInv, Publish
    PROVE  IInv'
PROOF
<1>0. /\ call.pc = "verified" /\ UNCHANGED <<versions, stream, saved>> /\ ClientSide /\ call \in CallRecord
      /\ call.stream = "none" /\ Revision \in Nat /\ Revision' = Revision
  BY ClientFacts DEF Publish
<1>1. CASE /\ target' = part.bytes /\ part' = NoPart
           /\ call' = [call EXCEPT !.pc = "published"]
           /\ UNCHANGED troubles
  <2>1. /\ call' \in CallRecord /\ call'.pc = "published" /\ call'.since = call.since /\ call'.stream = "none"
        /\ call'.attempt = call.attempt /\ call'.quiet = call.quiet
    BY <1>0, <1>1 DEF CallRecord
  <2>2. part' \in PartRecord /\ ~part'.exists /\ part'.synced = 0 /\ Len(part'.bytes) = 0
    BY <1>1, NewFiles
  <2>3. Files'
    <3>1. saved' = saved /\ part'.synced <= Len(part'.bytes)
      BY <1>0, <2>2
    <3>2. saved.rev > 0 => saved.offset <= Len(versions'[saved.rev])
      BY <1>0 DEF ClientSide, Files
    <3> QED BY <1>0, <2>2, <3>1, <3>2 DEF ClientSide, Files
  <2>4. call.since \in 1..Revision /\ \E v \in call.since..Revision : part.bytes = versions[v]
    BY <1>0 DEF ClientSide, Holding
  <2>5. Holding'
    BY <1>0, <1>1, <2>1, <2>2, <2>4 DEF Holding
  <2>6. Quiet'
    BY <1>0, <2>1 DEF ClientSide, Quiet
  <2>7. target' \in Seq(Bytes \cup {"old"})
    <3>1. PICK v \in call.since..Revision : target' = versions[v]
      BY <1>1, <2>4
    <3>2. part.bytes \in Seq(Bytes)
      BY Sides
    <3>3. Len(part.bytes) \in Nat /\ part.bytes = [i \in 1..Len(part.bytes) |-> part.bytes[i]]
          /\ \A i \in 1..Len(part.bytes) : part.bytes[i] \in Bytes
      BY <3>2
    <3>4. \A i \in 1..Len(part.bytes) : part.bytes[i] \in Bytes \cup {"old"}
      BY <3>3
    <3>5. part.bytes \in [1..Len(part.bytes) -> Bytes \cup {"old"}]
      BY <3>3, <3>4
    <3> QED BY <1>1, <3>3, <3>5, SeqDef
  <2>8. ClientSide'
    BY <1>0, <1>1, <2>1, <2>2, <2>3, <2>5, <2>6, <2>7 DEF ClientSide
  <2>9. StreamSide'
    BY <1>0, <2>1, StreamsStill
  <2> QED BY <1>0, <2>8, <2>9, Sides
<1>2. CASE Trouble(Ends(FALSE)) /\ UNCHANGED <<target, part>>
  <2>1. /\ call' \in CallRecord /\ call'.pc = "ended" /\ ~call'.quiet /\ call'.attempt = 0
        /\ call'.stream = "none" /\ troubles' \in 0..MaxTroubles
    BY <1>2, FailedCall
  <2>2. ClientSide'
    BY <1>0, <1>2, <2>1, EndedSide
  <2>3. StreamSide'
    BY <1>0, <2>1, StreamsStill
  <2> QED BY <1>0, <2>2, <2>3, Sides
<1> QED BY <1>1, <1>2 DEF Publish

LEMMA RemoveStateStep ==
    ASSUME IInv, RemoveState
    PROVE  IInv'
PROOF
<1>0. /\ call.pc = "published" /\ UNCHANGED <<versions, stream, part, target>> /\ ClientSide
      /\ Revision \in Nat /\ Revision' = Revision
  BY ClientFacts DEF RemoveState, Keeps
<1>1. CASE saved' = NoState /\ call' = Ends(TRUE) /\ UNCHANGED troubles
  <2>1. PICK ended : ended = Ends(TRUE)
    OBVIOUS
  <2>2. ended \in CallRecord /\ ended.pc = "ended" /\ ended.ok /\ ended.attempt = 0 /\ ended.stream = "none"
    BY <2>1, EndsFacts
  <2>3. saved' \in SavedRecord /\ saved' = NoState /\ saved'.rev = 0 /\ saved'.rev <= Revision'
    BY <1>0, <1>1, NewFiles
  <2>4. Files'
    BY <1>0, <2>3 DEF ClientSide, Files
  <2>5. call' = ended
    BY <1>1, <2>1
  <2>6. Holding' /\ Quiet'
    BY <2>2, <2>5 DEF Holding, Quiet
  <2>7. ClientSide'
    <3>1. call' \in CallRecord /\ call'.attempt = 0 /\ 0 <= MaxAttempts
      BY <2>2, <2>5, DownloadAssumption
    <3>2. call'.attempt <= MaxAttempts
      BY <3>1
    <3>3. part' \in PartRecord /\ target' \in Seq(Bytes \cup {"old"}) /\ troubles' \in 0..MaxTroubles
      BY <1>0, <1>1 DEF ClientSide
    <3> QED BY <2>3, <2>4, <2>6, <3>1, <3>2, <3>3 DEF ClientSide
  <2>8. StreamSide'
    BY <1>0, <2>2, <2>5, StreamsStill
  <2> QED BY <1>0, <2>7, <2>8, Sides
<1>2. CASE Trouble(Ends(FALSE)) /\ UNCHANGED saved
  <2>1. /\ call' \in CallRecord /\ call'.pc = "ended" /\ ~call'.quiet /\ call'.attempt = 0
        /\ call'.stream = "none" /\ troubles' \in 0..MaxTroubles
    BY <1>2, FailedCall
  <2>2. ClientSide'
    BY <1>0, <1>2, <2>1, EndedSide
  <2>3. StreamSide'
    BY <1>0, <2>1, StreamsStill
  <2> QED BY <1>0, <2>2, <2>3, Sides
<1> QED BY <1>1, <1>2 DEF RemoveState

LEMMA IdleFacts == Idle \in CallRecord /\ Idle.pc = "idle" /\ Idle.attempt = 0 /\ Idle.stream = "none"
  BY DEF Idle, CallRecord

LEMMA ReturnStep ==
    ASSUME IInv, Return
    PROVE  IInv'
PROOF
<1>0. call.pc = "ended" /\ UNCHANGED <<versions, stream, saved, part, target, troubles>> /\ ClientSide
      /\ Revision' = Revision
  BY ClientFacts DEF Return, Keeps
<1>1. call' \in CallRecord /\ call'.pc = "idle" /\ call'.attempt = 0 /\ call'.stream = "none"
  BY IdleFacts DEF Return
<1>2. Files'
  BY <1>0 DEF ClientSide, Files
<1>3. Holding' /\ Quiet'
  BY <1>1 DEF Holding, Quiet
<1>4. ClientSide'
  BY <1>0, <1>1, <1>2, <1>3, DownloadAssumption DEF ClientSide
<1>5. StreamSide'
  BY <1>0, <1>1, StreamsStill
<1> QED BY <1>0, <1>4, <1>5, Sides

LEMMA DiesStep ==
    ASSUME IInv, ClientDies
    PROVE  IInv'
PROOF
<1>0. /\ UNCHANGED <<versions, saved, target>> /\ ClientSide /\ StreamSide /\ Revision' = Revision
      /\ part \in PartRecord /\ part.bytes \in Seq(Bytes) /\ Accepted \in Nat
  BY Sides DEF ClientDies, Keeps, ClientSide
<1>1. call' \in CallRecord /\ call'.pc = "idle" /\ call'.attempt = 0 /\ call'.stream = "none"
  BY IdleFacts DEF ClientDies
<1>2. PICK n \in part.synced..Len(part.bytes) :
            part' = [part EXCEPT !.bytes = First(n, @), !.synced = n]
  BY DEF ClientDies
<1>3. PICK left : left = First(n, part.bytes)
  OBVIOUS
<1>4. n \in Nat /\ n \in 0..Len(part.bytes) /\ part.synced <= n /\ part.synced \in Nat
  <2>1. part.synced \in Nat /\ Len(part.bytes) \in Nat
    BY <1>0 DEF PartRecord, Accepted
  <2> QED BY <2>1
<1>5. left \in Seq(Bytes) /\ Len(left) = n
  BY <1>0, <1>3, <1>4, FirstFacts
<1>6. part' \in PartRecord /\ part'.bytes = left /\ part'.synced = n /\ part'.exists = part.exists
  <2>1. part' = [part EXCEPT !.bytes = left, !.synced = n]
    BY <1>0, <1>2, <1>3 DEF PartRecord
  <2> QED BY <1>0, <1>4, <1>5, <2>1 DEF PartRecord
<1>7. Files'
  <2>1. part'.synced <= Len(part'.bytes)
    BY <1>4, <1>5, <1>6
  <2>2. saved # NoState /\ part.exists =>
          saved.offset \in Nat /\ saved.offset <= n /\ (saved.offset > 0 => saved.rev > 0)
    BY <1>0, <1>4 DEF ClientSide, Files
  <2>3. saved' = saved /\ (saved.rev > 0 => saved.offset <= Len(versions'[saved.rev]))
        /\ (saved # NoState => saved.offset \in Nat)
    BY <1>0 DEF ClientSide, Files
  <2> QED BY <1>6, <2>1, <2>2, <2>3 DEF Files
<1>8. Holding' /\ Quiet'
  BY <1>1 DEF Holding, Quiet
<1>9. troubles' \in 0..MaxTroubles
  BY <1>0, DownloadAssumption DEF ClientDies, ClientSide
<1>10. ClientSide'
  BY <1>0, <1>1, <1>6, <1>7, <1>8, <1>9, DownloadAssumption DEF ClientSide
<1>11. StreamSide'
  <2>1. CASE call.pc = "receiving"
    <3>1. call.stream # "none"
      BY <1>0, <2>1, DownloadAssumption DEF StreamSide, Streams
    <3> QED BY <1>0, <1>1, <2>1, <3>1, Hangs DEF ClientDies
  <2>2. CASE call.pc # "receiving"
    <3>1. call.stream = "none"
      BY <1>0, <2>2 DEF StreamSide, Streams
    <3> QED BY <1>0, <1>1, <2>2, <3>1, StreamsStill DEF ClientDies
  <2> QED BY <2>1, <2>2
<1> QED BY <1>0, <1>10, <1>11, Sides

LEMMA Garbled == "x" \in Bytes
  BY DEF Bytes

LEMMA EditedStep ==
    ASSUME IInv, PartEdited
    PROVE  IInv'
PROOF
<1>0. /\ call.pc = "idle" /\ UNCHANGED <<versions, stream, saved, call, target>> /\ ClientSide /\ Revision' = Revision
      /\ part \in PartRecord /\ part.bytes \in Seq(Bytes) /\ part.bytes # <<>> /\ call.stream = "none"
  BY ClientFacts DEF PartEdited, Keeps, Calling
<1>1. PICK edited : edited = [part.bytes EXCEPT ![1] = "x"]
  OBVIOUS
<1>2. edited \in Seq(Bytes) /\ Len(edited) = Len(part.bytes)
  <2>1. "x" \in Bytes
    BY Garbled
  <2>2. 1 \in 1..Len(part.bytes)
    <3>1. Len(part.bytes) \in Nat /\ Len(part.bytes) # 0
      BY <1>0, EmptySeq
    <3> QED BY <3>1
  <2> QED BY <1>0, <1>1, <2>1, <2>2, ExceptSeq
<1>3. part' = [part EXCEPT !.bytes = edited]
  BY <1>0, <1>1 DEF PartEdited, PartRecord
<1>4. part' \in PartRecord /\ part'.bytes = edited /\ part'.synced = part.synced /\ part'.exists = part.exists
  BY <1>0, <1>2, <1>3 DEF PartRecord
<1>5. Files'
  BY <1>0, <1>2, <1>4 DEF ClientSide, Files
<1>6. Holding' /\ Quiet'
  BY <1>0 DEF Holding, Quiet
<1>7. troubles' \in 0..MaxTroubles
  BY <1>0, DownloadAssumption DEF PartEdited, ClientSide
<1>8. ClientSide'
  BY <1>0, <1>4, <1>5, <1>6, <1>7 DEF ClientSide
<1>9. StreamSide'
  BY <1>0, StreamsStill
<1> QED BY <1>0, <1>8, <1>9, Sides

-----------------------------------------------------------------------------
(* The invariant is inductive and implies what the run checks. *)

LEMMA InitHolds == Init => IInv
PROOF
<1> SUFFICES ASSUME Init PROVE IInv
  OBVIOUS
<1>1. versions \in Seq(Contents) /\ Revision = 1
  <2>1. Original \in Contents /\ versions = <<Original>>
    BY DownloadAssumption DEF Init
  <2> QED BY <2>1 DEF Revision
<1>2. /\ saved = NoState /\ part = NoPart /\ call = Idle /\ troubles = 0
      /\ saved \in SavedRecord /\ saved.rev = 0 /\ part \in PartRecord /\ ~part.exists /\ part.synced = 0
      /\ Len(part.bytes) = 0 /\ call \in CallRecord /\ call.pc = "idle" /\ call.attempt = 0 /\ call.stream = "none"
  BY NewFiles, IdleFacts DEF Init
<1>3. target \in Seq(Bytes \cup {"old"})
  BY DEF Init
<1>4. PICK free : free = Free
  OBVIOUS
<1>5. free \in StreamRecord /\ ~free.up /\ free.out = <<>> /\ free.pc = "free"
      /\ free.rev = 0 /\ free.began = 0 /\ free.stamp = 0
  BY <1>4, Frees
<1>6. stream = [s \in Stream |-> free]
  BY <1>4 DEF Init
<1>7. Types
  <2>1. stream \in [Stream -> StreamRecord]
    BY <1>5, <1>6
  <2>2. \A s \in Stream : /\ stream[s].rev <= Revision /\ stream[s].began <= Revision
                           /\ stream[s].stamp <= Revision /\ Len(stream[s].out) <= Window + 1
    <3>1. Len(free.out) = 0
      BY <1>5
    <3>2. Len(free.out) <= Window + 1 /\ free.rev <= Revision /\ free.began <= Revision /\ free.stamp <= Revision
      BY <1>1, <1>5, <3>1, DownloadAssumption
    <3> QED BY <1>6, <3>2
  <2>3. Revision \in 1..MaxEdits + 1 /\ saved.rev <= Revision /\ call.attempt <= MaxAttempts
        /\ troubles \in 0..MaxTroubles
    BY <1>1, <1>2, DownloadAssumption
  <2> QED BY <1>1, <1>2, <1>3, <2>1, <2>2, <2>3 DEF Types
<1>8. SlotsKept
  <2>1. Serving = {}
    BY <1>5, <1>6 DEF Serving
  <2>2. Cardinality(Serving) = 0
    BY <2>1, FS_EmptySet
  <2> QED BY <2>2, DownloadAssumption DEF SlotsKept
<1>9. Files
  BY <1>2 DEF Files
<1>10. Streams
  BY <1>2, <1>5, <1>6 DEF Streams
<1>11. Holding /\ Quiet /\ Talks
  BY <1>2 DEF Holding, Quiet, Talks
<1> QED BY <1>7, <1>8, <1>9, <1>10, <1>11 DEF IInv

LEMMA NextKeeps == IInv /\ [Next]_vars => IInv'
PROOF
<1> SUFFICES ASSUME IInv, [Next]_vars PROVE IInv'
  OBVIOUS
<1>1. ASSUME NEW s \in Stream, Handler(s) \/ HandlerEnds(s) \/ OpenFails(s) PROVE IInv'
  BY <1>1, AdmitStep, PrefixStep, ChunkStep, SummaryStep, EndsStep, OpenFailsStep DEF Handler
<1>2. ASSUME NEW bytes \in Contents, NEW inPlace \in BOOLEAN, EditSource(bytes, inPlace) PROVE IInv'
  BY <1>2, EditStep
<1>3. CASE DownloadFile
  BY <1>3, DownloadStep
<1>4. CASE Client
  <2>1. ASSUME NEW s \in Stream, Attempt(s) PROVE IInv'
    BY <2>1, AttemptStep
  <2>2. CASE ReceiveMetadata \/ ReceiveChunk \/ ReceiveSummary \/ ReceiveError
    BY <2>2, MetadataStep, ReceivedChunkStep, ReceivedSummaryStep, ReceivedErrorStep
  <2>3. CASE StartOver \/ TryAgain \/ GiveUp \/ Publish \/ RemoveState \/ Return
    BY <2>3, StartOverStep, TryAgainStep, GiveUpStep, PublishStep, RemoveStateStep, ReturnStep
  <2> QED BY <1>4, <2>1, <2>2, <2>3 DEF Client
<1>5. CASE ConnectionBreaks \/ ClientDies \/ PartEdited
  BY <1>5, BreaksStep, DiesStep, EditedStep
<1>6. CASE UNCHANGED vars
  <2>1. UNCHANGED <<versions, stream, saved, part, target, call, troubles>>
    BY <1>6 DEF vars
  <2>2. Revision' = Revision /\ Accepted' = Accepted /\ Waits' = Waits
    BY <2>1 DEF Revision, Accepted, Waits
  <2>3. Types' /\ Files' /\ Streams' /\ Holding' /\ Quiet'
    BY <2>1, <2>2 DEF IInv, Types, Files, Streams, Holding, Quiet
  <2>4. SlotsKept'
    <3>1. Serving' \subseteq Serving
      BY <2>1 DEF Serving
    <3> QED BY <3>1, SlotsStay DEF IInv
  <2>5. Talks'
    <3>1. PICK st : st = stream[call.stream]
      OBVIOUS
    <3>2. call.pc = "receiving" => Listens(st)'
      BY <2>1, <3>1, ListensStill DEF IInv, Talks
    <3> QED BY <2>1, <3>1, <3>2 DEF Talks
  <2> QED BY <2>3, <2>4, <2>5 DEF IInv
<1> QED BY <1>1, <1>2, <1>3, <1>4, <1>5, <1>6 DEF Next

LEMMA SafeHolds == IInv => DownloadsSafe
PROOF
<1> SUFFICES ASSUME IInv PROVE DownloadsSafe
  OBVIOUS
<1>0. ClientSide /\ StreamSide /\ Revision \in Nat /\ versions \in Seq(Contents) /\ Types
  BY Sides DEF IInv
<1>1. TypeOK
  <2>1. ASSUME NEW s \in Stream
        PROVE  /\ stream[s].pc \in {"free", "queued", "prefix", "sending", "done"}
               /\ stream[s].at \in Nat /\ stream[s].rev \in 0..Revision
               /\ stream[s].began \in 0..Revision /\ stream[s].stamp \in 0..Revision
               /\ stream[s].sent \in Seq(Bytes) /\ stream[s].prefix \in Seq(Bytes)
               /\ Len(stream[s].out) <= Window + 1
    <3>1. PICK st \in StreamRecord : st = stream[s]
      BY <1>0 DEF StreamSide
    <3>2. st.rev <= Revision /\ st.began <= Revision /\ st.stamp <= Revision /\ Len(st.out) <= Window + 1
      BY <1>0, <3>1 DEF StreamSide
    <3>3. st.rev \in Nat /\ st.began \in Nat /\ st.stamp \in Nat
      BY <3>1 DEF StreamRecord
    <3>4. st.rev \in 0..Revision /\ st.began \in 0..Revision /\ st.stamp \in 0..Revision
      BY <1>0, <3>2, <3>3
    <3> QED BY <3>1, <3>2, <3>4 DEF StreamRecord
  <2>2. saved \in [offset : Nat \cup {-1}, rev : 0..Revision]
    <3>1. saved \in SavedRecord /\ saved.rev <= Revision
      BY <1>0 DEF ClientSide
    <3>2. saved.rev \in 0..Revision
      BY <1>0, <3>1 DEF SavedRecord
    <3> QED BY <3>1, <3>2 DEF SavedRecord
  <2>3. part \in [exists : BOOLEAN, bytes : Seq(Bytes), synced : Nat] /\ target \in Seq(Bytes \cup {"old"})
        /\ troubles \in 0..MaxTroubles
    BY <1>0 DEF ClientSide, PartRecord
  <2>4. call.pc \in {"idle", "prepared", "receiving", "failing", "verified", "published", "ended"}
        /\ call.attempt \in 0..MaxAttempts
    <3>1. call.attempt \in Nat /\ call.attempt <= MaxAttempts
      BY <1>0 DEF ClientSide, CallRecord
    <3> QED BY <1>0, <3>1, DownloadAssumption DEF ClientSide, CallRecord
  <2>5. Revision <= MaxEdits + 1
    BY <1>0, DownloadAssumption DEF Types
  <2>6. Cardinality(Serving) <= Slots
    BY DEF IInv, SlotsKept
  <2> QED BY <1>0, <2>1, <2>2, <2>3, <2>4, <2>5, <2>6 DEF TypeOK
<1>2. PublishedIsAVersion
  BY <1>0 DEF ClientSide, Holding, PublishedIsAVersion
<1>3. AlwaysResumable
  <2> SUFFICES ASSUME saved # NoState, part.exists PROVE ~Inconsistent
    BY DEF AlwaysResumable
  <2>1. saved.offset \in Nat /\ saved.offset <= part.synced /\ (saved.offset > 0 => saved.rev > 0)
        /\ part.synced <= Len(part.bytes) /\ part.synced \in Nat /\ Len(part.bytes) \in Nat /\ saved.rev \in Nat
    BY <1>0, Sides DEF ClientSide, Files, PartRecord, SavedRecord, Accepted
  <2> QED BY <2>1 DEF Inconsistent
<1>4. QuietCallsSucceed
  BY <1>0 DEF ClientSide, Quiet, QuietCallsSucceed
<1> QED BY <1>1, <1>2, <1>3, <1>4 DEF DownloadsSafe

(* What the invariant is of: every behaviour keeps it. *)
THEOREM DownloadsInductive == Spec => []IInv
PROOF
<1>1. Init => IInv
  BY InitHolds
<1>2. IInv /\ [Next]_vars => IInv'
  BY NextKeeps
<1> QED BY <1>1, <1>2, PTL DEF Spec

(* What is published is one version that the source held while the call    *)
(* ran, what a client leaves behind can be resumed from, and a call that   *)
(* nothing disturbs succeeds: for any contents, edits, streams, slots and  *)
(* windows (file_transfer.go:402, 438, 562, transfer_download.go:138).     *)
THEOREM DownloadsAreSafe == Spec => []DownloadsSafe
PROOF
<1>1. IInv => DownloadsSafe
  BY SafeHolds
<1> QED BY <1>1, DownloadsInductive, PTL

=============================================================================
