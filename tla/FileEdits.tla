------------------------------ MODULE FileEdits ------------------------------
(***************************************************************************)
(* The calls of the file service that finish in one request                *)
(* (internal/files: service.go, text.go, patch.go, resource.go), as gRPC   *)
(* clients (pkg/client/client.go) and MCP tools (internal/mcp:             *)
(* host_controller.go) make them, while other calls, upload sessions and   *)
(* processes of the workspace use the same paths.  Every step is one call  *)
(* of the operating system or one look at the transfer store.              *)
(*                                                                         *)
(* Abstractions.  Paths are names in one directory and neither links nor   *)
(* staging files; a file is a short sequence of blocks and its digest is   *)
(* the sequence itself; a patch replaces one block.  Limits, path checks,  *)
(* listings, the patch format and the wording of errors are left out.      *)
(* Upload sessions (module ResumableUpload) appear as the targets they     *)
(* reserve.  Removing a staging file on the way out succeeds.              *)
(***************************************************************************)
EXTENDS Integers, FiniteSets, Sequences

CONSTANTS
    Path,           \* bound: names in the workspace
    Call,           \* bound: calls
    Request,        \* bound: what clients ask for
    Reservable,     \* bound: targets upload sessions may reserve
    FirstFiles,     \* path |-> its blocks at first, <<>> if there is no file
    MaxEdits        \* bound: changes by processes of the workspace

VARIABLES
    names,      \* path |-> inode, or 0
    nodes,      \* inode |-> kind, blocks, mode
    reserved,   \* transferStore.targets
    call,       \* each call and its handler
    harm,       \* ghost: promises not to replace a file that were broken
    edited,     \* ghost: inodes that a process changed in place
    edits       \* bound

vars == <<names, nodes, reserved, call, harm, edited, edits>>

Writes == {"upload", "write", "patch"}
Reads  == {"read", "download", "patch"}

Inode == 1 .. Cardinality(Path) + 2 * Cardinality(Call)
NoNode == [kind |-> "none", bytes |-> <<>>, mode |-> 0]
Named(p) == names[p] # 0
IsDir(p) == Named(p) /\ nodes[names[p]].kind = "dir"

Nothing == [op |-> "none"]
Idle == [pc |-> "idle", req |-> Nothing, fd |-> 0, got |-> <<>>, size |-> 0, reread |-> FALSE,
         bytes |-> <<>>, temp |-> 0, result |-> "none"]

Req(c) == call[c].req
Op(c)  == Req(c).op
At(c, pc) == call[c].pc = pc

\* What a change of names, inodes and calls leaves: an inode without a name
\* that nobody has open is gone.
Commit(names1, nodes1, call1) ==
    LET used == {names1[p] : p \in Path}
                \cup UNION {{call1[c].fd, call1[c].temp} : c \in Call}
    IN  /\ names' = names1 /\ call' = call1
        /\ nodes' = [i \in Inode |-> IF i \in used THEN nodes1[i] ELSE NoNode]
        /\ edited' = edited \cap used

Goto(c, pc) == [call EXCEPT ![c].pc = pc]

\* The handler returns; the deferred functions close what is open and remove
\* the staging file.
Return(c, result) ==
    [call EXCEPT ![c].result = result, ![c].pc = IF @ = "idle" THEN @ ELSE
                    IF call[c].temp # 0 THEN "cleanup" ELSE "done"]

Only(call1) == Commit(names, nodes, call1) /\ UNCHANGED harm
Error(c) == Only(Return(c, "error"))
Rest == UNCHANGED <<reserved, edits>>

Fresh == CHOOSE i \in Inode :
            nodes[i] = NoNode /\ \A j \in Inode : nodes[j] = NoNode => i <= j

-----------------------------------------------------------------------------
(***************************************************************************)
(* Entry, and the checks before anything is changed.                       *)
(***************************************************************************)
\* Upload, Remove, Move, Chmod and Mkdir ask for active transfers; what MCP
\* tools write does not.
Begin(c, request) ==
    /\ At(c, "idle")
    /\ Only([call EXCEPT ![c] = [Idle EXCEPT
            !.req = request, !.bytes = request.bytes,
            !.pc = CASE request.op \in {"upload", "remove", "move", "chmod", "mkdir"} -> "conflict"
                     [] request.op \in Reads -> "open"
                     [] OTHER -> "lstat"]])

transferMutationConflicts(c) ==
    /\ At(c, "conflict")
    /\ IF {Req(c).path, Req(c).dest} \cap reserved # {} THEN Error(c)
       ELSE Only(Goto(c, IF Op(c) = "mkdir" THEN "mkdir" ELSE "lstat"))

\* The target of Upload and WriteText.
InspectTarget(c) ==
    LET p == Req(c).path
    IN  /\ At(c, "lstat") /\ Op(c) \in Writes
        /\ IF Named(p) /\ (~Req(c).over \/ IsDir(p)) THEN Error(c) ELSE Only(Goto(c, "temp"))

\* What the others work on.
InspectSource(c) ==
    /\ At(c, "lstat") /\ Op(c) \notin Writes
    /\ IF ~Named(Req(c).path) THEN Error(c)
       ELSE IF Op(c) = "stat" THEN Only(Return(c, "ok"))
       ELSE Only(Goto(c, IF Op(c) = "move" THEN "lstatDest" ELSE Op(c)))

-----------------------------------------------------------------------------
(***************************************************************************)
(* Reads: ReadText, ReadBytes, Download and the client of Download.        *)
(***************************************************************************)
Open(c) ==
    LET p == Req(c).path
    IN  /\ At(c, "open")
        /\ IF ~Named(p) \/ IsDir(p) THEN Error(c)
           ELSE Only([call EXCEPT ![c].pc = "read", ![c].fd = names[p], ![c].got = <<>>,
                                  ![c].size = Len(nodes[names[p]].bytes)])

Text(c) == nodes[call[c].fd].bytes
EndOfFile(c) == Len(call[c].got) >= Len(Text(c))

ReadBlock(c) ==
    /\ At(c, "read") /\ ~EndOfFile(c)
    /\ Only([call EXCEPT ![c].got = Append(@, Text(c)[Len(@) + 1])])

\* The client compares the size it was told with what arrived.
EndRead(c) ==
    /\ At(c, "read") /\ Op(c) \in {"read", "download"} /\ EndOfFile(c)
    /\ IF Op(c) = "download" /\ Len(call[c].got) # call[c].size THEN Error(c)
       ELSE Only(Return(c, "ok"))

\* mutant: what was read is not compared with the digest of the request.
matchesAny(c) == TRUE

matches(c) == call[c].got = Req(c).expected

\* applyUnifiedHunks, for a patch of one block.
patched(text, edit) == [text EXCEPT ![edit.at] = edit.to]
hunkFits(text, edit) == edit.at \in DOMAIN text /\ text[edit.at] = edit.from

\* ApplyTextPatch reads the file, patches it, reads it again and then writes it
\* as WriteText does.
EndPatchRead(c) ==
    LET edit == Req(c).edit
    IN  /\ At(c, "read") /\ Op(c) = "patch" /\ EndOfFile(c)
        /\ IF ~matches(c) \/ ~hunkFits(call[c].got, edit) THEN Error(c)
           ELSE IF call[c].reread
           THEN Only([call EXCEPT ![c].pc = "lstat", ![c].fd = 0])
           ELSE Only([call EXCEPT ![c].pc = "open", ![c].fd = 0, ![c].reread = TRUE,
                                  ![c].bytes = patched(call[c].got, edit)])

-----------------------------------------------------------------------------
(***************************************************************************)
(* Writes: Upload and WriteText.                                           *)
(***************************************************************************)
\* mutant: the file is written where it will be.
createUploadTempInPlace(c) ==
    LET p == Req(c).path
        i == IF Named(p) THEN names[p] ELSE Fresh
    IN  /\ At(c, "temp")
        /\ Commit(names, [nodes EXCEPT ![i] = [kind |-> "file", bytes |-> <<>>, mode |-> 0]],
                  [call EXCEPT ![c].pc = "fill", ![c].temp = i])
        /\ UNCHANGED harm

createUploadTemp(c) ==
    /\ At(c, "temp")
    /\ Commit(names, [nodes EXCEPT ![Fresh] = [kind |-> "file", bytes |-> <<>>, mode |-> 0]],
              [call EXCEPT ![c].pc = "fill", ![c].temp = Fresh])
    /\ UNCHANGED harm

Staged(c) == nodes[call[c].temp].bytes

\* The next block, which the client of an upload reads from a file that may
\* have changed since it computed the digest.
WriteBlock(c, block) ==
    /\ At(c, "fill") /\ Len(Staged(c)) < Len(call[c].bytes)
    /\ Op(c) # "upload" => block = call[c].bytes[Len(Staged(c)) + 1]
    /\ Commit(names, [nodes EXCEPT ![call[c].temp].bytes = Append(@, block)], call)
    /\ UNCHANGED harm

\* mutant: the size of an upload is compared, its digest is not.
completeBySize(c) == Len(Staged(c)) = Len(call[c].bytes)

complete(c) == Staged(c) = call[c].bytes

\* The end of the stream or of the text: checks, sync, mode.
FinishStaging(c) ==
    /\ At(c, "fill") /\ (Op(c) = "upload" \/ complete(c))
    /\ IF ~complete(c) THEN Error(c)
       ELSE /\ Commit(names, [nodes EXCEPT ![call[c].temp].mode = Req(c).mode], Goto(c, "publish"))
            /\ UNCHANGED harm

\* Which promise is broken by binding the path to something else now.
brokenBy(c) ==
    LET p == Req(c).path
    IN  IF Op(c) = "patch"
        THEN IF Named(p) /\ nodes[names[p]].bytes = Req(c).expected THEN {} ELSE {"patch"}
        ELSE IF Named(p) /\ ~Req(c).over THEN {"create"} ELSE {}

\* mutant: a new file is published like one that may replace another.
PublishByRename(c) ==
    LET p == Req(c).path
    IN  /\ At(c, "publish")
        /\ IF IsDir(p) THEN Error(c)
           ELSE /\ Commit([names EXCEPT ![p] = call[c].temp], nodes,
                          [call EXCEPT ![c].pc = "restat", ![c].temp = 0])
                /\ harm' = harm \cup brokenBy(c)

\* Rename replaces what is there, link does not.
Publish(c) ==
    LET p == Req(c).path
    IN  /\ At(c, "publish")
        /\ IF IsDir(p) \/ (Named(p) /\ ~Req(c).over) THEN Error(c)
           ELSE /\ Commit([names EXCEPT ![p] = call[c].temp], nodes,
                          IF Req(c).over THEN [call EXCEPT ![c].pc = "restat", ![c].temp = 0]
                          ELSE Goto(c, "unlink"))
                /\ harm' = harm \cup brokenBy(c)

\* The staging name of a file that was linked.
Unlink(c) == At(c, "unlink") /\ Only([call EXCEPT ![c].pc = "restat", ![c].temp = 0])

\* The answer carries what the path names then.
Restat(c) ==
    /\ At(c, "restat")
    /\ Only(Return(c, IF Named(IF Op(c) = "move" THEN Req(c).dest ELSE Req(c).path)
                      THEN "ok" ELSE "error"))

-----------------------------------------------------------------------------
(***************************************************************************)
(* Move, Remove, Chmod, Mkdir.                                             *)
(***************************************************************************)
InspectDestination(c) ==
    LET d == Req(c).dest
    IN  /\ At(c, "lstatDest")
        /\ IF Named(d) /\ (~Req(c).over \/ IsDir(d)) THEN Error(c) ELSE Only(Goto(c, "rename"))

Rename(c) ==
    LET p == Req(c).path
        d == Req(c).dest
    IN  /\ At(c, "rename")
        /\ IF ~Named(p) \/ (Named(d) /\ IsDir(p) # IsDir(d)) THEN Error(c)
           ELSE /\ Commit([names EXCEPT ![d] = names[p], ![p] = 0], nodes, Goto(c, "restat"))
                /\ harm' = harm \cup IF Named(d) /\ ~Req(c).over THEN {"move"} ELSE {}

Remove(c) ==
    LET p == Req(c).path
    IN  /\ At(c, "remove")
        /\ IF Named(p)
           THEN Commit([names EXCEPT ![p] = 0], nodes, Return(c, "ok")) /\ UNCHANGED harm
           ELSE Error(c)

OpenToChange(c) ==
    /\ At(c, "chmod")
    /\ IF Named(Req(c).path)
       THEN Only([call EXCEPT ![c].pc = "fchmod", ![c].fd = names[Req(c).path]])
       ELSE Error(c)

Chmod(c) ==
    /\ At(c, "fchmod")
    /\ Commit(names, [nodes EXCEPT ![call[c].fd].mode = Req(c).mode], Goto(c, "restat"))
    /\ UNCHANGED harm

Mkdir(c) ==
    LET p == Req(c).path
    IN  /\ At(c, "mkdir")
        /\ IF Named(p) THEN Error(c)
           ELSE /\ Commit([names EXCEPT ![p] = Fresh],
                          [nodes EXCEPT ![Fresh] = [kind |-> "dir", bytes |-> <<>>,
                                                    mode |-> Req(c).mode]], Goto(c, "restat"))
                /\ UNCHANGED harm

-----------------------------------------------------------------------------
\* A step of the system fails, the client leaves, a deadline passes.
Fail(c) ==
    /\ call[c].pc \in {"open", "read", "temp", "fill", "publish", "unlink", "restat", "rename",
                       "remove", "chmod", "fchmod", "mkdir"}
    /\ Error(c)

\* mutant: nothing is deferred.
CleanupForgotten(c) == At(c, "cleanup") /\ Only(Goto(c, "done"))

Cleanup(c) == At(c, "cleanup") /\ Only([call EXCEPT ![c].pc = "done", ![c].temp = 0])

Handler(c) ==
    /\ Rest
    /\ \/ \E request \in Request : Begin(c, request)
       \/ transferMutationConflicts(c) \/ InspectTarget(c) \/ InspectSource(c)
       \/ Open(c) \/ ReadBlock(c) \/ EndRead(c) \/ EndPatchRead(c)
       \/ createUploadTemp(c) \/ FinishStaging(c) \/ Publish(c) \/ Unlink(c) \/ Restat(c)
       \/ \E block \in {"o", "n"} : WriteBlock(c, block)
       \/ InspectDestination(c) \/ Rename(c) \/ Remove(c) \/ OpenToChange(c) \/ Chmod(c)
       \/ Mkdir(c)
       \/ Fail(c) \/ Cleanup(c)

\* CreateUploadSession and the end of the session.
Session(p) ==
    /\ reserved' = IF p \in reserved THEN reserved \ {p} ELSE reserved \cup {p}
    /\ UNCHANGED <<names, nodes, call, harm, edited, edits>>

\* A process of the workspace changes a file in place.
EditInPlace(p, bytes) ==
    /\ edits < MaxEdits /\ Named(p) /\ ~IsDir(p)
    /\ nodes' = [nodes EXCEPT ![names[p]].bytes = bytes]
    /\ edited' = edited \cup {names[p]} /\ edits' = edits + 1
    /\ UNCHANGED <<names, reserved, call, harm>>

Init ==
    LET files == {p \in Path : FirstFiles[p] # <<>>}
        at == CHOOSE f \in [files -> 1 .. Cardinality(files)] :
                    \A p, q \in files : p # q => f[p] # f[q]
    IN  /\ names = [p \in Path |-> IF p \in files THEN at[p] ELSE 0]
        /\ nodes = [i \in Inode |->
                        IF \E p \in files : at[p] = i
                        THEN [kind |-> "file", mode |-> 0,
                              bytes |-> FirstFiles[CHOOSE p \in files : at[p] = i]]
                        ELSE NoNode]
        /\ reserved = {} /\ call = [c \in Call |-> Idle]
        /\ harm = {} /\ edited = {} /\ edits = 0

Next ==
    \/ \E c \in Call : Handler(c)
    \/ \E p \in Reservable : Session(p)
    \/ \E p \in Path, bytes \in {<<"n">>, <<"n", "n">>} : EditInPlace(p, bytes)

Spec == Init /\ [][Next]_vars

-----------------------------------------------------------------------------
(***************************************************************************)
(* Properties.                                                             *)
(***************************************************************************)
Done(c) == At(c, "done")

\* What a reader is given is one version of the file, whole, whoever publishes
\* another one meanwhile (the exception are processes that write in place).
ReadsWhole ==
    \A c \in Call :
        Done(c) /\ call[c].result = "ok" /\ Op(c) \in {"read", "download"}
            /\ call[c].fd \notin edited => call[c].got = nodes[call[c].fd].bytes

\* What the controller publishes is what it was asked to publish: an upload has
\* the bytes of its digest, a patch is the file it was made for with the patch
\* applied, never a mixture of two versions.
WritesExact ==
    \A c \in Call : At(c, "publish") =>
        Staged(c) = IF Op(c) = "patch" THEN patched(Req(c).expected, Req(c).edit)
                    ELSE Req(c).bytes

\* A write that may not replace a file does not, whatever appears meanwhile.
CreatesKeep == "create" \notin harm

\* No call leaves its staging file behind.
NothingLeft == \A c \in Call : Done(c) => call[c].temp = 0

\* Readers and writers of whole files do not disturb one another.
FilesWhole == ReadsWhole /\ WritesExact /\ CreatesKeep /\ NothingLeft

\* A patch replaces only the version it was made for ("compare-and-swap
\* semantics for controller-mediated writers").
PatchesSwap == "patch" \notin harm

\* A move without overwrite replaces nothing.
MovesKeep == "move" \notin harm
=============================================================================
