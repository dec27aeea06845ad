--------------------------- MODULE UploadContract ---------------------------
(***************************************************************************)
(* What resumable uploads promise to whoever looks at the workspace,       *)
(* whatever is lost, retried or restarted underneath: the target of an     *)
(* upload changes from what it was to the whole of the new content; an     *)
(* upload that may overwrite does so once and never undoes what came later;*)
(* one that may not never replaces anything; and a client says "uploaded"  *)
(* only of a content that was published.                                   *)
(***************************************************************************)
CONSTANTS
    Target,      \* paths of the workspace
    Content,     \* contents that clients upload
    Upload,      \* upload sessions
    Foreign      \* what plain calls write: no client's content

VARIABLES
    exclusive,   \* uploads may not overwrite
    file,        \* content of each target, or "none"
    published,   \* <<session, target, content>> that was put in place
    reported     \* <<target, content>> that a client was told is uploaded

vars == <<exclusive, file, published, reported>>

Init ==
    /\ exclusive \in BOOLEAN
    /\ file \in [Target -> {"none"} \cup Foreign]
    /\ published = {}
    /\ reported = {}

(* A session puts the whole of its content in place. *)
Publish(u, t, c) ==
    /\ IF exclusive THEN file[t] \in {"none", c} ELSE \A p \in published : p[1] # u
    /\ file' = [file EXCEPT ![t] = c]
    /\ published' = published \cup {<<u, t, c>>}
    /\ UNCHANGED <<exclusive, reported>>

(* The client of an upload learns that it is done. *)
Report(t, c) ==
    /\ \E u \in Upload : <<u, t, c>> \in published
    /\ reported' = reported \cup {<<t, c>>}
    /\ UNCHANGED <<exclusive, file, published>>

(* Plain calls: write, remove, move, change of mode. *)
Plain(t, c) ==
    /\ file' = [file EXCEPT ![t] = c]
    /\ UNCHANGED <<exclusive, published, reported>>

PlainRemoveAll ==
    /\ file' = [t \in Target |-> "none"]
    /\ UNCHANGED <<exclusive, published, reported>>

Next ==
    \/ \E u \in Upload, t \in Target, c \in Content : Publish(u, t, c)
    \/ \E t \in Target, c \in Content : Report(t, c)
    \/ \E t \in Target, c \in {"none"} \cup Foreign : Plain(t, c)
    \/ PlainRemoveAll

Spec == Init /\ [][Next]_vars
=============================================================================
