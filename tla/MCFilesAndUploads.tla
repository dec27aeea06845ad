------------------------- MODULE MCFilesAndUploads -------------------------
(***************************************************************************)
(* Two models of the file service: upload sessions (MCResumableUpload),    *)
(* and calls that read and change whole files, two at a time on two files  *)
(* (FileEdits).  They share nothing; which of them runs is chosen at the   *)
(* start, and the other one stays in its initial state.                    *)
(***************************************************************************)
EXTENDS MCResumableUpload

CONSTANTS c1, c2

VARIABLES
    part,                                                   \* "uploads" or "edits"
    names, nodes, reserved, handler, harm, edited, edits    \* FileEdits

Ask(op, path, dest, over, bytes) ==
    [op |-> op, path |-> path, dest |-> dest, over |-> over, bytes |-> bytes, mode |-> 1,
     expected |-> <<"o", "o">>, edit |-> [at |-> 1, from |-> "o", to |-> "n"]]

PatchAt(at) == [Ask("patch", "a", "a", TRUE, <<>>) EXCEPT !.edit.at = at]

Asked == <<
    Ask("upload", "a", "a", TRUE, <<"n", "n">>), Ask("upload", "b", "b", FALSE, <<"n", "n">>),
    Ask("write", "a", "a", TRUE, <<"n">>), Ask("write", "b", "b", FALSE, <<"n">>),
    PatchAt(1), PatchAt(2),
    Ask("stat", "a", "a", FALSE, <<>>), Ask("read", "a", "a", FALSE, <<>>),
    Ask("download", "a", "a", FALSE, <<>>), Ask("move", "a", "b", FALSE, <<>>),
    Ask("move", "b", "a", TRUE, <<>>), Ask("remove", "a", "a", FALSE, <<>>),
    Ask("chmod", "a", "a", FALSE, <<>>), Ask("mkdir", "b", "b", FALSE, <<>>)>>

F == INSTANCE FileEdits
        WITH Path <- {"a", "b"}, Call <- {c1, c2}, Request <- Range(Asked),
             Reservable <- {"a"}, FirstFiles <- "a" :> <<"o", "o">> @@ "b" :> <<>>,
             MaxEdits <- 1, call <- handler

editVars == <<names, nodes, reserved, handler, harm, edited, edits>>
allVars  == <<part, vars, editVars>>

\* The two calls are alike: let c1 have the request that is listed first.
Started(c) == handler'[c].pc # "idle"
Place(c)   == CHOOSE i \in DOMAIN Asked : Asked[i] = handler'[c].req
InOrder    == Started(c1) /\ Started(c2) => Place(c1) <= Place(c2)

AllInit == part \in {"uploads", "edits"} /\ Init /\ F!Init

\* Only uploads have to go on; edits leave nothing of theirs enabled.
AllSpec ==
    /\ AllInit
    /\ [][\/ part = "uploads" /\ Next /\ UNCHANGED <<part, editVars>>
          \/ part = "edits" /\ F!Next /\ InOrder /\ UNCHANGED <<part, vars>>]_allVars
    /\ Fairness

(* Calls on whole files do not disturb one another (FileEdits). *)
FilesWhole == F!FilesWhole
=============================================================================
