----------------------------- MODULE MCWorkflow -----------------------------
(***************************************************************************)
(* A small workflow: start fans out to build and review, merge joins what  *)
(* they made, and each of the three may give up.  They call an activity;   *)
(* build and merge do so in a workspace they have to themselves.           *)
(*                                                                         *)
(*     start --go--> build, review --ok--> merge --ok--> done              *)
(*                   build, review, merge  --give_up--> failed             *)
(***************************************************************************)
EXTENDS Workflow, TLC

CONSTANTS start, build, review, merge, done, failed, r1, r2, workspace, key

MCNode   == {start, build, review, merge, done, failed}
MCOrder  == <<start, build, review, merge, done, failed>>
MCResult == {"good", "bad"}

MCRoutes ==
    start  :> ("go" :> {build, review}) @@
    build  :> ("ok" :> {merge} @@ "give_up" :> {failed}) @@
    review :> ("ok" :> {merge} @@ "give_up" :> {failed}) @@
    merge  :> ("ok" :> {done} @@ "give_up" :> {failed}) @@
    done   :> <<>> @@ failed :> <<>>

MCJoin     == [n \in MCNode |-> IF n = failed THEN "any" ELSE "all"]
MCTerminal == [n \in MCNode |-> IF n = done THEN "succeeded"
                                ELSE IF n = failed THEN "failed" ELSE "none"]

MCExclusive == [n \in MCNode |-> IF n \in {build, merge} THEN {workspace} ELSE {}]
MCShared    == [n \in MCNode |-> {}]

\* start and build write the key one after the other, merge reads it; in the
\* racy workflow review reads it too, beside build.
MCReads  == [n \in MCNode |-> IF n \in {build, merge} THEN {key} ELSE {}]
MCRacy   == [n \in MCNode |-> IF n = review THEN {key} ELSE {}]
MCWrites == [n \in MCNode |-> IF n \in {start, build} THEN {key} ELSE {}]

\* The result of its activity decides which way a node goes.
Choose(results) ==
    IF results = <<>> THEN "call" ELSE IF results[1] = "good" THEN "ok" ELSE "give_up"

MCScript(n, results) == IF n = start THEN "go" ELSE Choose(results)

\* Only build calls an activity.
MCScriptShort(n, results) ==
    IF n = start THEN "go" ELSE IF n = build THEN Choose(results) ELSE "ok"

=============================================================================
