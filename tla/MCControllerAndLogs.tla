------------------------ MODULE MCControllerAndLogs ------------------------
(***************************************************************************)
(* Three models side by side: the controller with its runtime log, the log *)
(* of a process with its followers, and the window session, whose panes    *)
(* are such followers (MCLogAndWindows).  They share nothing; which of     *)
(* them runs is chosen at the start, and the others stay in their initial  *)
(* states.                                                                 *)
(***************************************************************************)
EXTENDS Controller, TLC

CONSTANTS c1, r1, out, err

VARIABLES
    part,       \* "controller", "log" or "windows"
    owner, log, disk, saved, status, obs, crashes, faults, floor, lossKnown,
    loop, ctx, width, panes, active, opening, pane, opener, call, detacher,
    events, inputEvents, reader, happened, leave

LW == INSTANCE MCLogAndWindows
        WITH Readers <- {r1}, Streams <- {out, err}, MaxObservers <- 1, SegmentBytes <- 3,
             MaxBytesPerProcess <- 3, Owners <- {"process", "controller"}, TailSizes <- {2},
             MaxOffset <- 3, MaxCrashes <- 1, MaxFaults <- 1, r2 <- r1,
             Process <- {"p1", "p2"}, Initial <- <<"p1", "p2">>, Columns <- {80, 81},
             OperationBuffer <- 1, MaxOpens <- 2, MaxHappenings <- 1

otherVars ==
    <<part, owner, log, disk, saved, status, obs, crashes, faults, floor, lossKnown,
      loop, ctx, width, panes, active, opening, pane, opener, call, detacher,
      events, inputEvents, reader, happened, leave>>
allVars == <<vars, otherVars>>

AllInit == part \in {"controller", "log", "windows"} /\ Init /\ LW!Start

AllSpec ==
    /\ AllInit
    /\ [][\/ part = "controller" /\ Next /\ UNCHANGED otherVars
          \/ LW!BothNext /\ UNCHANGED vars]_allVars

Symmetric == Permutations({out, err})

\* A part that does not run is in its initial state.

(* Followers are told the truth about their log (ProcessLog). *)
FollowersInformed == part = "log" => LW!FollowersInformed

(* Memory and files of a log agree and tails are exact (ProcessLog). *)
LogIsWhole == part = "log" => LW!LogIsWhole

(* Followers miss nothing and see nothing twice (ProcessLog). *)
GapFree == part = "log" => LW!GapFree

(* The books and sizes of the window session are right (MultiWindow). *)
WindowsConsistent == part = "windows" => LW!WindowsConsistent

(* Nothing outlives the window session (MultiWindow). *)
LeavesNothing == part = "windows" => LW!LeavesNothing
=============================================================================
