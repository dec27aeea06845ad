-------------------------- MODULE MCLogAndWindows --------------------------
(***************************************************************************)
(* Two systems side by side: a process log with its followers, and the     *)
(* multi-window terminal, whose panes are such followers.  The models      *)
(* share nothing; which of them runs is chosen at the start, and the other *)
(* one stays in its initial state.                                         *)
(***************************************************************************)
EXTENDS MCProcessLog

CONSTANTS Process, Initial, Columns, OperationBuffer, MaxOpens, MaxHappenings

VARIABLES
    part,           \* "log" or "windows"
    loop, ctx, width, panes, active, opening, pane, opener, call, detacher,
    events, inputEvents, reader, happened, leave

(* Up to two panes stand side by side in a terminal of 24 rows. *)
SideBySide(columns, rows, count) == IF count <= 2 THEN count ELSE 2
TwoProcesses == <<"p1", "p2">>
OneProcess == <<"p1">>

W == INSTANCE MultiWindow
        WITH Grid <- SideBySide, Rows <- 24, MaximumPanes <- 2, EventBuffer <- 1

ASSUME W!WindowAssumption

windowVars == <<loop, ctx, width, panes, active, opening, pane, opener, call, detacher,
                events, inputEvents, reader, happened, leave>>
bothVars == <<part, vars, windowVars>>

LogMoves(A) == part = "log" /\ A /\ UNCHANGED <<part, windowVars>>
WindowsMove(A) == part = "windows" /\ A /\ UNCHANGED <<part, vars>>

\* Only the part that runs may start in several ways.
Start ==
    /\ Init /\ W!Init
    /\ part # "windows" => opening = 1
    /\ part # "log" => owner = "process"

BothInit == part \in {"log", "windows"} /\ Start
BothNext == LogMoves(Next) \/ WindowsMove(W!Next)

(* The fairness of each part, while it runs. *)
FairBothSpec ==
    /\ BothInit /\ [][BothNext]_bothVars
    /\ \A o \in Readers : WF_bothVars(LogMoves(ReaderStep(o) /\ UNCHANGED owner))
    /\ WF_bothVars(WindowsMove(W!EventLoop)) /\ WF_bothVars(WindowsMove(W!Shutdown))
    /\ WF_bothVars(WindowsMove(W!WindsDown)) /\ WF_bothVars(WindowsMove(W!TakeDone))
    /\ SF_bothVars(WindowsMove(W!ReaderEnds))

(* The books and sizes of the window session are right (MultiWindow). *)
WindowsConsistent == W!WindowsConsistent

(* Nothing outlives the window session (MultiWindow). *)
LeavesNothing == W!LeavesNothing

(* The window session hears its user and ends (MultiWindow). *)
SessionServes == W!SessionServes
=============================================================================
