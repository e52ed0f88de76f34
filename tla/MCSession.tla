----------------------------- MODULE MCSession ------------------------------
(* Small instances for TLC of what a session runs: the operations of its    *)
(* processes, the watcher that brings wallpapers back to outputs that        *)
(* return, and what the window of the GUI shows: the wallpapers it takes for *)
(* current, and its list.  Each knows the others in a coarser grain, so one  *)
(* of them moves.                                                            *)
EXTENDS MCDisplayOperation, OutputRecovery, RuntimeView, PagedWallpapers

CONSTANTS
    c1, c2, m1, m2, q1, q2, r1, r2,
    Parts           \* those that are checked, one at a time

VARIABLE part

sessionVars == <<vars, recoveryVars, runtimeVars, pagedVars, part>>

SessionInit ==
    /\ part \in Parts
    /\ Init /\ RecoveryInit /\ RuntimeViewInit /\ PagedInit
    /\ part # "watcher" => Plugged = {}
    /\ part # "operations" => \A s \in Session, o \in Output : shown[s][o] = {}
    /\ part \notin {"operations", "watcher"} => rows[AllDisplays] = None
    /\ part # "list" => criteria = q1

\* Bound: what disturbs the view of the window comes once.
ViewBudget == others' + pauses' + misses' <= 1

SessionNext ==
    \/ part = "operations" /\ Next
       /\ UNCHANGED <<recoveryVars, runtimeVars, pagedVars, part>>
    \/ part = "watcher" /\ RecoveryNext
       /\ UNCHANGED <<vars, runtimeVars, pagedVars, part>>
    \/ part = "view" /\ RuntimeViewNext /\ ViewBudget
       /\ UNCHANGED <<vars, recoveryVars, pagedVars, part>>
    \/ part = "list" /\ PagedNext
       /\ UNCHANGED <<vars, recoveryVars, runtimeVars, part>>
    \* The watcher has ended, or the user asks for nothing more.
    \/ part = "watcher" /\ recovery.pc = "off" /\ UNCHANGED sessionVars
    \/ part \in {"view", "list"} /\ UNCHANGED sessionVars

SessionSpec == SessionInit /\ [][SessionNext]_sessionVars

\* The fairness of the watcher. That of the operations is in FairSpec, in a run of its own.
FairWatcher ==
    /\ WF_recoveryVars(part = "watcher" /\ WatcherStep)
    /\ \A c \in Connector : WF_recoveryVars(part = "watcher" /\ RetryDue(c))

-----------------------------------------------------------------------------
\* The types of all variables.
SessionTypeOK == TypeOK /\ RecoveryTypeOK /\ RuntimeViewTypeOK /\ PagedTypeOK

\* An output that returns shows its wallpaper in the end (ReturnRestored of OutputRecovery),
\* under that fairness.
FairlyRestored == FairWatcher => ReturnRestored
=============================================================================
