----------------------------- MODULE MCServices -----------------------------
(* Small instances for TLC of the services of the GUI: the scheduler of the *)
(* library and the rounds it starts, the scan that the window shows, the     *)
(* registry of the watchers and the single instance.  They share no state    *)
(* here; the run checks each in turn.                                        *)
EXTENDS LibraryScheduler, WatchRegistry, InstanceCoordinator, ScanProgress, TLC

CONSTANTS a, b, w1, repair, gui, cli, i1, i2, i3, r1, r2, Partial

\* The variables of LibraryRefresh.
VARIABLES
    disk, event, rows, refresh, library, revision, marker, tmp, tsv,
    scan_lock, rescan_lock, pc, op, demands, lapses, mishaps, missed

VARIABLE part

\* Two processes refresh a source that is added, and may be set to list its subdirectories
\* or not while it is refreshed.
Rounds == INSTANCE LibraryRefresh WITH
    Source <- {a}, Configured <- {}, Proc <- {gui, cli}, Gui <- {gui},
    Kinds <- {"add", "recursive", "background"},
    MaxVersion <- 2, MaxRequests <- 2, MaxExpiries <- 0, MaxFaults <- 1,
    status <- rows, requests <- demands, expiries <- lapses, faults <- mishaps

roundsVars == <<disk, event, rows, refresh, library, revision, marker, tmp, tsv,
                scan_lock, rescan_lock, pc, op, demands, lapses, mishaps, missed>>
servicesVars == <<vars, registryVars, coordination, scanVars, roundsVars, part>>

ServicesInit ==
    /\ part \in {"scheduler", "rounds", "scan", "registry", "instances"}
    /\ Init /\ RegistryInit /\ CoordinatorInit /\ ScanProgressInit /\ Rounds!Init
    /\ part # "scheduler" => \A s \in Source : ~due[s]

\* Bound: a round fails, or the user asks for something.
Budget == faults' = 0 \/ requests' = 0

\* Bound: the window is hidden, or the scheduler scans; and a request may fail.
ScanBudget == hides' + rounds' <= 1

ServicesNext ==
    \/ /\ part = "scheduler" /\ Next /\ Budget
       /\ UNCHANGED <<registryVars, coordination, scanVars, roundsVars, part>>
    \/ /\ part = "rounds" /\ Rounds!Next
       /\ UNCHANGED <<vars, registryVars, coordination, scanVars, part>>
    \/ /\ part = "scan" /\ ScanProgressNext /\ ScanBudget
       /\ UNCHANGED <<vars, registryVars, coordination, roundsVars, part>>
    \/ /\ part = "registry" /\ RegistryNext
       /\ UNCHANGED <<vars, coordination, scanVars, roundsVars, part>>
    \/ /\ part = "instances" /\ CoordinatorNext
       /\ UNCHANGED <<vars, registryVars, scanVars, roundsVars, part>>
    \* All but the loop of the scheduler may have nothing left to do.
    \/ part # "scheduler" /\ UNCHANGED servicesVars

ServicesSpec == ServicesInit /\ [][ServicesNext]_servicesVars

\* The fairness that the modules state, or less, of the part that moves.
FairScheduler ==
    /\ WF_vars(part = "scheduler" /\ Tick)
    /\ WF_vars(part = "scheduler" /\ PollCatalog)
    /\ WF_vars(part = "scheduler" /\ \E s \in Source : PollSource(s))
    /\ WF_vars(part = "scheduler" /\ \E s \in Source : ScanByHand(s))
    /\ WF_vars(part = "scheduler" /\ \E w \in Worker : TakeDue(w))
    /\ \A w \in Worker : WF_vars(part = "scheduler" /\ Thread(w))
    /\ \A m \in Pauser : WF_vars(part = "scheduler" /\ pauser[m] # "idle" /\ Maintenance(m))

FairRounds ==
    /\ \A p \in {gui, cli} : WF_roundsVars(part = "rounds" /\ Rounds!Step(p))
    /\ WF_roundsVars(part = "rounds" /\ Rounds!MarkDirty(a))
    /\ WF_roundsVars(part = "rounds" /\ Rounds!RetryTime(a))
    /\ WF_roundsVars(part = "rounds" /\ Rounds!GrowStale(a))
    /\ SF_roundsVars(part = "rounds" /\ Rounds!Due(a) /\ Rounds!StartBackground(gui, {a}))

FairScan ==
    /\ WF_scanVars(part = "scan" /\ TimerFires)
    /\ \A r \in Read : /\ WF_scanVars(part = "scan" /\ ReadAnswered(r))
                       /\ WF_scanVars(part = "scan" /\ ReadSucceeds(r))

-----------------------------------------------------------------------------
\* The types of all variables.
ServicesTypeOK == TypeOK /\ RegistryTypeOK /\ CoordinatorTypeOK /\ ScanProgressTypeOK

\* A maintenance task that asks for a pause gets it (PauseGranted of LibraryScheduler), under
\* the fairness of the scheduler.
FairlyGranted == FairScheduler => PauseGranted

\* A source that is due is scanned (DueScanned of LibraryScheduler), under that fairness.
FairlyScanned == FairScheduler => DueScanned

\* The window shows a scan while one runs (ShownSettles of ScanProgress), under the fairness
\* of its requests.
FairlySettled == FairScan => ShownSettles

\* The library catches up with the disk (LibraryRefresh), under the fairness of the rounds.
FairlyCaughtUp == FairRounds => Rounds!CatchesUp
=============================================================================
