----------------------------- MODULE ScanProgress -----------------------------
(***************************************************************************)
(* What the GUI shows of a scan: the state that all scans of the backend   *)
(* share (src-tauri commands/scan.rs) and the controller of the frontend   *)
(* that reads it (shell/scanProgressController.ts).                        *)
(*                                                                         *)
(* Commands of the user and rounds of the scheduler mark the one state.    *)
(* The controller reads it with one request at a time, on a short timer    *)
(* while it shows a scan and on a long one otherwise, and not at all while *)
(* the window is hidden.  A request has a deadline; what it answers counts *)
(* only if nothing made a new generation of requests meanwhile.            *)
(***************************************************************************)
EXTENDS Naturals, FiniteSets

CONSTANTS
    Read,           \* requests that may be on their way at once
    NoRead,
    \* Bounds of the model.
    MaxCommands,    \* commands of the user that scan
    MaxRounds,      \* rounds of the scheduler
    MaxHides,       \* times the window is hidden
    MaxLosses       \* requests that fail or exceed their deadline

ASSUME NoReadAssumption == NoRead \notin Read
ASSUME ScanBounds == {MaxCommands, MaxRounds, MaxHides, MaxLosses} \subseteq Nat

VARIABLES
    scan,        \* SCAN_STATE
    command,     \* the command of the user that scans
    round,       \* the round of the scheduler; seen: it owns the presentation
    started, pollGeneration, timer, repoll,
    currentPoll, \* the request that the controller waits for
    scanState,       \* snapshot.scanState; asked: cancelRequestedAtMs # null
    observed,    \* snapshot.progress?.running
    reads,       \* reads[r]: a request of scan_progress
    cancelling,  \* cancelRequest
    strays,      \* calls of scan_cancel that nobody waits for, not yet executed
    commands, rounds, hides, losses

backend == <<scan, command, round>>
polling == <<started, pollGeneration, timer, repoll, currentPoll, reads>>
view == <<scanState, observed>>
scanBounds == <<commands, rounds, hides, losses>>
scanVars == <<backend, polling, view, cancelling, strays, scanBounds>>

Answer == [running : BOOLEAN, cancel : BOOLEAN, error : {"none", "cancelled", "failed"}]
Idle == [running |-> FALSE, cancel |-> FALSE, error |-> "none"]
NotShown == [kind |-> "idle", asked |-> FALSE]
Free == [stage |-> "free", gen |-> 0, answer |-> Idle]

ScanProgressInit ==
    /\ scan = Idle /\ command = "none" /\ round = "none"
    /\ started = FALSE /\ pollGeneration = 0 /\ timer = "none" /\ repoll = FALSE
    /\ currentPoll = NoRead
    /\ scanState = NotShown /\ observed = FALSE
    /\ reads = [r \in Read |-> Free]
    /\ cancelling = "none" /\ strays = 0
    /\ commands = 0 /\ rounds = 0 /\ hides = 0 /\ losses = 0

-----------------------------------------------------------------------------
(* SCAN_STATE and the scans that mark it.                                  *)

MarkScanStarted ==
    /\ ~scan.running
    /\ scan' = [Idle EXCEPT !.running = TRUE]

FinishSuccess == scan' = [scan EXCEPT !.running = FALSE, !.cancel = FALSE]
FinishError(e) == scan' = [scan EXCEPT !.running = FALSE, !.error = e]

\* A scan that was asked to stop does so at its next event, if there is one.
FinishScan ==
    /\ \/ FinishSuccess
       \/ FinishError("failed")
       \/ scan.cancel /\ FinishError("cancelled")

CommandBegins ==
    /\ command = "sent"
    /\ \/ MarkScanStarted /\ command' = "running"
       \* Another scan runs, or the command fails before it marks its own.
       \/ command' = "answered" /\ UNCHANGED scan
    /\ UNCHANGED <<round, polling, view, cancelling, strays, scanBounds>>

CommandEnds ==
    /\ command = "running" /\ FinishScan
    /\ command' = "answered"
    /\ UNCHANGED <<round, polling, view, cancelling, strays, scanBounds>>

\* begin_background_scan: a round owns the presentation unless something else does.
RoundBegins ==
    /\ round = "none" /\ rounds < MaxRounds
    /\ \/ MarkScanStarted /\ round' = "seen"
       \/ scan.running /\ round' = "unseen" /\ UNCHANGED scan
    /\ rounds' = rounds + 1
    /\ UNCHANGED <<command, polling, view, cancelling, strays, commands, hides, losses>>

RoundEnds ==
    /\ \/ round = "seen" /\ FinishScan
       \/ round = "unseen" /\ UNCHANGED scan
    /\ round' = "none"
    /\ UNCHANGED <<command, polling, view, cancelling, strays, scanBounds>>

RequestScanCancel == scan' = [scan EXCEPT !.cancel = @ \/ scan.running]

ReadAnswered(r) ==
    /\ reads[r].stage = "sent"
    /\ reads' = [reads EXCEPT ![r].stage = "answered", ![r].answer = scan]
    /\ UNCHANGED <<backend, started, pollGeneration, timer, repoll, currentPoll, view, cancelling,
                   strays, scanBounds>>

CancelAnswered ==
    /\ cancelling = "sent" /\ RequestScanCancel
    /\ cancelling' = "answered"
    /\ UNCHANGED <<command, round, polling, view, strays, scanBounds>>

\* A call that the frontend has given up is executed all the same.
StrayCancel ==
    /\ strays > 0 /\ RequestScanCancel
    /\ strays' = strays - 1
    /\ UNCHANGED <<command, round, polling, view, cancelling, scanBounds>>

-----------------------------------------------------------------------------
(* The requests of the controller.                                         *)

ScheduleNext(mode) == timer' = IF started THEN mode ELSE timer
Pace == IF observed' \/ scanState'.kind = "running" THEN "active" ELSE "idle"

SendRead(r, gen) ==
    /\ reads' = [reads EXCEPT ![r] = [stage |-> "sent", gen |-> gen, answer |-> Idle]]
    /\ currentPoll' = r

\* refresh, by a visible window: one request at a time.
Refresh ==
    /\ timer' = "none"
    /\ \/ currentPoll # NoRead /\ repoll' = TRUE /\ UNCHANGED <<currentPoll, reads>>
       \/ /\ currentPoll = NoRead
          /\ \E r \in Read : reads[r].stage = "free" /\ SendRead(r, pollGeneration)
          /\ UNCHANGED repoll

RefreshIfStarted ==
    IF started THEN Refresh ELSE UNCHANGED <<timer, repoll, currentPoll, reads>>

TimerFires ==
    /\ timer # "none" /\ Refresh
    /\ UNCHANGED <<backend, started, pollGeneration, view, cancelling, strays, scanBounds>>

\* start
Show ==
    /\ ~started /\ started' = TRUE
    /\ pollGeneration' = pollGeneration + 1
    /\ timer' = "none"
    /\ \E r \in Read : reads[r].stage = "free" /\ SendRead(r, pollGeneration + 1)
    /\ UNCHANGED <<backend, repoll, view, cancelling, strays, scanBounds>>

\* stop
Hide ==
    /\ started /\ hides < MaxHides
    /\ started' = FALSE
    /\ pollGeneration' = pollGeneration + 1
    /\ timer' = "none" /\ repoll' = FALSE /\ currentPoll' = NoRead
    /\ hides' = hides + 1
    /\ UNCHANGED <<backend, view, reads, cancelling, strays, commands, rounds, losses>>

\* Mutant: the timer that is set stays.
SignalledOnly == pollGeneration' = pollGeneration + 1 /\ UNCHANGED timer

\* signalStarted: what was asked before does not count, and the next request is soon.
Signalled ==
    IF started THEN pollGeneration' = pollGeneration + 1 /\ ScheduleNext("active")
    ELSE UNCHANGED <<pollGeneration, timer>>

\* The user starts a scan: signalStarted, then the command.
AskScan ==
    /\ command = "none" /\ commands < MaxCommands
    /\ scanState' = IF scanState.kind = "running" THEN scanState ELSE [kind |-> "running", asked |-> FALSE]
    /\ Signalled
    /\ command' = "sent"
    /\ commands' = commands + 1
    /\ UNCHANGED <<scan, round, started, repoll, currentPoll, reads, observed, cancelling,
                   strays, rounds, hides, losses>>

\* signalFinished
ScanAnswered ==
    /\ command = "answered"
    /\ command' = "none"
    /\ RefreshIfStarted
    /\ UNCHANGED <<scan, round, started, pollGeneration, view, cancelling, strays, scanBounds>>

\* observeProgress
ScanOutcome(answer) ==
    IF answer.running
    THEN [kind |-> "running", asked |-> answer.cancel \/ scanState.asked]
    ELSE IF scanState.kind # "running" THEN scanState
    ELSE [kind |-> IF answer.error = "cancelled" THEN "cancelled" ELSE "idle", asked |-> FALSE]

Observe(answer) == scanState' = ScanOutcome(answer) /\ observed' = answer.running

StillAwaited(r) == started /\ reads[r].gen = pollGeneration

\* Mutant: a request that a new generation superseded is the last.
ReadSettledOnce(r) ==
    /\ currentPoll' = NoRead
    /\ reads' = [reads EXCEPT ![r] = Free]
    /\ IF StillAwaited(r) THEN ScheduleNext(Pace) ELSE UNCHANGED timer
    /\ UNCHANGED repoll

\* The end of the request that the controller waits for: another one at once, or later.
ReadSettled(r) ==
    IF ~StillAwaited(r) \/ repoll
    THEN repoll' = FALSE /\ timer' = "none" /\ SendRead(r, pollGeneration)
    ELSE /\ currentPoll' = NoRead
         /\ reads' = [reads EXCEPT ![r] = Free]
         /\ ScheduleNext(Pace)
         /\ UNCHANGED repoll

\* The rest of readProgress, for a request of a window that was hidden since as well.
ReadEnds(r) ==
    IF currentPoll = r THEN ReadSettled(r)
    ELSE reads' = [reads EXCEPT ![r] = Free] /\ UNCHANGED <<timer, repoll, currentPoll>>

ReadSucceeds(r) ==
    /\ reads[r].stage = "answered"
    /\ IF StillAwaited(r) THEN Observe(reads[r].answer) ELSE UNCHANGED view
    /\ ReadEnds(r)
    /\ UNCHANGED <<backend, started, pollGeneration, cancelling, strays, scanBounds>>

\* The request fails, or its deadline passes.
ReadFails(r) ==
    /\ reads[r].stage # "free" /\ losses < MaxLosses
    /\ losses' = losses + 1
    /\ UNCHANGED view
    /\ ReadEnds(r)
    /\ UNCHANGED <<backend, started, pollGeneration, cancelling, strays, commands, rounds, hides>>

-----------------------------------------------------------------------------
(* Cancellation.                                                           *)

\* requestCancel
AskCancel ==
    /\ cancelling = "none" /\ scanState.kind = "running" /\ ~scanState.asked
    /\ scanState' = [scanState EXCEPT !.asked = TRUE]
    /\ ScheduleNext("active")
    /\ cancelling' = "sent"
    /\ UNCHANGED <<backend, started, pollGeneration, repoll, currentPoll, reads, observed, strays, scanBounds>>

CancelSucceeds ==
    /\ cancelling = "answered"
    /\ cancelling' = "none"
    /\ RefreshIfStarted
    /\ UNCHANGED <<backend, started, pollGeneration, view, strays, scanBounds>>

\* The call fails or its deadline passes, and may be executed later: restoreCancelAction.
CancelFails ==
    /\ cancelling # "none" /\ losses < MaxLosses
    /\ losses' = losses + 1
    /\ strays' = IF cancelling = "sent" THEN strays + 1 ELSE strays
    /\ cancelling' = "none"
    /\ scanState' = IF scanState.kind = "running" THEN [scanState EXCEPT !.asked = FALSE] ELSE scanState
    /\ UNCHANGED observed
    /\ ScheduleNext(Pace)
    /\ UNCHANGED <<backend, started, pollGeneration, repoll, currentPoll, reads, commands, rounds, hides>>

\* dismissCancelled
DismissCancelled ==
    /\ scanState.kind = "cancelled" /\ scanState' = NotShown
    /\ UNCHANGED <<backend, polling, observed, cancelling, strays, scanBounds>>

ScanProgressNext ==
    \/ CommandBegins \/ CommandEnds \/ RoundBegins \/ RoundEnds
    \/ CancelAnswered \/ StrayCancel
    \/ \E r \in Read : ReadAnswered(r) \/ ReadSucceeds(r) \/ ReadFails(r)
    \/ TimerFires \/ Show \/ Hide \/ AskScan \/ ScanAnswered
    \/ AskCancel \/ CancelSucceeds \/ CancelFails \/ DismissCancelled

ScanProgressSpec == ScanProgressInit /\ [][ScanProgressNext]_scanVars

\* Timers fire, calls are answered and the answers handled.
ScanProgressFairness ==
    /\ WF_scanVars(TimerFires)
    /\ \A r \in Read : WF_scanVars(ReadAnswered(r)) /\ WF_scanVars(ReadSucceeds(r))

-----------------------------------------------------------------------------
ScanProgressTypeOK ==
    /\ scan \in Answer
    /\ command \in {"none", "sent", "running", "answered"}
    /\ round \in {"none", "seen", "unseen"}
    /\ started \in BOOLEAN /\ repoll \in BOOLEAN /\ observed \in BOOLEAN
    /\ pollGeneration \in Nat
    /\ timer \in {"none", "active", "idle"}
    /\ currentPoll \in Read \cup {NoRead}
    /\ scanState \in [kind : {"idle", "running", "cancelled"}, asked : BOOLEAN]
    /\ scanState.asked => scanState.kind = "running"
    /\ reads \in [Read -> [stage : {"free", "sent", "answered"}, gen : Nat, answer : Answer]]
    /\ cancelling \in {"none", "sent", "answered"} /\ strays \in Nat
    /\ commands \in Nat /\ rounds \in Nat /\ hides \in Nat /\ losses \in Nat

\* A visible window never stops looking: a request is on its way, or a timer is set, the
\* short one while a scan is shown. Late, failed and superseded requests, a window that
\* was hidden and a failed cancellation all go through the code that has to see to it.
Watched ==
    started => \/ currentPoll # NoRead /\ reads[currentPoll].stage # "free"
               \/ timer = "active"
               \/ (timer = "idle" /\ scanState.kind # "running")

\* A visible window shows a scan if one runs and none if none does, if not at once then
\* in the end, whatever was asked, answered late or lost before.
ShownSettles == []<>(started => (scanState.kind = "running" <=> scan.running))
=============================================================================
