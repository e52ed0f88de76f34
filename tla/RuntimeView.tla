------------------------------ MODULE RuntimeView ------------------------------
(***************************************************************************)
(* What the GUI takes for the current wallpapers: the queue of Applies     *)
(* (hooks/applyQueueController.ts), the observation of the renderers       *)
(* (shell/runtimeObservationController.ts) and the session that joins what *)
(* both say (shell/runtimeWallpaperSession.ts, useRuntimeWallpaper-        *)
(* Coordinator.ts).                                                        *)
(*                                                                         *)
(* An Apply that succeeds says itself what is shown; one that fails makes  *)
(* everything unknown.  Either makes a new generation of observations, so  *)
(* that one that was on its way, and may have read the displays before,    *)
(* does not count.                                                         *)
(***************************************************************************)
EXTENDS Naturals, FiniteSets

CONSTANTS
    Display,     \* connected outputs
    Probe,       \* observations that may be on their way at once
    NoProbe,
    \* Bounds of the model.
    MaxAsks,     \* Applies of the user
    MaxOthers,   \* changes of the displays by others
    MaxPauses,   \* times the window is hidden, the outputs change or the view is refreshed
    MaxMisses    \* observations that fail or exceed their deadline

ASSUME NoProbeAssumption == NoProbe \notin Probe
ASSUME ViewBounds == {MaxAsks, MaxOthers, MaxPauses, MaxMisses} \subseteq Nat

VARIABLES
    changes,     \* changes of what the displays show; they are numbered
    showing,     \* showing[d]: the last change of display d
    asks,        \* Applies asked for; they are numbered
    active,      \* the Apply under way, or 0
    progress,    \* how far it is: "sent", or its answer
    targets,     \* its outputs
    effect,      \* effect[d]: what it left there
    pending,     \* the Apply that waits, or 0
    observing,   \* the window is visible
    epoch,       \* generation of observations
    pollTimer, again, currentProbe, probes,
    confirmed,   \* confirmed[d]: what the session shows for d, if anything
    learned,     \* history: learned[d]: what the last Apply to d that ended left there
    others, pauses, misses

queue == <<asks, active, progress, targets, effect, pending>>
observation == <<observing, epoch, pollTimer, again, currentProbe, probes>>
viewBounds == <<others, pauses, misses>>
displayed == <<changes, showing>>
runtimeVars == <<displayed, queue, observation, confirmed, learned, viewBounds>>

\* What displays ds show changes.
Change(ds) ==
    /\ changes' = changes + 1
    /\ showing' = [d \in Display |-> IF d \in ds THEN changes + 1 ELSE showing[d]]

Unused == [stage |-> "free", gen |-> 0, seen |-> [d \in Display |-> 0]]
Nothing == [d \in Display |-> {}]

RuntimeViewInit ==
    /\ changes = 0 /\ showing = [d \in Display |-> 0]
    /\ asks = 0 /\ active = 0 /\ progress = "none" /\ pending = 0
    /\ targets = {} /\ effect = [d \in Display |-> 0]
    /\ observing = FALSE /\ epoch = 0 /\ pollTimer = FALSE /\ again = FALSE
    /\ currentProbe = NoProbe /\ probes = [r \in Probe |-> Unused]
    /\ confirmed = Nothing /\ learned = [d \in Display |-> 0]
    /\ others = 0 /\ pauses = 0 /\ misses = 0

-----------------------------------------------------------------------------
(* The queue: one Apply at a time, and the newest that waits.              *)

Run(a, ds) ==
    /\ active' = a
    /\ progress' = IF a = 0 THEN "none" ELSE "sent"
    /\ targets' = ds /\ effect' = showing

Enqueue ==
    /\ asks < MaxAsks /\ asks' = asks + 1
    /\ IF active # 0
       THEN pending' = asks + 1 /\ UNCHANGED <<active, progress, targets, effect>>
       ELSE /\ \E ds \in SUBSET Display \ {{}} : Run(asks + 1, ds)
            /\ UNCHANGED pending
    /\ UNCHANGED <<displayed, observation, confirmed, learned, viewBounds>>

\* The backend applies, or fails and leaves each output as it was or changed.
ApplyRuns ==
    /\ progress = "sent"
    /\ \/ progress' = "applied" /\ Change(targets)
       \/ progress' = "failed" /\ \E ds \in SUBSET targets : Change(ds)
    /\ effect' = showing'
    /\ UNCHANGED <<asks, active, targets, pending, observation, confirmed, learned, viewBounds>>

\* The watcher, the command line or another session change what is shown.
OthersChange ==
    /\ others < MaxOthers /\ others' = others + 1
    /\ \E d \in Display : Change({d})
    /\ UNCHANGED <<queue, observation, confirmed, learned, pauses, misses>>

-----------------------------------------------------------------------------
(* The observation of the renderers.                                       *)

SendProbe(r, gen) ==
    /\ probes' = [probes EXCEPT ![r] = [stage |-> "sent", gen |-> gen, seen |-> Unused.seen]]
    /\ currentProbe' = r

\* The next probe, or a note that another has to follow the one under way.
ProbeSoon(gen) ==
    /\ pollTimer' = FALSE
    /\ \/ currentProbe # NoProbe /\ again' = TRUE /\ UNCHANGED <<currentProbe, probes>>
       \/ /\ currentProbe = NoProbe
          /\ \E r \in Probe : probes[r].stage = "free" /\ SendProbe(r, gen)
          /\ UNCHANGED again

\* Mutant: the observation under way still counts.
RefreshOnly == IF observing THEN ProbeSoon(epoch) /\ UNCHANGED <<observing, epoch>> ELSE UNCHANGED observation

InvalidateAndRefresh ==
    IF observing THEN epoch' = epoch + 1 /\ ProbeSoon(epoch + 1) /\ UNCHANGED observing
    ELSE UNCHANGED observation

\* The answer of the Apply; then the one that waits. (Every request has an id of its own.)
ApplyEnds ==
    /\ progress \in {"applied", "failed"}
    /\ confirmed' = IF progress = "failed" THEN Nothing
                    ELSE [d \in Display |-> IF d \in targets THEN {effect[d]} ELSE confirmed[d]]
    /\ learned' = [d \in Display |-> IF d \in targets THEN effect[d] ELSE learned[d]]
    /\ InvalidateAndRefresh
    /\ pending' = 0
    /\ IF pending = 0 THEN Run(0, {}) ELSE \E ds \in SUBSET Display \ {{}} : Run(pending, ds)
    /\ UNCHANGED <<displayed, asks, viewBounds>>

\* After the options of a renderer were changed.
RefreshCurrent ==
    /\ pauses < MaxPauses /\ pauses' = pauses + 1
    /\ confirmed' = Nothing
    /\ InvalidateAndRefresh
    /\ UNCHANGED <<displayed, queue, learned, others, misses>>

PollTimerFires ==
    /\ pollTimer /\ ProbeSoon(epoch)
    /\ UNCHANGED <<displayed, queue, observing, epoch, confirmed, learned, viewBounds>>

\* The window appears, or the outputs changed: another controller, from nothing.
StartObserving ==
    /\ epoch' = epoch + 1 /\ observing' = TRUE
    /\ pollTimer' = FALSE /\ again' = FALSE
    /\ \E r \in Probe : probes[r].stage = "free" /\ SendProbe(r, epoch + 1)

ShowWindow ==
    /\ ~observing /\ StartObserving
    /\ confirmed' = Nothing
    /\ UNCHANGED <<displayed, queue, learned, viewBounds>>

OutputsChange ==
    /\ observing /\ pauses < MaxPauses /\ StartObserving
    /\ confirmed' = Nothing /\ pauses' = pauses + 1
    /\ UNCHANGED <<displayed, queue, learned, others, misses>>

HideWindow ==
    /\ observing /\ pauses < MaxPauses
    /\ observing' = FALSE /\ epoch' = epoch + 1
    /\ pollTimer' = FALSE /\ again' = FALSE /\ currentProbe' = NoProbe
    /\ confirmed' = Nothing /\ pauses' = pauses + 1
    /\ UNCHANGED <<displayed, queue, probes, learned, others, misses>>

ProbeReads(r) ==
    /\ probes[r].stage = "sent"
    /\ probes' = [probes EXCEPT ![r].stage = "answered", ![r].seen = showing]
    /\ UNCHANGED <<displayed, queue, observing, epoch, pollTimer, again, currentProbe, confirmed,
                   learned, viewBounds>>

Current(r) == observing /\ probes[r].gen = epoch

\* The rest of readObservations.
ProbeEnds(r) ==
    IF currentProbe # r
    THEN probes' = [probes EXCEPT ![r] = Unused] /\ UNCHANGED <<pollTimer, again, currentProbe>>
    ELSE IF ~Current(r) \/ again
    THEN again' = FALSE /\ pollTimer' = FALSE /\ SendProbe(r, epoch)
    ELSE /\ probes' = [probes EXCEPT ![r] = Unused]
         /\ currentProbe' = NoProbe /\ pollTimer' = TRUE
         /\ UNCHANGED again

\* An output whose renderer is ambiguous, or none of ours, is unknown.
ProbeSucceeds(r) ==
    /\ probes[r].stage = "answered"
    /\ IF Current(r) THEN \E ds \in SUBSET Display :
             confirmed' = [d \in Display |-> IF d \in ds THEN {probes[r].seen[d]} ELSE {}]
       ELSE UNCHANGED confirmed
    /\ ProbeEnds(r)
    /\ UNCHANGED <<displayed, queue, observing, epoch, learned, viewBounds>>

ProbeFails(r) ==
    /\ probes[r].stage # "free" /\ misses < MaxMisses /\ misses' = misses + 1
    /\ confirmed' = IF Current(r) THEN Nothing ELSE confirmed
    /\ ProbeEnds(r)
    /\ UNCHANGED <<displayed, queue, observing, epoch, learned, others, pauses>>

RuntimeViewNext ==
    \/ Enqueue \/ ApplyRuns \/ ApplyEnds \/ OthersChange
    \/ RefreshCurrent \/ PollTimerFires \/ ShowWindow \/ HideWindow \/ OutputsChange
    \/ \E r \in Probe : ProbeReads(r) \/ ProbeSucceeds(r) \/ ProbeFails(r)

RuntimeViewSpec == RuntimeViewInit /\ [][RuntimeViewNext]_runtimeVars

-----------------------------------------------------------------------------
RuntimeViewTypeOK ==
    /\ changes \in Nat /\ showing \in [Display -> Nat] /\ effect \in [Display -> Nat] /\ learned \in [Display -> Nat]
    /\ asks \in 0 .. MaxAsks /\ {active, pending} \subseteq 0 .. asks
    /\ progress \in {"none", "sent", "applied", "failed"} /\ (active = 0 <=> progress = "none")
    /\ targets \subseteq Display
    /\ observing \in BOOLEAN /\ pollTimer \in BOOLEAN /\ again \in BOOLEAN /\ epoch \in Nat
    /\ currentProbe \in Probe \cup {NoProbe}
    /\ probes \in [Probe -> [stage : {"free", "sent", "answered"}, gen : Nat, seen : [Display -> Nat]]]
    /\ confirmed \in [Display -> SUBSET Nat]
    /\ others \in Nat /\ pauses \in Nat /\ misses \in Nat

\* What the GUI shows for an output is never older than what the last Apply there left,
\* as far as the GUI has been told that it ended: no observation of before it, whichever
\* way it was delayed, comes after it.
NotOutrun == \A d \in Display : \A v \in confirmed[d] : v >= learned[d]
=============================================================================
