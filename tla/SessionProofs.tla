---------------------------- MODULE SessionProofs ----------------------------
(* What holds of the parts of a session beside its operations: of what the   *)
(* window of the GUI shows, the wallpapers it takes for current and its list, *)
(* and of the watcher of the displays.  For any number of displays, requests, *)
(* queries, connectors, monitors and orders.                                  *)
(* With the operations, for which see DisplayOperationProofs, they are what   *)
(* MCSession runs.                                                            *)
EXTENDS MCSession, DisplayOperationProofs

-----------------------------------------------------------------------------
(* The current wallpapers.                                                 *)

\* Nobody knows of a change that has not happened to the display.
KnownHappened ==
    \A d \in Display : showing[d] <= changes /\ effect[d] <= showing[d] /\ learned[d] <= showing[d]

\* An observation that still counts has been made after the last Apply ended, or will be.
ProbesFit ==
    \A r \in Probe : probes[r].stage # "free" =>
       /\ probes[r].gen <= epoch
       /\ observing /\ probes[r].gen = epoch /\ probes[r].stage = "answered" =>
             \A d \in Display : probes[r].seen[d] >= learned[d]

ViewIInv == RuntimeViewTypeOK /\ KnownHappened /\ ProbesFit /\ NotOutrun

\* The type of the observations.
ProbesTyped == probes \in [Probe -> [stage : {"free", "sent", "answered"}, gen : Nat, seen : [Display -> Nat]]]
Observing ==
    /\ observing \in BOOLEAN /\ pollTimer \in BOOLEAN /\ again \in BOOLEAN /\ epoch \in Nat
    /\ currentProbe \in Probe \cup {NoProbe}
    /\ ProbesTyped

LEMMA ViewStart == RuntimeViewInit => ViewIInv
<1> SUFFICES ASSUME RuntimeViewInit PROVE ViewIInv OBVIOUS
<1> USE DEF RuntimeViewInit
<1>1. ProbesTyped BY DEF ProbesTyped, Unused
<1>2. RuntimeViewTypeOK
  <2>1. asks \in 0 .. MaxAsks /\ {active, pending} \subseteq 0 .. asks BY ViewBounds
  <2>2. confirmed \in [Display -> SUBSET Nat] BY DEF Nothing
  <2> QED BY <1>1, <2>1, <2>2 DEF RuntimeViewTypeOK, ProbesTyped
<1>3. KnownHappened BY DEF KnownHappened
<1>4. ProbesFit BY DEF ProbesFit, Unused
<1>5. NotOutrun BY DEF NotOutrun, Nothing
<1> QED BY <1>2, <1>3, <1>4, <1>5 DEF ViewIInv

\* An observation is sent, under a generation.
LEMMA ProbeSent ==
    ASSUME ProbesTyped, NEW r \in Probe, NEW gen \in Nat, SendProbe(r, gen)
    PROVE  /\ ProbesTyped' /\ currentProbe' = r
           /\ probes'[r].stage = "sent" /\ probes'[r].gen = gen
           /\ \A q \in Probe \ {r} : probes'[q] = probes[q]
BY DEF SendProbe, ProbesTyped, Unused

\* An observation has ended, and no other follows.
LEMMA ProbeDropped ==
    ASSUME ProbesTyped, NEW r \in Probe, probes' = [probes EXCEPT ![r] = Unused]
    PROVE  /\ ProbesTyped' /\ probes'[r].stage = "free"
           /\ \A q \in Probe \ {r} : probes'[q] = probes[q]
BY DEF ProbesTyped, Unused

\* What the steps of the observation keep when what is learned may have changed: only those of
\* a new generation count.
LEMMA SoonKeeps ==
    ASSUME Observing, NEW gen \in Nat, ProbeSoon(gen)
    PROVE  /\ pollTimer' \in BOOLEAN /\ again' \in BOOLEAN /\ currentProbe' \in Probe \cup {NoProbe}
           /\ ProbesTyped'
           /\ \A r \in Probe : probes'[r] = probes[r] \/ (probes'[r].stage = "sent" /\ probes'[r].gen = gen)
<1>1. CASE currentProbe # NoProbe BY <1>1 DEF ProbeSoon, Observing, ProbesTyped
<1>2. CASE currentProbe = NoProbe
  <2>1. PICK r \in Probe : SendProbe(r, gen) BY <1>2 DEF ProbeSoon
  <2>2. pollTimer' = FALSE /\ again' = again BY <1>2 DEF ProbeSoon
  <2> QED BY <2>1, <2>2, ProbeSent DEF Observing
<1> QED BY <1>1, <1>2

LEMMA EndKeeps ==
    ASSUME Observing, NEW r \in Probe, ProbeEnds(r)
    PROVE  /\ pollTimer' \in BOOLEAN /\ again' \in BOOLEAN /\ currentProbe' \in Probe \cup {NoProbe}
           /\ ProbesTyped'
           /\ \A q \in Probe : \/ probes'[q] = probes[q] \/ probes'[q].stage = "free"
                               \/ probes'[q].stage = "sent" /\ probes'[q].gen = epoch
<1> USE DEF Observing
<1>1. CASE currentProbe # r BY <1>1, ProbeDropped DEF ProbeEnds
<1>2. CASE currentProbe = r /\ (~Current(r) \/ again)
  <2>1. SendProbe(r, epoch) /\ again' = FALSE /\ pollTimer' = FALSE BY <1>2 DEF ProbeEnds
  <2> QED BY <2>1, ProbeSent
<1>3. CASE currentProbe = r /\ ~(~Current(r) \/ again)
  <2>1. probes' = [probes EXCEPT ![r] = Unused] /\ currentProbe' = NoProbe /\ pollTimer' = TRUE /\ again' = again
    BY <1>3 DEF ProbeEnds
  <2> QED BY <2>1, ProbeDropped
<1> QED BY <1>1, <1>2, <1>3

\* Another generation of observations, if the window is visible.
LEMMA InvalidateKeeps ==
    ASSUME Observing, InvalidateAndRefresh
    PROVE  /\ Observing' /\ observing' = observing /\ epoch' >= epoch
           /\ \A r \in Probe : \/ probes'[r] = probes[r] /\ (observing => epoch' > epoch)
                               \/ probes'[r].stage = "sent" /\ probes'[r].gen = epoch'
<1>1. CASE observing
  <2>1. epoch' = epoch + 1 /\ ProbeSoon(epoch + 1) /\ observing' = observing
    BY <1>1 DEF InvalidateAndRefresh
  <2>2. epoch \in Nat /\ epoch + 1 \in Nat BY DEF Observing
  <2> QED BY <2>1, <2>2, SoonKeeps DEF Observing
<1>2. CASE ~observing
  <2>1. UNCHANGED observation BY <1>2 DEF InvalidateAndRefresh
  <2> QED BY <1>2, <2>1 DEF observation, Observing, ProbesTyped
<1> QED BY <1>1, <1>2
\* The steps of the queue that do not end an Apply, and those of others.
LEMMA QueueKeeps == ASSUME ViewIInv, Enqueue \/ ApplyRuns \/ OthersChange PROVE ViewIInv'
<1> USE DEF ViewIInv
<1>1. UNCHANGED <<observation, confirmed, learned, pauses, misses>> BY DEF Enqueue, ApplyRuns, OthersChange, viewBounds
<1>2. /\ changes' \in Nat /\ showing' \in [Display -> Nat] /\ others' \in Nat
      /\ \A d \in Display : showing'[d] <= changes' /\ showing'[d] >= showing[d]
      /\ effect' = effect \/ effect' = showing'
  <2>1. changes \in Nat /\ showing \in [Display -> Nat] /\ others \in Nat BY DEF RuntimeViewTypeOK
  <2>2. ASSUME NEW ds, Change(ds)
        PROVE  /\ changes' \in Nat /\ showing' \in [Display -> Nat]
               /\ \A d \in Display : showing'[d] <= changes' /\ showing'[d] >= showing[d]
    BY <2>1, <2>2 DEF Change, KnownHappened
  <2>3. CASE Enqueue
    <3>1. changes' = changes /\ showing' = showing /\ others' = others /\ (effect' = effect \/ effect' = showing)
      BY <2>3 DEF Enqueue, Run, displayed, viewBounds
    <3> QED BY <2>1, <3>1 DEF KnownHappened
  <2>4. CASE ApplyRuns BY <2>1, <2>2, <2>4 DEF ApplyRuns, viewBounds
  <2>5. CASE OthersChange BY <2>1, <2>2, <2>5 DEF OthersChange, queue
  <2> QED BY <2>3, <2>4, <2>5
<1>3. /\ asks' \in 0 .. MaxAsks /\ {active', pending'} \subseteq 0 .. asks'
      /\ progress' \in {"none", "sent", "applied", "failed"} /\ (active' = 0 <=> progress' = "none")
      /\ targets' \subseteq Display
  <2>1. /\ asks \in 0 .. MaxAsks /\ {active, pending} \subseteq 0 .. asks
        /\ progress \in {"none", "sent", "applied", "failed"} /\ (active = 0 <=> progress = "none")
        /\ targets \subseteq Display
    BY DEF RuntimeViewTypeOK
  <2>2. CASE Enqueue
    <3>1. asks < MaxAsks /\ asks' = asks + 1 BY <2>2 DEF Enqueue
    <3>2. CASE active # 0 BY <2>1, <2>2, <3>1, <3>2, ViewBounds DEF Enqueue
    <3>3. CASE active = 0
      <4>1. /\ active' = asks + 1 /\ progress' = "sent" /\ pending' = pending /\ targets' \in SUBSET Display
        BY <2>1, <2>2, <3>3 DEF Enqueue, Run
      <4> QED BY <2>1, <3>1, <4>1, ViewBounds
    <3> QED BY <3>2, <3>3
  <2>3. CASE ApplyRuns BY <2>1, <2>3 DEF ApplyRuns
  <2>4. CASE OthersChange BY <2>1, <2>4 DEF OthersChange, queue
  <2> QED BY <2>2, <2>3, <2>4
<1>4. RuntimeViewTypeOK' BY <1>1, <1>2, <1>3 DEF RuntimeViewTypeOK, observation
<1>5. KnownHappened'
  <2>1. changes \in Nat /\ showing \in [Display -> Nat] /\ effect \in [Display -> Nat] /\ learned \in [Display -> Nat]
    BY DEF RuntimeViewTypeOK
  <2> QED BY <1>1, <1>2, <2>1 DEF KnownHappened
<1>6. ProbesFit' BY <1>1 DEF ProbesFit, observation
<1>7. NotOutrun' BY <1>1 DEF NotOutrun
<1> QED BY <1>4, <1>5, <1>6, <1>7

\* The end of an Apply. It is known now, and what was observed before does not count.
LEMMA ApplyEndKeeps == ASSUME ViewIInv, ApplyEnds PROVE ViewIInv'
<1> USE DEF ViewIInv
<1>1. Observing BY DEF RuntimeViewTypeOK, Observing, ProbesTyped
<1>2. /\ Observing' /\ observing' = observing /\ epoch' >= epoch
      /\ \A r \in Probe : \/ probes'[r] = probes[r] /\ (observing => epoch' > epoch)
                          \/ probes'[r].stage = "sent" /\ probes'[r].gen = epoch'
  BY <1>1, InvalidateKeeps DEF ApplyEnds
<1>3. /\ confirmed' = IF progress = "failed" THEN Nothing
                      ELSE [d \in Display |-> IF d \in targets THEN {effect[d]} ELSE confirmed[d]]
      /\ learned' = [d \in Display |-> IF d \in targets THEN effect[d] ELSE learned[d]]
      /\ UNCHANGED <<changes, showing, asks, others, pauses, misses>>
  BY DEF ApplyEnds, displayed, viewBounds
<1>4. /\ changes \in Nat /\ showing \in [Display -> Nat] /\ effect \in [Display -> Nat] /\ learned \in [Display -> Nat]
      /\ confirmed \in [Display -> SUBSET Nat]
  BY DEF RuntimeViewTypeOK
<1>5. confirmed' \in [Display -> SUBSET Nat] /\ learned' \in [Display -> Nat]
  <2>1. CASE progress = "failed" BY <1>3, <1>4, <2>1 DEF Nothing
  <2>2. CASE progress # "failed" BY <1>3, <1>4, <2>2
  <2> QED BY <2>1, <2>2
<1>6. /\ {active', pending'} \subseteq 0 .. asks
      /\ progress' \in {"none", "sent", "applied", "failed"} /\ (active' = 0 <=> progress' = "none")
      /\ targets' \subseteq Display /\ effect' = showing
  <2>1. asks \in Nat /\ {active, pending} \subseteq 0 .. asks BY ViewBounds DEF RuntimeViewTypeOK
  <2>2. pending' = 0 BY DEF ApplyEnds
  <2>3. CASE pending = 0 BY <2>1, <2>2, <2>3 DEF ApplyEnds, Run
  <2>4. CASE pending # 0 BY <2>1, <2>2, <2>4 DEF ApplyEnds, Run
  <2> QED BY <2>3, <2>4
<1>7. RuntimeViewTypeOK' BY <1>2, <1>3, <1>4, <1>5, <1>6 DEF RuntimeViewTypeOK, Observing, ProbesTyped
<1>8. KnownHappened' BY <1>3, <1>4, <1>6 DEF KnownHappened
<1>9. ProbesFit'
  <2>1. SUFFICES ASSUME NEW r \in Probe, probes'[r].stage # "free"
                 PROVE  /\ probes'[r].gen <= epoch'
                        /\ observing' /\ probes'[r].gen = epoch' /\ probes'[r].stage = "answered" =>
                              \A d \in Display : probes'[r].seen[d] >= learned'[d]
    BY DEF ProbesFit
  <2>2. epoch \in Nat /\ epoch' \in Nat /\ probes[r].gen \in Nat BY <1>1, <1>2 DEF Observing, ProbesTyped
  <2>3. CASE probes'[r] = probes[r] /\ (observing => epoch' > epoch)
    <3>1. probes[r].gen <= epoch BY <2>1, <2>3 DEF ProbesFit
    <3> QED BY <1>2, <2>2, <2>3, <3>1
  <2>4. CASE probes'[r].stage = "sent" /\ probes'[r].gen = epoch' BY <2>2, <2>4
  <2> QED BY <1>2, <2>3, <2>4
<1>10. NotOutrun'
  <2>1. CASE progress = "failed" BY <1>3, <2>1 DEF NotOutrun, Nothing
  <2>2. CASE progress # "failed" BY <1>3, <1>4, <2>2 DEF NotOutrun
  <2> QED BY <2>1, <2>2
<1> QED BY <1>7, <1>8, <1>9, <1>10

\* The steps of the observation: nothing is learned by them, and what they confirm was seen.
LEMMA ObservationKeeps ==
    ASSUME ViewIInv, UNCHANGED <<displayed, queue, learned, others>>,
           Observing', confirmed' \in [Display -> SUBSET Nat], pauses' \in Nat, misses' \in Nat,
           ProbesFit', NotOutrun'
    PROVE  ViewIInv'
BY DEF ViewIInv, RuntimeViewTypeOK, KnownHappened, displayed, queue, Observing, ProbesTyped
LEMMA ViewStep == ViewIInv /\ RuntimeViewNext => ViewIInv'
<1> SUFFICES ASSUME ViewIInv, RuntimeViewNext PROVE ViewIInv' OBVIOUS
<1> USE DEF ViewIInv
<1>1. Observing BY DEF RuntimeViewTypeOK, Observing, ProbesTyped
<1>2. /\ pauses \in Nat /\ misses \in Nat /\ confirmed \in [Display -> SUBSET Nat]
      /\ learned \in [Display -> Nat] /\ showing \in [Display -> Nat]
  BY DEF RuntimeViewTypeOK
<1>3. Nothing \in [Display -> SUBSET Nat] /\ (confirmed' = Nothing => NotOutrun')
  BY DEF Nothing, NotOutrun
\* A generation of observations that none of before has.
<1>4. ASSUME Observing', epoch' >= epoch, learned' = learned,
             \A r \in Probe : \/ probes'[r] = probes[r] /\ (observing' => epoch' > epoch)
                              \/ probes'[r] = probes[r] /\ observing' = observing /\ epoch' = epoch
                              \/ probes'[r].stage = "sent" /\ probes'[r].gen = epoch'
                              \/ probes'[r].stage = "free"
      PROVE  ProbesFit'
  <2>1. SUFFICES ASSUME NEW r \in Probe, probes'[r].stage # "free"
                 PROVE  /\ probes'[r].gen <= epoch'
                        /\ observing' /\ probes'[r].gen = epoch' /\ probes'[r].stage = "answered" =>
                              \A d \in Display : probes'[r].seen[d] >= learned[d]
    BY <1>4 DEF ProbesFit
  <2>2. epoch \in Nat /\ epoch' \in Nat /\ probes[r].gen \in Nat BY <1>1, <1>4 DEF Observing, ProbesTyped
  <2>3. CASE probes'[r] = probes[r] /\ (observing' => epoch' > epoch)
    <3>1. probes[r].gen <= epoch BY <2>1, <2>3 DEF ProbesFit
    <3> QED BY <1>4, <2>2, <2>3, <3>1
  <2>4. CASE probes'[r] = probes[r] /\ observing' = observing /\ epoch' = epoch
    BY <2>1, <2>2, <2>4 DEF ProbesFit
  <2>5. CASE probes'[r].stage = "sent" /\ probes'[r].gen = epoch' BY <2>2, <2>5
  <2> QED BY <1>4, <2>1, <2>3, <2>4, <2>5
<1>5. CASE Enqueue \/ ApplyRuns \/ OthersChange BY <1>5, QueueKeeps
<1>6. CASE ApplyEnds BY <1>6, ApplyEndKeeps
<1>7. CASE RefreshCurrent
  <2>1. /\ Observing' /\ observing' = observing /\ epoch' >= epoch
        /\ \A r \in Probe : \/ probes'[r] = probes[r] /\ (observing => epoch' > epoch)
                            \/ probes'[r].stage = "sent" /\ probes'[r].gen = epoch'
    BY <1>1, <1>7, InvalidateKeeps DEF RefreshCurrent
  <2>2. UNCHANGED <<displayed, queue, learned, others, misses>> /\ confirmed' = Nothing /\ pauses' = pauses + 1
    BY <1>7 DEF RefreshCurrent
  <2>3. ProbesFit' BY <1>4, <2>1, <2>2
  <2> QED BY <1>2, <1>3, <2>1, <2>2, <2>3, ObservationKeeps
<1>8. CASE PollTimerFires
  <2>1. UNCHANGED <<displayed, queue, learned, others>> /\ UNCHANGED <<observing, epoch, confirmed, pauses, misses>>
    BY <1>8 DEF PollTimerFires, viewBounds
  <2>2. /\ Observing'
        /\ \A r \in Probe : probes'[r] = probes[r] \/ (probes'[r].stage = "sent" /\ probes'[r].gen = epoch)
    BY <1>1, <1>8, <2>1, SoonKeeps DEF PollTimerFires, Observing
  <2>3. epoch \in Nat BY <1>1 DEF Observing
  <2>4. ProbesFit' BY <1>4, <2>1, <2>2, <2>3
  <2>5. NotOutrun' BY <2>1 DEF NotOutrun
  <2> QED BY <1>2, <2>1, <2>2, <2>4, <2>5, ObservationKeeps
<1>9. CASE ShowWindow \/ OutputsChange
  <2>1. /\ UNCHANGED <<displayed, queue, learned, others>> /\ confirmed' = Nothing
        /\ pauses' \in Nat /\ misses' \in Nat
    BY <1>2, <1>9 DEF ShowWindow, OutputsChange, viewBounds
  <2>2. StartObserving BY <1>9 DEF ShowWindow, OutputsChange
  <2>3. PICK r \in Probe : SendProbe(r, epoch + 1) BY <2>2 DEF StartObserving
  <2>4. epoch \in Nat /\ epoch' = epoch + 1 /\ observing' = TRUE /\ pollTimer' = FALSE /\ again' = FALSE
    BY <1>1, <2>2 DEF StartObserving, Observing
  <2>5. /\ ProbesTyped' /\ currentProbe' = r
        /\ probes'[r].stage = "sent" /\ probes'[r].gen = epoch + 1
        /\ \A q \in Probe \ {r} : probes'[q] = probes[q]
    BY <1>1, <2>3, <2>4, ProbeSent DEF Observing
  <2>6. observing' \in BOOLEAN /\ pollTimer' \in BOOLEAN /\ again' \in BOOLEAN BY <2>4
  <2>7. epoch' \in Nat /\ epoch' > epoch /\ epoch' >= epoch BY <2>4
  <2>8. Observing' BY <2>5, <2>6, <2>7 DEF Observing
  <2>9. \A q \in Probe : probes'[q] = probes[q] \/ (probes'[q].stage = "sent" /\ probes'[q].gen = epoch')
    BY <2>4, <2>5
  <2>10. ProbesFit' BY <1>4, <2>1, <2>7, <2>8, <2>9
  <2> QED BY <1>3, <2>1, <2>8, <2>10, ObservationKeeps
<1>10. CASE HideWindow
  <2>1. /\ UNCHANGED <<displayed, queue, probes, learned, others, misses>> /\ confirmed' = Nothing
        /\ pauses' = pauses + 1 /\ observing' = FALSE /\ epoch' = epoch + 1
        /\ pollTimer' = FALSE /\ again' = FALSE /\ currentProbe' = NoProbe
    BY <1>10 DEF HideWindow
  <2>2. epoch \in Nat /\ epoch' \in Nat /\ epoch' >= epoch
    <3>1. epoch \in Nat BY <1>1 DEF Observing
    <3> QED BY <2>1, <3>1
  <2>3. Observing'
    <3>1. ProbesTyped' BY <1>1, <2>1 DEF Observing, ProbesTyped
    <3>2. observing' \in BOOLEAN /\ pollTimer' \in BOOLEAN /\ again' \in BOOLEAN BY <2>1
    <3> QED BY <2>1, <2>2, <3>1, <3>2 DEF Observing
  <2>4. ProbesFit' BY <1>4, <2>1, <2>2, <2>3
  <2> QED BY <1>2, <1>3, <2>1, <2>3, <2>4, ObservationKeeps
<1>11. ASSUME NEW r \in Probe, ProbeReads(r) PROVE ViewIInv'
  <2>1. /\ UNCHANGED <<displayed, queue, learned, others>>
        /\ UNCHANGED <<observing, epoch, pollTimer, again, currentProbe, confirmed, pauses, misses>>
        /\ probes[r].stage = "sent"
        /\ probes' = [probes EXCEPT ![r].stage = "answered", ![r].seen = showing]
    BY <1>11 DEF ProbeReads, viewBounds
  <2>2. /\ ProbesTyped'
        /\ probes'[r].seen = showing /\ probes'[r].gen = probes[r].gen
        /\ \A q \in Probe \ {r} : probes'[q] = probes[q]
    BY <1>1, <1>2, <2>1 DEF Observing, ProbesTyped
  <2>3. Observing' BY <1>1, <2>1, <2>2 DEF Observing
  <2>4. ProbesFit'
    <3>1. \A d \in Display : showing[d] >= learned[d] BY <1>2 DEF KnownHappened
    <3> QED BY <2>1, <2>2, <3>1 DEF ProbesFit
  <2>5. NotOutrun' BY <2>1 DEF NotOutrun
  <2> QED BY <1>2, <2>1, <2>3, <2>4, <2>5, ObservationKeeps
<1>12. ASSUME NEW r \in Probe, ProbeSucceeds(r) \/ ProbeFails(r) PROVE ViewIInv'
  <2>1. /\ UNCHANGED <<displayed, queue, learned, others>> /\ UNCHANGED <<observing, epoch>>
        /\ pauses' \in Nat /\ misses' \in Nat /\ ProbeEnds(r)
    BY <1>2, <1>12 DEF ProbeSucceeds, ProbeFails, viewBounds
  <2>2. /\ pollTimer' \in BOOLEAN /\ again' \in BOOLEAN /\ currentProbe' \in Probe \cup {NoProbe}
        /\ ProbesTyped'
        /\ \A q \in Probe : \/ probes'[q] = probes[q] \/ probes'[q].stage = "free"
                            \/ probes'[q].stage = "sent" /\ probes'[q].gen = epoch
    BY <1>1, <2>1, EndKeeps
  <2>3. Observing' BY <1>1, <2>1, <2>2 DEF Observing
  <2>4. epoch \in Nat BY <1>1 DEF Observing
  <2>5. ProbesFit' BY <1>4, <2>1, <2>2, <2>3, <2>4
  <2>6. confirmed' \in [Display -> SUBSET Nat] /\ NotOutrun'
    <3>1. CASE confirmed' = confirmed BY <1>2, <2>1, <3>1 DEF NotOutrun
    <3>2. CASE confirmed' = Nothing BY <1>3, <3>2
    <3>3. CASE /\ probes[r].stage = "answered" /\ Current(r)
               /\ \E ds \in SUBSET Display :
                     confirmed' = [d \in Display |-> IF d \in ds THEN {probes[r].seen[d]} ELSE {}]
      <4>1. \A d \in Display : probes[r].seen[d] \in Nat /\ probes[r].seen[d] >= learned[d]
        BY <1>1, <3>3 DEF ProbesFit, Current, Observing, ProbesTyped
      <4> QED BY <2>1, <3>3, <4>1 DEF NotOutrun
    <3> QED BY <1>12, <3>1, <3>2, <3>3 DEF ProbeSucceeds, ProbeFails
  <2> QED BY <2>1, <2>3, <2>5, <2>6, ObservationKeeps
<1> QED BY <1>5, <1>6, <1>7, <1>8, <1>9, <1>10, <1>11, <1>12 DEF RuntimeViewNext

\* It holds in every reachable state.
LEMMA ViewInvariant == RuntimeViewSpec => []ViewIInv
<1>1. ViewIInv /\ [RuntimeViewNext]_runtimeVars => ViewIInv'
  <2>1. CASE UNCHANGED runtimeVars
    BY <2>1 DEF ViewIInv, RuntimeViewTypeOK, KnownHappened, ProbesFit, NotOutrun, runtimeVars, displayed,
                queue, observation, viewBounds
  <2> QED BY <2>1, ViewStep
<1> QED BY <1>1, ViewStart, PTL DEF RuntimeViewSpec

\* The view keeps its types; the numbers of probes and of orders only grow.
THEOREM ViewTypesCorrect == RuntimeViewSpec => []RuntimeViewTypeOK
<1>1. ViewIInv => RuntimeViewTypeOK BY DEF ViewIInv
<1> QED BY <1>1, ViewInvariant, PTL

\* For any number of displays, Applies and observations: no observation of before the end of
\* an Apply is shown after it.
THEOREM NeverOutrun == RuntimeViewSpec => []NotOutrun
<1>1. ViewIInv => NotOutrun BY DEF ViewIInv
<1> QED BY <1>1, ViewInvariant, PTL
-----------------------------------------------------------------------------
(* The list.                                                               *)

Load == [id : Nat, append : BOOLEAN, q : Criteria, from : SUBSET Cursor,
         answer : {"sent", "page", "changed", "failed"}, rev : Nat]
Total == [id : Nat, q : Criteria, rev : Nat]

PagesTyped ==
    /\ libraryRevision \in Nat /\ criteria \in Criteria
    /\ entries \in Seq(PageOf) /\ revisionRef \subseteq Nat
    /\ nextCursor \subseteq Cursor /\ renderedCursor \subseteq Cursor
    /\ requestSeq \in Nat /\ loads \subseteq Load
    /\ totals \subseteq Total /\ totalSeq \in Nat

\* The pages of the list are of one query, at one revision.
PagesAlike ==
    \A i, j \in DOMAIN entries : entries[i].q = entries[j].q /\ entries[i].rev = entries[j].rev
PagesResolved == \A i \in DOMAIN entries : resolved = {entries[i].q}

\* A list whose revision is known is that of the query of the window.
ListKnown ==
    \A r \in revisionRef :
       /\ revisionRef = {r} /\ entries # <<>>
       /\ \A i \in DOMAIN entries : entries[i].rev = r /\ entries[i].q = criteria

\* Only of such a list is there a next page, or a number.
OfKnownList ==
    /\ \A c \in nextCursor : c.rev \in revisionRef
    /\ renderedCursor # {} => revisionRef # {}
    /\ \A t \in exactTotal : t.q = criteria /\ t.rev \in revisionRef

\* The last load is of the query of the window, and extends nothing but such a list.
LoadsFit ==
    \A l \in loads :
       /\ l.id <= requestSeq
       /\ l.id = requestSeq => l.q = criteria /\ (l.append => revisionRef # {})

\* So is the last count.
TotalsFit == \A t \in totals : t.id <= totalSeq /\ (t.id = totalSeq => t.q = criteria)

PagedIInv ==
    PagesTyped /\ PagesAlike /\ PagesResolved /\ ListKnown /\ OfKnownList /\ LoadsFit /\ TotalsFit

LEMMA SnapshotOne == PagedIInv => OneSnapshot
<1> SUFFICES ASSUME PagedIInv PROVE OneSnapshot OBVIOUS
<1> USE DEF PagedIInv
<1>1. \A i, j \in DOMAIN entries : entries[i].q = entries[j].q /\ entries[i].rev = entries[j].rev
  BY DEF PagesAlike
<1>2. ASSUME NEW i \in DOMAIN entries
      PROVE  /\ resolved = {entries[i].q}
             /\ \A c \in nextCursor : c.rev = entries[i].rev
             /\ \A t \in exactTotal : t.q = entries[i].q /\ t.rev = entries[i].rev
  BY DEF PagesResolved, ListKnown, OfKnownList
<1> QED BY <1>1, <1>2 DEF OneSnapshot

LEMMA PagedStart == PagedInit => PagedIInv
<1> SUFFICES ASSUME PagedInit PROVE PagedIInv OBVIOUS
<1>1. DOMAIN entries = {} /\ entries \in Seq(PageOf) /\ revisionRef = {} /\ nextCursor = {}
      /\ renderedCursor = {} /\ exactTotal = {} /\ totals = {} /\ libraryRevision = 0 /\ criteria \in Criteria
      /\ requestSeq = 1 /\ totalSeq = 0
      /\ loads = {[id |-> 1, append |-> FALSE, q |-> criteria, from |-> {}, answer |-> "sent", rev |-> 0]}
  BY DEF PagedInit
<1>2. loads \subseteq Load BY <1>1 DEF Load
<1>3. PagesTyped BY <1>1, <1>2 DEF PagesTyped
<1>4. LoadsFit BY <1>1 DEF LoadsFit
<1> QED BY <1>1, <1>3, <1>4 DEF PagedIInv, PagesAlike, PagesResolved, ListKnown, OfKnownList, TotalsFit

\* A load that replaces the list is asked for, while the rest of them are under way.
LEMMA ReplaceKeeps ==
    ASSUME PagesTyped, LoadsFit, NEW q \in Criteria, NEW rest, rest \subseteq loads, Replace(q, rest)
    PROVE  /\ requestSeq' \in Nat /\ loads' \subseteq Load
           /\ \A l \in loads' : l.id <= requestSeq' /\ (l.id = requestSeq' => l.q = q /\ ~l.append)
<1> DEFINE new == [id |-> requestSeq + 1, append |-> FALSE, q |-> q, from |-> {}, answer |-> "sent", rev |-> 0]
<1>1. requestSeq \in Nat /\ requestSeq' = requestSeq + 1 /\ loads' = rest \cup {new}
  BY DEF Replace, PagesTyped
<1>2. new \in Load BY <1>1 DEF Load
<1>3. new.id = requestSeq + 1 /\ new.q = q /\ new.append = FALSE OBVIOUS
<1> HIDE DEF new
<1>4. \A l \in rest : l \in Load /\ l.id \in Nat /\ l.id <= requestSeq BY DEF LoadsFit, PagesTyped, Load
<1> QED BY <1>1, <1>2, <1>3, <1>4

\* What is under way and does not count says nothing of the list: the steps that leave the list
\* and the query alone.
ListLeft == UNCHANGED <<criteria, entries, revisionRef, nextCursor, resolved>>

LEMMA ListLeftKeeps ==
    ASSUME PagedIInv, ListLeft
    PROVE  /\ PagesAlike' /\ PagesResolved' /\ ListKnown'
           /\ UNCHANGED <<renderedCursor, exactTotal>> => OfKnownList'
           /\ UNCHANGED <<totals, totalSeq>> => TotalsFit'
<1> USE DEF PagedIInv, ListLeft
<1>1. PagesAlike' BY DEF PagesAlike
<1>2. PagesResolved' BY DEF PagesResolved
<1>3. ListKnown' BY DEF ListKnown
<1>4. UNCHANGED <<renderedCursor, exactTotal>> => OfKnownList' BY DEF OfKnownList
<1>5. UNCHANGED <<totals, totalSeq>> => TotalsFit' BY DEF TotalsFit
<1> QED BY <1>1, <1>2, <1>3, <1>4, <1>5
\* An answer comes; whose it is does not change.
LEMMA AnswerKeeps ==
    ASSUME PagedIInv, NEW l \in loads, PageAnswered(l) \/ PageFails(l)
    PROVE  PagedIInv'
<1> USE DEF PagedIInv
<1>1. /\ UNCHANGED <<libraryRevision, criteria, entries, revisionRef, nextCursor, requestSeq, resolved>>
      /\ UNCHANGED <<renderedCursor, totals, totalSeq, exactTotal>>
  BY DEF PageAnswered, PageFails, counting
<1>2. l \in Load BY DEF PagesTyped
<1>3. \E a \in Load : a.id = l.id /\ a.q = l.q /\ a.append = l.append /\ loads' = (loads \ {l}) \cup {a}
  <2>1. ASSUME NEW word \in {"page", "changed", "failed"}, NEW r \in Nat,
               loads' = (loads \ {l}) \cup {[l EXCEPT !.answer = word, !.rev = r]}
        PROVE  <1>3!:
    <3>1. [l EXCEPT !.answer = word, !.rev = r] \in Load BY <1>2 DEF Load
    <3> WITNESS [l EXCEPT !.answer = word, !.rev = r] \in Load
    <3> QED BY <1>2, <2>1 DEF Load
  <2>2. CASE PageAnswered(l)
    <3>1. PICK r \in 0 .. libraryRevision :
             LET gone == \E c \in l.from : c.rev # r IN
             loads' = (loads \ {l}) \cup {[l EXCEPT !.answer = IF gone THEN "changed" ELSE "page", !.rev = r]}
      BY <2>2 DEF PageAnswered
    <3>2. r \in Nat BY DEF PagesTyped
    <3>3. CASE \E c \in l.from : c.rev # r
      <4>1. loads' = (loads \ {l}) \cup {[l EXCEPT !.answer = "changed", !.rev = r]} BY <3>1, <3>3
      <4> QED BY <2>1, <3>2, <4>1
    <3>4. CASE ~\E c \in l.from : c.rev # r
      <4>1. loads' = (loads \ {l}) \cup {[l EXCEPT !.answer = "page", !.rev = r]} BY <3>1, <3>4
      <4> QED BY <2>1, <3>2, <4>1
    <3> QED BY <3>3, <3>4
  <2>3. CASE PageFails(l)
    <3>1. loads' = (loads \ {l}) \cup {[l EXCEPT !.answer = "failed"]} BY <2>3 DEF PageFails
    <3>2. [l EXCEPT !.answer = "failed"] \in Load BY <1>2 DEF Load
    <3> WITNESS [l EXCEPT !.answer = "failed"] \in Load
    <3> QED BY <1>2, <3>1 DEF Load
  <2> QED BY <2>2, <2>3
<1>4. PagesTyped' BY <1>1, <1>3 DEF PagesTyped
<1>5. LoadsFit' BY <1>1, <1>3 DEF LoadsFit
<1> QED BY <1>1, <1>4, <1>5, ListLeftKeeps DEF ListLeft

\* Another load is asked for, or one ends without a page; the list stays.
LEMMA LoadKeeps ==
    ASSUME PagedIInv,
           \/ Reload \/ LoadMore
           \/ \E l \in loads : RevisionGone(l) \/ LoadFailed(l) \/ LoadIgnored(l)
    PROVE  PagedIInv'
<1> USE DEF PagedIInv
<1>1. ListLeft /\ UNCHANGED <<libraryRevision, renderedCursor, totals, totalSeq, exactTotal>>
  BY DEF Reload, LoadMore, RevisionGone, LoadFailed, LoadIgnored, counting, ListLeft
<1>2. criteria \in Criteria BY DEF PagesTyped
<1>3. requestSeq' \in Nat /\ loads' \subseteq Load /\ LoadsFit'
  <2>1. CASE Reload
    <3>1. Replace(criteria, loads) BY <2>1 DEF Reload
    <3> QED BY <1>1, <1>2, <3>1, ReplaceKeeps DEF LoadsFit, ListLeft
  <2>2. CASE LoadMore
    <3> DEFINE new == [id |-> requestSeq + 1, append |-> TRUE, q |-> criteria, from |-> renderedCursor,
                       answer |-> "sent", rev |-> 0]
    <3>1. /\ requestSeq' = requestSeq + 1 /\ loads' = loads \cup {new} /\ renderedCursor # {}
      BY <2>2 DEF LoadMore
    <3>2. requestSeq \in Nat /\ renderedCursor \subseteq Cursor /\ loads \subseteq Load BY DEF PagesTyped
    <3>3. new \in Load BY <1>2, <3>2 DEF Load
    <3>4. new.id = requestSeq + 1 /\ new.q = criteria OBVIOUS
    <3> HIDE DEF new
    <3>5. revisionRef # {} BY <3>1 DEF OfKnownList
    <3>6. \A l \in loads : l.id \in Nat /\ l.id <= requestSeq BY <3>2 DEF LoadsFit, Load
    <3> QED BY <1>1, <3>1, <3>2, <3>3, <3>4, <3>5, <3>6 DEF LoadsFit, ListLeft
  <2>3. ASSUME NEW l \in loads, RevisionGone(l) PROVE <1>3!:
    <3>1. Replace(l.q, loads \ {l}) /\ l.id = requestSeq BY <2>3 DEF RevisionGone, IsCurrent
    <3>2. l.q = criteria BY <3>1 DEF LoadsFit
    <3> QED BY <1>1, <1>2, <3>1, <3>2, ReplaceKeeps DEF LoadsFit, ListLeft
  <2>4. ASSUME NEW l \in loads, LoadFailed(l) \/ LoadIgnored(l) PROVE <1>3!:
    <3>1. loads' = loads \ {l} /\ requestSeq' = requestSeq BY <2>4 DEF LoadFailed, LoadIgnored
    <3> QED BY <1>1, <3>1 DEF LoadsFit, ListLeft, PagesTyped
  <2> QED BY <2>1, <2>2, <2>3, <2>4
<1>4. PagesTyped' BY <1>1, <1>3 DEF PagesTyped, ListLeft
<1> QED BY <1>1, <1>3, <1>4, ListLeftKeeps

\* Another query: nothing is known of the list any more, and it stays.
LEMMA SwitchKeeps == ASSUME PagedIInv, NEW q \in Criteria, SwitchCriteria(q) PROVE PagedIInv'
<1> USE DEF PagedIInv
<1>1. /\ Replace(q, loads) /\ criteria' = q /\ revisionRef' = {} /\ nextCursor' = {} /\ renderedCursor' = {}
      /\ totalSeq' = totalSeq + 1 /\ exactTotal' = {}
      /\ UNCHANGED <<libraryRevision, entries, resolved, totals>>
  BY DEF SwitchCriteria
<1>2. /\ requestSeq' \in Nat /\ loads' \subseteq Load
      /\ \A l \in loads' : l.id <= requestSeq' /\ (l.id = requestSeq' => l.q = q /\ ~l.append)
  BY <1>1, ReplaceKeeps
<1>3. totalSeq \in Nat /\ totals \subseteq Total BY DEF PagesTyped
<1>4. PagesTyped' BY <1>1, <1>2, <1>3 DEF PagesTyped
<1>5. PagesAlike' /\ PagesResolved' BY <1>1 DEF PagesAlike, PagesResolved
<1>6. ListKnown' /\ OfKnownList' BY <1>1 DEF ListKnown, OfKnownList
<1>7. LoadsFit' BY <1>1, <1>2 DEF LoadsFit
<1>8. \A t \in totals : t.id \in Nat /\ t.id <= totalSeq BY <1>3 DEF TotalsFit, Total
<1>9. TotalsFit' BY <1>1, <1>3, <1>8 DEF TotalsFit
<1> QED BY <1>4, <1>5, <1>6, <1>7, <1>9
\* A page comes that counts.
LEMMA ArriveKeeps == ASSUME PagedIInv, NEW l \in loads, PageArrives(l) PROVE PagedIInv'
<1> USE DEF PagedIInv
<1> DEFINE page == [q |-> l.q, rev |-> l.rev, n |-> First(l)]
<1>1. l \in Load /\ l.q = criteria /\ l.rev \in Nat /\ l.q \in Criteria
  BY DEF PagesTyped, Load, PageArrives, IsCurrent, LoadsFit
<1>2. First(l) \in Nat
  <2>1. CASE l.from = {} BY <2>1 DEF First
  <2>2. CASE l.from # {}
    <3>1. (CHOOSE c \in l.from : TRUE) \in Cursor BY <1>1, <2>2 DEF Load
    <3> QED BY <2>2, <3>1 DEF First, Cursor
  <2> QED BY <2>1, <2>2
<1>3. page \in PageOf /\ page.q = criteria /\ page.rev = l.rev /\ page.n \in Nat BY <1>1, <1>2 DEF PageOf
<1>4. /\ entries' = IF l.append THEN Append(entries, page) ELSE <<page>>
      /\ nextCursor' = IF page.n < PageCount THEN {[rev |-> l.rev, after |-> page.n]} ELSE {}
      /\ revisionRef' = {l.rev} /\ resolved' = {l.q}
      /\ loads' = loads \ {l}
      /\ UNCHANGED <<libraryRevision, criteria, requestSeq, renderedCursor>>
      /\ exactTotal' = exactTotal \/ exactTotal' = {}
      /\ l.append => revisionRef = {l.rev}
      /\ revisionRef \subseteq {l.rev} \/ exactTotal' = {}
  <2>1. l.append => revisionRef = {l.rev}
    BY DEF PageArrives, IsCurrent, LoadsFit
  <2> QED BY <2>1 DEF PageArrives, ForgetTotal
<1> HIDE DEF page
<1>5. /\ entries' \in Seq(PageOf) /\ DOMAIN entries' # {}
      /\ \A i \in DOMAIN entries' : entries'[i].q = criteria /\ entries'[i].rev = l.rev
  <2>1. entries \in Seq(PageOf) BY DEF PagesTyped
  <2>2. CASE l.append
    <3>1. entries' = Append(entries, page) BY <1>4, <2>2
    <3>2. entries' \in Seq(PageOf) /\ DOMAIN entries' = 1 .. Len(entries) + 1 /\ Len(entries) \in Nat
      BY <1>3, <2>1, <3>1
    <3>3. \A i \in 1 .. Len(entries) + 1 :
             (i \in DOMAIN entries /\ entries'[i] = entries[i]) \/ entries'[i] = page
      BY <1>3, <2>1, <3>1
    <3>4. \A i \in DOMAIN entries : entries[i].q = criteria /\ entries[i].rev = l.rev
      BY <1>4, <2>2 DEF ListKnown
    <3> QED BY <1>3, <3>2, <3>3, <3>4
  <2>3. CASE ~l.append
    <3>1. entries' = <<page>> BY <1>4, <2>3
    <3> QED BY <1>3, <3>1
  <2> QED BY <2>2, <2>3
<1>6. /\ totalSeq' \in Nat /\ totals' \subseteq Total /\ TotalsFit'
  <2>1. totalSeq \in Nat /\ totals \subseteq Total BY DEF PagesTyped
  <2>2. \A t \in totals : t.id \in Nat /\ t.id <= totalSeq BY <2>1 DEF TotalsFit, Total
  <2>3. CASE UNCHANGED <<totals, totalSeq>> BY <1>4, <2>1, <2>3 DEF TotalsFit
  <2>4. CASE totalSeq' = totalSeq + 1 /\ totals' = totals \cup {[id |-> totalSeq + 1, q |-> l.q, rev |-> l.rev]}
    <3> DEFINE new == [id |-> totalSeq + 1, q |-> l.q, rev |-> l.rev]
    <3>1. new \in Total /\ new.id = totalSeq + 1 /\ new.q = criteria BY <1>1, <2>1 DEF Total
    <3> HIDE DEF new
    <3> QED BY <1>4, <2>1, <2>2, <2>4, <3>1 DEF TotalsFit, new
  <2> QED BY <2>3, <2>4 DEF PageArrives, Count
<1>7. nextCursor' \subseteq Cursor /\ \A c \in nextCursor' : c.rev = l.rev
  BY <1>1, <1>3, <1>4 DEF Cursor
<1>8. PagesTyped' BY <1>1, <1>4, <1>5, <1>6, <1>7 DEF PagesTyped
<1>9. PagesAlike' /\ PagesResolved' BY <1>1, <1>4, <1>5 DEF PagesAlike, PagesResolved
<1>10. ListKnown'
  <2>1. entries' # <<>> BY <1>5
  <2> QED BY <1>4, <1>5, <2>1 DEF ListKnown
<1>11. OfKnownList'
  <2>1. \A t \in exactTotal' : t.q = criteria /\ t.rev = l.rev
    BY <1>4 DEF OfKnownList
  <2> QED BY <1>4, <1>7, <2>1 DEF OfKnownList
<1>12. LoadsFit' BY <1>4 DEF LoadsFit
<1> QED BY <1>6, <1>8, <1>9, <1>10, <1>11, <1>12

\* A count ends; its number is shown if it is that of the list.
LEMMA TotalKeeps ==
    ASSUME PagedIInv, NEW t \in totals, TotalArrives(t) \/ TotalFails(t)
    PROVE  PagedIInv'
<1> USE DEF PagedIInv
<1>1. /\ ListLeft /\ UNCHANGED <<libraryRevision, requestSeq, loads, renderedCursor, totalSeq>>
      /\ totals' = totals \ {t}
      /\ \/ exactTotal' = exactTotal
         \/ exactTotal' = {[q |-> t.q, rev |-> t.rev]} /\ t.id = totalSeq /\ revisionRef = {t.rev}
  BY DEF TotalArrives, TotalFails, ListLeft, paging
<1>2. PagesTyped' BY <1>1 DEF PagesTyped, ListLeft
<1>3. LoadsFit' /\ TotalsFit' BY <1>1 DEF LoadsFit, TotalsFit, ListLeft
<1>4. OfKnownList'
  <2>1. CASE exactTotal' = exactTotal BY <1>1, <2>1 DEF OfKnownList, ListLeft
  <2>2. CASE exactTotal' = {[q |-> t.q, rev |-> t.rev]} /\ t.id = totalSeq /\ revisionRef = {t.rev}
    <3>1. t.q = criteria BY <2>2 DEF TotalsFit
    <3> QED BY <1>1, <2>2, <3>1 DEF OfKnownList, ListLeft
  <2> QED BY <1>1, <2>1, <2>2
<1> QED BY <1>1, <1>2, <1>3, <1>4, ListLeftKeeps

LEMMA PagedStep == PagedIInv /\ PagedNext => PagedIInv'
<1> SUFFICES ASSUME PagedIInv, PagedNext PROVE PagedIInv' OBVIOUS
<1> USE DEF PagedIInv
<1>1. CASE LibraryCommits \/ Render
  <2>1. /\ ListLeft /\ UNCHANGED <<requestSeq, loads, totals, totalSeq, exactTotal>>
        /\ libraryRevision' \in Nat /\ (renderedCursor' = renderedCursor \/ renderedCursor' = nextCursor)
    BY <1>1 DEF LibraryCommits, Render, ListLeft, paging, counting, PagesTyped
  <2>2. PagesTyped' BY <2>1 DEF PagesTyped, ListLeft
  <2>3. LoadsFit' BY <2>1 DEF LoadsFit, ListLeft
  <2>4. OfKnownList' BY <2>1 DEF OfKnownList, ListLeft
  <2> QED BY <2>1, <2>2, <2>3, <2>4, ListLeftKeeps
<1> QED BY <1>1, AnswerKeeps, LoadKeeps, SwitchKeeps, ArriveKeeps, TotalKeeps DEF PagedNext

\* It holds in every reachable state.
LEMMA PagedInvariant == PagedSpec => []PagedIInv
<1>1. PagedIInv /\ [PagedNext]_pagedVars => PagedIInv'
  <2>1. CASE UNCHANGED pagedVars
    BY <2>1 DEF PagedIInv, PagesTyped, PagesAlike, PagesResolved, ListKnown, OfKnownList, LoadsFit, TotalsFit,
                pagedVars, paging, counting
  <2> QED BY <2>1, PagedStep
<1> QED BY <1>1, PagedStart, PTL DEF PagedSpec

\* For any number of queries, pages, revisions and loads: the list and its number are of one
\* query at one revision.
THEOREM NeverMixed == PagedSpec => []OneSnapshot
BY PagedInvariant, SnapshotOne, PTL

\* The numbers of the loads: the one that is to replace the list is the last one.
PagesCounted ==
    /\ libraryRevision \in 0 .. MaxRevisions /\ switches \in 0 .. MaxSwitches
    /\ requestSeq \in 1 .. MaxLoads /\ replacement \subseteq {requestSeq}
    /\ appendInFlight \in BOOLEAN /\ resolved \subseteq Criteria
    /\ \A l \in loads : l.id # 0

\* A load that replaces the list is the last one.
LEMMA ReplaceCounts ==
    ASSUME PagesCounted, NEW q, NEW rest, rest \subseteq loads, Replace(q, rest)
    PROVE  /\ requestSeq' \in 1 .. MaxLoads /\ replacement' = {requestSeq'}
           /\ \A l \in loads' : l.id # 0
<1> DEFINE new == [id |-> requestSeq + 1, append |-> FALSE, q |-> q, from |-> {}, answer |-> "sent", rev |-> 0]
<1>1. /\ requestSeq < MaxLoads /\ requestSeq' = requestSeq + 1 /\ replacement' = {requestSeq + 1}
      /\ loads' = rest \cup {new}
  BY DEF Replace
<1>2. requestSeq \in Nat /\ MaxLoads \in Nat BY PagedBounds DEF PagesCounted
<1>3. new.id # 0 BY <1>2
<1> HIDE DEF new
<1> QED BY <1>1, <1>2, <1>3 DEF PagesCounted

\* Every step of the list keeps these numbers.
LEMMA CountedStep == ASSUME PagedIInv, PagesCounted, PagedNext PROVE PagesCounted'
<1>0. PagesTyped BY DEF PagedIInv
<1>1. ASSUME NEW l \in loads, PageAnswered(l) \/ PageFails(l) PROVE PagesCounted'
  <2>1. UNCHANGED <<libraryRevision, requestSeq, appendInFlight, replacement, resolved, switches>>
    BY <1>1 DEF PageAnswered, PageFails
  <2>2. l \in Load BY <1>0 DEF PagesTyped
  <2>3. \A k \in loads' : k \in loads \/ k.id = l.id
    <3>1. ASSUME NEW word, NEW r PROVE [l EXCEPT !.answer = word, !.rev = r].id = l.id BY <2>2 DEF Load
    <3>2. ASSUME NEW word PROVE [l EXCEPT !.answer = word].id = l.id BY <2>2 DEF Load
    <3>3. CASE PageAnswered(l)
      <4>1. PICK r \in 0 .. libraryRevision :
               LET gone == \E c \in l.from : c.rev # r IN
               loads' = (loads \ {l}) \cup {[l EXCEPT !.answer = IF gone THEN "changed" ELSE "page", !.rev = r]}
        BY <3>3 DEF PageAnswered
      <4> DEFINE word == IF \E c \in l.from : c.rev # r THEN "changed" ELSE "page"
      <4>2. loads' = (loads \ {l}) \cup {[l EXCEPT !.answer = word, !.rev = r]} BY <4>1
      <4> HIDE DEF word
      <4> QED BY <3>1, <4>2
    <3>4. CASE PageFails(l)
      <4>1. loads' = (loads \ {l}) \cup {[l EXCEPT !.answer = "failed"]} BY <3>4 DEF PageFails
      <4> QED BY <3>2, <4>1
    <3> QED BY <1>1, <3>3, <3>4
  <2> QED BY <2>1, <2>3 DEF PagesCounted
<1>2. ASSUME NEW l \in loads, PageArrives(l) \/ LoadFailed(l) \/ LoadIgnored(l) PROVE PagesCounted'
  <2>1. UNCHANGED <<libraryRevision, requestSeq, switches>> /\ loads' \subseteq loads
    BY <1>2 DEF PageArrives, LoadFailed, LoadIgnored
  <2>2. appendInFlight' \in BOOLEAN /\ replacement' \subseteq replacement
    BY <1>2 DEF PageArrives, LoadFailed, LoadIgnored, Settle, PagesCounted
  <2>3. resolved' = resolved \/ resolved' = {l.q} BY <1>2 DEF PageArrives, LoadFailed, LoadIgnored
  <2>4. l.q \in Criteria BY <1>0 DEF PagesTyped, Load
  <2> QED BY <2>1, <2>2, <2>3, <2>4 DEF PagesCounted
<1>3. CASE Reload
  <2>1. Replace(criteria, loads) /\ UNCHANGED <<libraryRevision, appendInFlight, resolved, switches>>
    BY <1>3 DEF Reload
  <2> QED BY <2>1, ReplaceCounts DEF PagesCounted
<1>4. ASSUME NEW q \in Criteria, SwitchCriteria(q) PROVE PagesCounted'
  <2>1. Replace(q, loads) /\ UNCHANGED <<libraryRevision, appendInFlight, resolved>> BY <1>4 DEF SwitchCriteria
  <2>2. switches' \in 0 .. MaxSwitches BY <1>4, PagedBounds DEF SwitchCriteria, PagesCounted
  <2> QED BY <2>1, <2>2, ReplaceCounts DEF PagesCounted
<1>5. ASSUME NEW l \in loads, RevisionGone(l) PROVE PagesCounted'
  <2>1. Replace(l.q, loads \ {l}) /\ appendInFlight' = FALSE /\ UNCHANGED <<libraryRevision, resolved, switches>>
    BY <1>5 DEF RevisionGone
  <2> QED BY <2>1, ReplaceCounts DEF PagesCounted
<1>6. CASE LoadMore
  <2> DEFINE new == [id |-> requestSeq + 1, append |-> TRUE, q |-> criteria, from |-> renderedCursor,
                     answer |-> "sent", rev |-> 0]
  <2>1. /\ requestSeq < MaxLoads /\ requestSeq' = requestSeq + 1 /\ loads' = loads \cup {new}
        /\ appendInFlight' = TRUE /\ replacement = {} /\ replacement' = {}
        /\ UNCHANGED <<libraryRevision, resolved, switches>>
    BY <1>6 DEF LoadMore
  <2>2. requestSeq \in Nat /\ MaxLoads \in Nat BY PagedBounds DEF PagesCounted
  <2>3. new.id # 0 BY <2>2
  <2> HIDE DEF new
  <2> QED BY <2>1, <2>2, <2>3 DEF PagesCounted
<1>7. CASE LibraryCommits \/ Render \/ \E t \in totals : TotalArrives(t) \/ TotalFails(t)
  <2>1. UNCHANGED <<requestSeq, appendInFlight, replacement, resolved, loads, switches>>
    BY <1>7 DEF LibraryCommits, Render, TotalArrives, TotalFails, paging
  <2>2. libraryRevision' \in 0 .. MaxRevisions
    BY <1>7, PagedBounds DEF LibraryCommits, Render, TotalArrives, TotalFails, PagesCounted
  <2> QED BY <2>1, <2>2 DEF PagesCounted
<1> QED BY <1>1, <1>2, <1>3, <1>4, <1>5, <1>6, <1>7 DEF PagedNext

\* The list keeps its types, and the load that is to replace it is always the last one that was
\* asked for.
THEOREM PagedTypesCorrect == PagedSpec => []PagedTypeOK
<1>1. PagedInit => PagesCounted
  <2> SUFFICES ASSUME PagedInit PROVE PagesCounted OBVIOUS
  <2>1. \A l \in loads : l.id # 0
    <3>1. [id |-> 1, append |-> FALSE, q |-> criteria, from |-> {}, answer |-> "sent", rev |-> 0].id = 1
      OBVIOUS
    <3> QED BY <3>1 DEF PagedInit
  <2>2. /\ libraryRevision = 0 /\ switches = 0 /\ requestSeq = 1 /\ replacement = {1}
        /\ appendInFlight = FALSE /\ resolved = {}
    BY DEF PagedInit
  <2>3. MaxRevisions \in Nat /\ MaxSwitches \in Nat /\ MaxLoads \in Nat /\ 1 <= MaxLoads BY PagedBounds
  <2>4. 0 \in 0 .. MaxRevisions /\ 0 \in 0 .. MaxSwitches /\ 1 \in 1 .. MaxLoads BY <2>3
  <2> QED BY <2>1, <2>2, <2>4 DEF PagesCounted
<1>2. PagedIInv /\ PagesCounted /\ [PagedNext]_pagedVars => PagesCounted'
  <2>1. CASE UNCHANGED pagedVars BY <2>1 DEF PagesCounted, pagedVars, paging
  <2> QED BY <2>1, CountedStep
<1>3. PagedIInv /\ PagesCounted => PagedTypeOK
  <2> SUFFICES ASSUME PagedIInv, PagesCounted PROVE PagedTypeOK OBVIOUS
  <2>1. \A l \in loads : l.id \in 1 .. requestSeq /\ l.q \in Criteria
    BY DEF PagedIInv, PagesTyped, LoadsFit, Load, PagesCounted
  <2> QED BY <2>1 DEF PagedIInv, PagesTyped, PagesCounted, PagedTypeOK
<1> QED BY <1>1, <1>2, <1>3, PagedInvariant, PTL DEF PagedSpec

-----------------------------------------------------------------------------
(* The watcher of the displays.                                            *)

\* Wallpapers are numbered as the user chooses them: the next one is new everywhere.
PicsFit ==
    /\ saved \in [Connector -> 0 .. orders + 1] /\ template \in 1 .. orders + 1
    /\ \A c \in Connector : {recovery.armed[c], recovery.pending[c], recovery.retries[c].pic} \subseteq 0 .. orders + 1

\* A monitor is at one connector.
PlugsApart ==
    \A c, d \in Connector : c # d => /\ plugged[c] \cap plugged[d] = {}
                                     /\ recovery.seen[c] \cap recovery.seen[d] = {}

\* The intents have a last one.
EpochsOrdered ==
    \E e \in {0} \cup {i.epoch : i \in UNION {intents[c] : c \in Connector}} :
        \A c \in Connector : \A i \in intents[c] : i.epoch <= e

\* The wallpaper x is still to be at c.
Live(c, x) == x # 0 /\ x = SavedFor(c) /\ ~IsStopped(c)
Sighted(c, x) == [at |-> c, pic |-> x] \in claim

\* What the watcher remembers of an output, and the user has not overtaken, it has seen there.
MemoryClaimed ==
    \A c \in Connector : \A x \in {recovery.armed[c], recovery.pending[c], recovery.retries[c].pic} :
        Live(c, x) => Sighted(c, x)

RecoveryIInv == RecoveryTypeOK /\ PicsFit /\ PlugsApart /\ EpochsOrdered /\ MemoryClaimed

LEMMA FreshTyped == Fresh \in Memory /\ Ended \in Memory
<1>1. 0 \in OrNone /\ 0 \in 0 .. Attempts /\ 0 \in 0 .. SnapshotLimit - 1 BY RecoveryBounds DEF OrNone
<1>2. /\ [c \in Connector |-> NoRetry] \in [Connector -> [pic : OrNone, attempt : 0 .. Attempts, due : BOOLEAN]]
      /\ Nowhere \in [Connector -> OrNone]
  BY <1>1 DEF NoRetry, Nowhere
<1>3. Fresh \in Memory BY <1>1, <1>2 DEF Fresh, Memory
<1>4. Ended \in Memory BY <1>3 DEF Ended, Memory
<1> QED BY <1>3, <1>4

\* A watcher that has just started remembers nothing.
Blank(r) == \A c \in Connector : r.armed[c] = 0 /\ r.pending[c] = 0 /\ r.retries[c].pic = 0 /\ r.seen[c] = {}

LEMMA FreshBlank == Blank(Fresh) /\ Blank(Ended)
BY DEF Blank, Fresh, Ended, NoRetry, Nowhere

LEMMA RecoveryStart == RecoveryInit => RecoveryIInv
<1> SUFFICES ASSUME RecoveryInit PROVE RecoveryIInv OBVIOUS
<1> USE DEF RecoveryInit
<1>1. RecoveryTypeOK
  <2>1. rendered \in [Connector -> OrNone] /\ saved \in [Connector -> OrNone] /\ template \in Wallpaper
    BY RecoveryBounds DEF OrNone, Wallpaper, Nowhere
  <2>2. plugged \in [Connector -> SUBSET Monitor] /\ \A c \in Connector : \A m, n \in plugged[c] : m = n
    <3>1. \A c \in Connector : plugged[c] = {} \/ \E m \in Monitor : plugged[c] = {m} OBVIOUS
    <3> QED BY <3>1
  <2>3. promised \in [Connector -> OrNone] BY RecoveryBounds DEF OrNone, Nowhere
  <2> QED BY <2>1, <2>2, <2>3, FreshTyped, RecoveryBounds DEF RecoveryTypeOK
<1>2. PicsFit BY FreshBlank, RecoveryBounds DEF PicsFit, Blank, Nowhere
<1>3. PlugsApart BY FreshBlank DEF PlugsApart, Blank
<1>4. EpochsOrdered BY DEF EpochsOrdered
<1>5. MemoryClaimed BY FreshBlank DEF MemoryClaimed, Blank, Live
<1> QED BY <1>1, <1>2, <1>3, <1>4, <1>5 DEF RecoveryIInv

-----------------------------------------------------------------------------
(* Intents.                                                                *)

\* New intents come after all others.
LEMMA IntentsKept ==
    ASSUME RecoveryIInv, NEW cs, NEW off \in BOOLEAN, intents' = WithIntents(cs, off)
    PROVE  /\ intents' \in [Connector -> SUBSET [epoch : Nat, stopped : BOOLEAN]]
           /\ \A c \in Connector : \A i, j \in intents'[c] : i = j
           /\ EpochsOrdered'
           /\ \A c \in Connector : IF c \in cs THEN IsStopped(c)' = off
                                   ELSE intents'[c] = intents[c] /\ IsStopped(c)' = IsStopped(c)
<1> DEFINE used == {0} \cup {i.epoch : i \in UNION {intents[c] : c \in Connector}}
<1>1. /\ intents \in [Connector -> SUBSET [epoch : Nat, stopped : BOOLEAN]]
      /\ \A c \in Connector : \A i, j \in intents[c] : i = j
      /\ EpochsOrdered
  BY DEF RecoveryIInv, RecoveryTypeOK
<1>2. used \subseteq Nat BY <1>1
<1>3. \E e \in used : \A f \in used : f <= e
  <2>1. PICK e \in used : \A c \in Connector : \A i \in intents[c] : i.epoch <= e BY <1>1 DEF EpochsOrdered
  <2> QED BY <1>2, <2>1
<1>4. LastEpoch \in used /\ \A f \in used : f <= LastEpoch BY <1>3 DEF LastEpoch
<1>5. LastEpoch \in Nat BY <1>2, <1>4
<1> HIDE DEF used
<1> DEFINE new == [epoch |-> LastEpoch + 1, stopped |-> off]
<1>6. new \in [epoch : Nat, stopped : BOOLEAN] /\ new.epoch = LastEpoch + 1 /\ new.stopped = off BY <1>5
<1>7. \A c \in Connector : intents'[c] = IF c \in cs THEN {new} ELSE intents[c] BY DEF WithIntents
<1> HIDE DEF new
<1>8. intents' \in [Connector -> SUBSET [epoch : Nat, stopped : BOOLEAN]]
  <2>1. intents' = [c \in Connector |-> IF c \in cs THEN {new} ELSE intents[c]] BY DEF WithIntents, new
  <2> QED BY <1>1, <1>6, <2>1
<1>9. EpochsOrdered'
  <2>1. CASE \E c \in Connector : c \in cs
    <3>1. PICK d \in Connector : d \in cs BY <2>1
    <3>2. new.epoch \in {0} \cup {i.epoch : i \in UNION {intents'[c] : c \in Connector}} BY <1>7, <3>1
    <3>3. \A c \in Connector : \A i \in intents[c] : i.epoch \in used BY DEF used
    <3>4. \A c \in Connector : \A i \in intents'[c] : i.epoch <= new.epoch
      <4>1. \A c \in Connector : \A i \in intents[c] : i.epoch <= LastEpoch /\ i.epoch \in Nat BY <1>2, <1>4, <3>3
      <4> QED BY <1>5, <1>6, <1>7, <4>1
    <3> QED BY <3>2, <3>4 DEF EpochsOrdered
  <2>2. CASE ~\E c \in Connector : c \in cs
    <3>1. intents' = intents BY <1>1, <1>8, <1>7, <2>2
    <3> QED BY <1>1, <3>1 DEF EpochsOrdered
  <2> QED BY <2>1, <2>2
<1>10. \A c \in Connector : IF c \in cs THEN IsStopped(c)' = off
                            ELSE intents'[c] = intents[c] /\ IsStopped(c)' = IsStopped(c)
  BY <1>1, <1>6, <1>7 DEF IsStopped
<1> QED BY <1>1, <1>7, <1>8, <1>9, <1>10

\* What a step leaves alone that is no operation and no round.
LEMMA SidesKeep ==
    ASSUME RecoveryIInv, UNCHANGED <<saved, template, intents, orders>>,
           recovery' \in Memory,
           \A c \in Connector :
              \A x \in {recovery'.armed[c], recovery'.pending[c], recovery'.retries[c].pic} :
                 x # 0 => x \in {recovery.armed[c], recovery.pending[c], recovery.retries[c].pic},
           claim' = claim \/ (Blank(recovery') /\ claim' = {}),
           \/ \A c \in Connector : recovery'.seen[c] \in {{}, recovery.seen[c]}
           \/ \A c \in Connector : recovery'.seen[c] = plugged[c]
    PROVE  /\ PicsFit' /\ EpochsOrdered' /\ MemoryClaimed'
           /\ \A c, d \in Connector : c # d => recovery'.seen[c] \cap recovery'.seen[d] = {}
           /\ claim' \subseteq Sighting
<1>1. PicsFit'
  <2>1. 0 \in 0 .. orders + 1 BY DEF RecoveryIInv, RecoveryTypeOK
  <2> QED BY <2>1 DEF RecoveryIInv, PicsFit
<1>2. EpochsOrdered' BY DEF RecoveryIInv, EpochsOrdered
<1>3. MemoryClaimed'
  <2>1. \A c \in Connector : \A x : Live(c, x)' <=> Live(c, x) BY DEF Live, SavedFor, IsStopped
  <2>2. CASE claim' = claim
    <3>1. ASSUME NEW c \in Connector,
                 NEW x \in {recovery'.armed[c], recovery'.pending[c], recovery'.retries[c].pic}, Live(c, x)'
          PROVE  Sighted(c, x)'
      <4>1. x # 0 /\ Live(c, x) BY <2>1, <3>1 DEF Live
      <4>2. x \in {recovery.armed[c], recovery.pending[c], recovery.retries[c].pic} BY <4>1
      <4>3. Sighted(c, x) BY <4>1, <4>2 DEF RecoveryIInv, MemoryClaimed
      <4> QED BY <2>2, <4>3 DEF Sighted
    <3> QED BY <3>1 DEF MemoryClaimed
  <2>3. CASE Blank(recovery') BY <2>3 DEF MemoryClaimed, Live, Blank
  <2> QED BY <2>2, <2>3
<1>4. \A c, d \in Connector : c # d => recovery'.seen[c] \cap recovery'.seen[d] = {}
  BY DEF RecoveryIInv, PlugsApart
<1>5. claim' \subseteq Sighting BY DEF RecoveryIInv, RecoveryTypeOK
<1> QED BY <1>1, <1>2, <1>3, <1>4, <1>5

-----------------------------------------------------------------------------
(* The monitors, the user, and the ends of the watcher.                    *)

Unchanging == UNCHANGED <<recovery, claim, saved, template, intents, orders>>

LEMMA MonitorsKeep ==
    ASSUME RecoveryIInv, NEW c \in Connector,
           Unplug(c) \/ Die(c) \/ \E m \in Monitor : Plug(c, m)
    PROVE  RecoveryIInv'
<1>0. RecoveryTypeOK /\ PlugsApart BY DEF RecoveryIInv
<1>1. Unchanging /\ halted' = halted BY DEF Unplug, Die, Plug, Unchanging
<1>2. /\ PicsFit' /\ EpochsOrdered' /\ MemoryClaimed'
      /\ \A d, e \in Connector : d # e => recovery.seen[d] \cap recovery.seen[e] = {}
  <2>1. recovery' \in Memory /\ recovery' = recovery /\ claim' = claim
    BY <1>0, <1>1 DEF RecoveryTypeOK, Unchanging
  <2>2. UNCHANGED <<saved, template, intents, orders>> BY <1>1 DEF Unchanging
  <2>3. \A d \in Connector : recovery'.seen[d] \in {{}, recovery.seen[d]} BY <2>1
  <2> QED BY <2>1, <2>2, <2>3, SidesKeep
<1>3. 0 \in OrNone /\ \A d \in Connector : SavedFor(d) \in OrNone
  BY <1>0, RecoveryBounds DEF RecoveryTypeOK, SavedFor, OrNone, Wallpaper
<1>4. rendered' \in [Connector -> OrNone] BY <1>0, <1>3 DEF Unplug, Die, Plug, RecoveryTypeOK
<1>5. /\ plugged' \in [Connector -> SUBSET Monitor] /\ \A d \in Connector : \A m, n \in plugged'[d] : m = n
      /\ \A d, e \in Connector : d # e => plugged'[d] \cap plugged'[e] = {}
  <2>1. /\ plugged \in [Connector -> SUBSET Monitor] /\ \A d \in Connector : \A m, n \in plugged[d] : m = n
        /\ \A d, e \in Connector : d # e => plugged[d] \cap plugged[e] = {}
    BY <1>0 DEF RecoveryTypeOK, PlugsApart
  <2>2. CASE Unplug(c) BY <2>1, <2>2 DEF Unplug
  <2>3. CASE Die(c) BY <2>1, <2>3 DEF Die
  <2>4. ASSUME NEW m \in Monitor, Plug(c, m)
        PROVE  /\ plugged' \in [Connector -> SUBSET Monitor] /\ \A d \in Connector : \A k, n \in plugged'[d] : k = n
               /\ \A d, e \in Connector : d # e => plugged'[d] \cap plugged'[e] = {}
    <3>1. plugged' = [plugged EXCEPT ![c] = {m}] /\ \A d \in Connector : m \notin plugged[d] BY <2>4 DEF Plug
    <3> QED BY <2>1, <3>1
  <2> QED BY <2>2, <2>3, <2>4
<1>6. promised' \in [Connector -> OrNone]
  <2>1. promised \in [Connector -> OrNone] BY <1>0 DEF RecoveryTypeOK
  <2>2. CASE Unplug(c) BY <1>3, <2>1, <2>2 DEF Unplug, Cleared
  <2>3. CASE Die(c) BY <2>1, <2>3 DEF Die
  <2>4. CASE \E m \in Monitor : Plug(c, m) BY <1>3, <2>1, <2>4 DEF Plug
  <2> QED BY <2>2, <2>3, <2>4
<1>7. plugs' \in 0 .. MaxPlugs /\ upsets' \in 0 .. MaxUpsets
  BY <1>0, RecoveryBounds DEF RecoveryTypeOK, Unplug, Die, Plug
<1>8. RecoveryTypeOK' BY <1>0, <1>1, <1>4, <1>5, <1>6, <1>7 DEF RecoveryTypeOK, Unchanging
<1>9. PlugsApart' BY <1>1, <1>2, <1>5 DEF PlugsApart, Unchanging
<1> QED BY <1>2, <1>8, <1>9 DEF RecoveryIInv

\* A user's operation: on cs the user puts pic, or stops it. The rows of others change only to
\* a wallpaper that is new.
OrderGiven(cs, pic, off) ==
    /\ Order /\ UNCHANGED <<plugged, plugs, upsets>> /\ cs \subseteq Connector
    /\ intents' = WithIntents(cs, off)
    /\ rendered' = [c \in Connector |-> IF c \in cs THEN pic[c] ELSE rendered[c]]
    /\ promised' = Cleared(promised, cs)
    /\ saved' \in [Connector -> 0 .. orders + 2] /\ template' \in {template, orders + 2}
    /\ \A c \in Connector \ cs : SavedFor(c)' \in {SavedFor(c), orders + 2}
    /\ pic \in [Connector -> 0 .. orders + 2]
    /\ recovery' \in {recovery, Ensured}
    /\ Untouched(cs) \subseteq claim' /\ claim' \subseteq Sighting
    /\ ~off => \A c \in cs : pic[c] = SavedFor(c)' /\ [at |-> c, pic |-> pic[c]] \in claim'

LEMMA OrdersKeep ==
    ASSUME RecoveryIInv, NEW cs, NEW pic, NEW off \in BOOLEAN, OrderGiven(cs, pic, off),
           halted' \subseteq Connector
    PROVE  RecoveryIInv'
<1> USE DEF RecoveryIInv, OrderGiven
<1>1. orders \in Nat /\ orders' = orders + 1 /\ orders' \in 0 .. MaxOrders
  BY RecoveryBounds DEF RecoveryTypeOK, Order
<1>2. /\ intents' \in [Connector -> SUBSET [epoch : Nat, stopped : BOOLEAN]]
      /\ \A c \in Connector : \A i, j \in intents'[c] : i = j
      /\ EpochsOrdered'
      /\ \A c \in Connector : IF c \in cs THEN IsStopped(c)' = off
                              ELSE intents'[c] = intents[c] /\ IsStopped(c)' = IsStopped(c)
  BY IntentsKept
<1>3. recovery' \in Memory /\ (recovery' = recovery \/ Blank(recovery'))
  BY FreshTyped, FreshBlank DEF RecoveryTypeOK, Ensured
<1>4. 0 .. orders + 2 \subseteq OrNone /\ orders + 2 \in Wallpaper /\ 0 .. orders + 1 \subseteq 0 .. orders' + 1
      /\ orders' + 1 = orders + 2
  BY <1>1, RecoveryBounds DEF OrNone, Wallpaper
<1>5. /\ rendered' \in [Connector -> OrNone] /\ saved' \in [Connector -> OrNone] /\ template' \in Wallpaper
      /\ promised' \in [Connector -> OrNone]
  <2>1. /\ rendered \in [Connector -> OrNone] /\ template \in Wallpaper /\ promised \in [Connector -> OrNone]
    BY DEF RecoveryTypeOK
  <2>2. rendered' \in [Connector -> OrNone]
    <3>1. \A c \in Connector : pic[c] \in OrNone BY <1>4
    <3> QED BY <2>1, <3>1
  <2>3. promised' \in [Connector -> OrNone]
    <3>1. 0 \in OrNone BY RecoveryBounds DEF OrNone
    <3> QED BY <2>1, <3>1 DEF Cleared
  <2>4. saved' \in [Connector -> OrNone] BY <1>4
  <2>5. template' \in Wallpaper BY <1>4, <2>1
  <2> QED BY <2>2, <2>3, <2>4, <2>5
<1>6. claim' \subseteq Sighting OBVIOUS
<1>7. RecoveryTypeOK'
  BY <1>1, <1>2, <1>3, <1>5, <1>6 DEF RecoveryTypeOK
<1>8. PicsFit'
  <2>1. saved' \in [Connector -> 0 .. orders' + 1] /\ template' \in 1 .. orders' + 1
    BY <1>1, <1>4 DEF PicsFit
  <2>2. \A c \in Connector : {recovery'.armed[c], recovery'.pending[c], recovery'.retries[c].pic} \subseteq 0 .. orders' + 1
    BY <1>1, <1>3, <1>4 DEF PicsFit, Blank
  <2> QED BY <2>1, <2>2 DEF PicsFit
<1>9. PlugsApart' BY <1>3 DEF PlugsApart, Blank
<1>10. MemoryClaimed'
  <2>1. CASE Blank(recovery') BY <2>1 DEF MemoryClaimed, Live, Blank
  <2>2. CASE recovery' = recovery
    <3>1. SUFFICES ASSUME NEW c \in Connector,
                          NEW x \in {recovery.armed[c], recovery.pending[c], recovery.retries[c].pic},
                          Live(c, x)'
                   PROVE  Sighted(c, x)'
      BY <2>2 DEF MemoryClaimed
    <3>2. CASE c \in cs
      <4>1. ~off BY <1>2, <3>1, <3>2 DEF Live
      <4>2. x = pic[c] BY <3>1, <3>2, <4>1 DEF Live
      <4> QED BY <3>2, <4>1, <4>2 DEF Sighted
    <3>3. CASE c \notin cs
      <4>1. x \in 0 .. orders + 1 BY DEF PicsFit
      <4>2. x = SavedFor(c) BY <1>1, <3>1, <3>3, <4>1 DEF Live
      <4>3. Live(c, x) BY <1>2, <3>1, <3>3, <4>2 DEF Live
      <4>4. Sighted(c, x) BY <4>3 DEF MemoryClaimed
      <4>5. [at |-> c, pic |-> x] \in Untouched(cs) BY <3>3, <4>4 DEF Sighted, Untouched
      <4> QED BY <4>5 DEF Sighted
    <3> QED BY <3>2, <3>3
  <2> QED BY <1>3, <2>1, <2>2
<1> QED BY <1>2, <1>7, <1>8, <1>9, <1>10

\* What the user has put somewhere is claimed there.
LEMMA PutClaims ==
    ASSUME RecoveryIInv, Order, NEW cs \in SUBSET Connector, NEW x \in 1 .. orders + 2, claim' = Put(cs, x)
    PROVE  /\ Untouched(cs) \subseteq claim' /\ claim' \subseteq Sighting
           /\ \A c \in cs : [at |-> c, pic |-> x] \in claim'
<1>1. x \in Wallpaper BY RecoveryBounds DEF Wallpaper, RecoveryIInv, RecoveryTypeOK, Order
<1>2. Untouched(cs) \subseteq Sighting BY DEF Untouched, RecoveryIInv, RecoveryTypeOK
<1>3. [at : cs, pic : {x}] \subseteq Sighting BY <1>1 DEF Sighting
<1>4. \A c \in cs : [at |-> c, pic |-> x] \in [at : cs, pic : {x}] OBVIOUS
<1> QED BY <1>2, <1>3, <1>4 DEF Put

LEMMA UserKeeps == ASSUME RecoveryIInv, UserStep PROVE RecoveryIInv'
<1>0. RecoveryTypeOK /\ PicsFit BY DEF RecoveryIInv
<1>1. /\ orders \in Nat /\ saved \in [Connector -> 0 .. orders + 1] /\ template \in 1 .. orders + 1
      /\ rendered \in [Connector -> OrNone] /\ halted \subseteq Connector
  BY <1>0, RecoveryBounds DEF RecoveryTypeOK, PicsFit
<1>2. \A c \in Connector : SavedFor(c) \in 1 .. orders + 1 BY <1>1 DEF SavedFor
<1>3. ASSUME NEW cs \in SUBSET Connector, ApplyOutputs(cs) PROVE RecoveryIInv'
  <2> DEFINE pic == [c \in Connector |-> orders + 2]
  <2>1. /\ saved' \in [Connector -> 0 .. orders + 2] /\ template' \in {template, orders + 2}
        /\ \A c \in Connector \ cs : SavedFor(c)' \in {SavedFor(c), orders + 2}
        /\ \A c \in cs : SavedFor(c)' = orders + 2
    <3>1. CASE (\E c \in cs : cs = {c} /\ saved' = [saved EXCEPT ![c] = orders + 2]) /\ template' = template
      BY <1>1, <3>1 DEF SavedFor
    <3>2. CASE template' = orders + 2 /\ saved' = Cleared(saved, cs)
      BY <1>1, <3>2 DEF SavedFor, Cleared
    <3> QED BY <1>3, <3>1, <3>2 DEF ApplyOutputs
  <2>2. rendered' = [c \in Connector |-> IF c \in cs THEN pic[c] ELSE rendered[c]]
    BY <1>3 DEF ApplyOutputs
  <2>3. /\ Untouched(cs) \subseteq claim' /\ claim' \subseteq Sighting
        /\ \A c \in cs : [at |-> c, pic |-> orders + 2] \in claim'
    <3>1. orders + 2 \in 1 .. orders + 2 BY <1>1
    <3>2. Order /\ claim' = Put(cs, orders + 2) BY <1>3 DEF ApplyOutputs
    <3> QED BY <3>1, <3>2, PutClaims
  <2>4. pic \in [Connector -> 0 .. orders + 2] /\ \A c \in cs : pic[c] = orders + 2 BY <1>1
  <2> HIDE DEF pic
  <2>5. /\ Order /\ UNCHANGED <<plugged, plugs, upsets>> /\ intents' = WithIntents(cs, FALSE)
        /\ recovery' = Ensured /\ promised' = Cleared(promised, cs)
    BY <1>3 DEF ApplyOutputs
  <2>7. \A c \in cs : pic[c] = SavedFor(c)' /\ [at |-> c, pic |-> pic[c]] \in claim' BY <2>1, <2>3, <2>4
  <2>8. OrderGiven(cs, pic, FALSE) BY <2>1, <2>2, <2>3, <2>4, <2>5, <2>7 DEF OrderGiven
  <2>6. halted' \subseteq Connector BY <1>1, <1>3 DEF ApplyOutputs
  <2> QED BY <2>6, <2>8, OrdersKeep
<1>4. ASSUME NEW c \in Connector, Restore(c) PROVE RecoveryIInv'
  <2> DEFINE pic == [d \in Connector |-> SavedFor(d)]
  <2>1. rendered' = [d \in Connector |-> IF d \in {c} THEN pic[d] ELSE rendered[d]]
    BY <1>1, <1>4 DEF Restore
  <2>2. Untouched({c}) \subseteq claim' /\ claim' \subseteq Sighting /\ [at |-> c, pic |-> SavedFor(c)] \in claim'
    <3>1. SavedFor(c) \in 1 .. orders + 2 BY <1>1, <1>2
    <3>2. Order /\ claim' = Put({c}, SavedFor(c)) BY <1>4 DEF Restore
    <3> QED BY <3>1, <3>2, PutClaims
  <2>3. pic \in [Connector -> 0 .. orders + 2] /\ pic[c] = SavedFor(c) /\ pic[c] = SavedFor(c)'
    BY <1>1, <1>2, <1>4 DEF Restore, SavedFor
  <2>4. \A d \in Connector : SavedFor(d)' = SavedFor(d) BY <1>4 DEF Restore, SavedFor
  <2>5. saved' \in [Connector -> 0 .. orders + 2] /\ template' = template BY <1>1, <1>4 DEF Restore
  <2> HIDE DEF pic
  <2>6. /\ Order /\ UNCHANGED <<plugged, plugs, upsets>> /\ intents' = WithIntents({c}, FALSE)
        /\ recovery' = Ensured /\ promised' = Cleared(promised, {c})
    BY <1>4 DEF Restore
  <2>8. OrderGiven({c}, pic, FALSE) BY <2>1, <2>2, <2>3, <2>4, <2>5, <2>6 DEF OrderGiven
  <2>7. halted' \subseteq Connector BY <1>1, <1>4 DEF Restore
  <2> QED BY <2>7, <2>8, OrdersKeep
<1>5. ASSUME NEW cs \in SUBSET Connector, StopOutputs(cs), halted' \subseteq Connector PROVE RecoveryIInv'
  <2> DEFINE pic == Nowhere
  <2>1. rendered' = [d \in Connector |-> IF d \in cs THEN pic[d] ELSE rendered[d]]
    BY <1>5 DEF StopOutputs, Cleared, Nowhere
  <2>2. pic \in [Connector -> 0 .. orders + 2] BY <1>1 DEF Nowhere
  <2>3. \A d \in Connector : SavedFor(d)' = SavedFor(d) BY <1>5 DEF StopOutputs, SavedFor
  <2>4. saved' \in [Connector -> 0 .. orders + 2] /\ template' = template BY <1>1, <1>5 DEF StopOutputs
  <2>6. claim' = Untouched(cs) /\ Untouched(cs) \subseteq Sighting
    BY <1>0, <1>5 DEF StopOutputs, Untouched, RecoveryTypeOK
  <2> HIDE DEF pic
  <2>5. OrderGiven(cs, pic, TRUE) BY <1>5, <2>1, <2>2, <2>3, <2>4, <2>6 DEF OrderGiven, StopOutputs
  <2> QED BY <1>5, <2>5, OrdersKeep
<1>6. Plugged \in SUBSET Connector BY DEF Plugged
<1>7. CASE \E c \in Connector : StopOutput(c)
  <2>1. PICK c \in Connector : StopOutput(c) BY <1>7
  <2> QED BY <1>1, <1>5, <2>1 DEF StopOutput
<1>8. CASE StopAll BY <1>5, <1>6, <1>8 DEF StopAll
<1> QED BY <1>3, <1>4, <1>6, <1>7, <1>8 DEF UserStep

LEMMA EndsKeep ==
    ASSUME RecoveryIInv,
           SnapshotFails \/ WatcherEnds \/ ReadOutputs \/ \E c \in Connector : RetryDue(c)
    PROVE  RecoveryIInv'
<1>0. RecoveryTypeOK /\ PlugsApart BY DEF RecoveryIInv
<1>1. /\ UNCHANGED <<displays, halted, plugs, orders>>
      /\ upsets' \in 0 .. MaxUpsets /\ promised' \in [Connector -> OrNone]
  <2>1. Nowhere \in [Connector -> OrNone] BY RecoveryBounds DEF Nowhere, OrNone
  <2>2. upsets \in 0 .. MaxUpsets /\ promised \in [Connector -> OrNone] /\ MaxUpsets \in Nat
    BY <1>0, RecoveryBounds DEF RecoveryTypeOK
  <2> QED BY <2>1, <2>2 DEF SnapshotFails, WatcherEnds, ReadOutputs, RetryDue, Upset
<1>2. UNCHANGED <<plugged, rendered, saved, template, intents>> BY <1>1 DEF displays
<1>3. /\ recovery' \in Memory
      /\ \A c \in Connector :
            \A x \in {recovery'.armed[c], recovery'.pending[c], recovery'.retries[c].pic} :
               x # 0 => x \in {recovery.armed[c], recovery.pending[c], recovery.retries[c].pic}
      /\ claim' = claim \/ (Blank(recovery') /\ claim' = {})
      /\ \/ \A c \in Connector : recovery'.seen[c] \in {{}, recovery.seen[c]}
         \/ \A c \in Connector : recovery'.seen[c] = plugged[c]
  <2>1. recovery \in Memory /\ plugged \in [Connector -> SUBSET Monitor] BY <1>0 DEF RecoveryTypeOK
  <2>2. CASE ReadOutputs
    <3>1. recovery' = [recovery EXCEPT !.pc = "round", !.seen = plugged, !.failures = 0] /\ claim' = claim
      BY <2>2 DEF ReadOutputs
    <3>2. 0 \in 0 .. SnapshotLimit - 1 BY RecoveryBounds
    <3>3. recovery' \in Memory BY <2>1, <3>1, <3>2 DEF Memory
    <3>4. /\ recovery'.seen = plugged /\ recovery'.armed = recovery.armed /\ recovery'.pending = recovery.pending
          /\ recovery'.retries = recovery.retries
      BY <2>1, <3>1 DEF Memory
    <3> QED BY <3>1, <3>3, <3>4
  <2>3. ASSUME NEW c \in Connector, RetryDue(c)
        PROVE  /\ recovery' \in Memory /\ claim' = claim
               /\ recovery'.seen = recovery.seen /\ recovery'.armed = recovery.armed /\ recovery'.pending = recovery.pending
               /\ \A d \in Connector : recovery'.retries[d].pic = recovery.retries[d].pic
    <3>1. recovery' = [recovery EXCEPT !.retries[c].due = TRUE] /\ claim' = claim
      BY <2>3 DEF RetryDue
    <3>2. recovery.retries \in [Connector -> [pic : OrNone, attempt : 0 .. Attempts, due : BOOLEAN]]
      BY <2>1 DEF Memory
    <3> DEFINE t == [recovery.retries[c] EXCEPT !.due = TRUE]
               retries == [recovery.retries EXCEPT ![c] = t]
    <3>3. t \in [pic : OrNone, attempt : 0 .. Attempts, due : BOOLEAN] /\ t.pic = recovery.retries[c].pic
      BY <3>2
    <3>4. recovery' = [recovery EXCEPT !.retries = retries] BY <2>1, <3>1 DEF Memory
    <3> HIDE DEF t
    <3>5. /\ retries \in [Connector -> [pic : OrNone, attempt : 0 .. Attempts, due : BOOLEAN]]
          /\ \A d \in Connector : retries[d].pic = recovery.retries[d].pic
      BY <3>2, <3>3
    <3> HIDE DEF retries
    <3> QED BY <2>1, <3>1, <3>4, <3>5 DEF Memory
  <2>4. CASE SnapshotFails
    <3>1. CASE recovery.failures + 1 = SnapshotLimit
      BY <2>4, <3>1, FreshTyped, FreshBlank DEF SnapshotFails, Blank
    <3>2. CASE recovery.failures + 1 # SnapshotLimit
      <4>1. recovery' = [recovery EXCEPT !.failures = @ + 1] /\ claim' = claim BY <2>4, <3>2 DEF SnapshotFails
      <4>2. recovery.failures \in 0 .. SnapshotLimit - 1 BY <2>1 DEF Memory
      <4>3. recovery.failures + 1 \in 0 .. SnapshotLimit - 1 BY <3>2, <4>2, RecoveryBounds
      <4>4. recovery' \in Memory BY <2>1, <4>1, <4>3 DEF Memory
      <4>5. /\ recovery'.seen = recovery.seen /\ recovery'.armed = recovery.armed
            /\ recovery'.pending = recovery.pending /\ recovery'.retries = recovery.retries
        BY <2>1, <4>1 DEF Memory
      <4> QED BY <4>1, <4>4, <4>5
    <3> QED BY <3>1, <3>2
  <2>5. CASE WatcherEnds
    <3>1. (recovery' = Ended \/ recovery' = Fresh) /\ claim' = {} BY <2>5 DEF WatcherEnds
    <3>2. recovery' \in Memory /\ Blank(recovery') BY <3>1, FreshTyped, FreshBlank
    <3> QED BY <3>1, <3>2 DEF Blank
  <2> QED BY <2>2, <2>3, <2>4, <2>5
<1>4. /\ PicsFit' /\ EpochsOrdered' /\ MemoryClaimed'
      /\ \A c, d \in Connector : c # d => recovery'.seen[c] \cap recovery'.seen[d] = {}
      /\ claim' \subseteq Sighting
  BY <1>1, <1>2, <1>3, SidesKeep
<1>5. RecoveryTypeOK' BY <1>0, <1>1, <1>2, <1>3, <1>4 DEF RecoveryTypeOK
<1>6. PlugsApart' BY <1>0, <1>2, <1>4 DEF PlugsApart
<1> QED BY <1>4, <1>5, <1>6 DEF RecoveryIInv

-----------------------------------------------------------------------------
(* A round, part by part.                                                  *)

\* What the watcher knows after each part of its round, the rows it finds, and the outputs it
\* sees its wallpaper on.
RoundFirst == Remembered(StopsHeeded(recovery))
RoundKnown == EpochsHeeded(Renamed(RoundFirst))
RoundRows == [c \in Connector |-> IF SavedThen(RoundFirst)[c] # 0 THEN SavedThen(RoundFirst)[c] ELSE template]
RoundConfirmed == {c \in Enabled(RoundKnown) : rendered[c] = RoundRows[c] /\ ~IsStopped(c)}
RoundNext == Advanced(RoundKnown, RoundRows, RoundConfirmed)
RoundSightings == {Moved(k, Adopted(RoundFirst)) : k \in claim}
Taken(p, c) == <<p, c>> \in Adopted(RoundFirst)

LEMMA RoundParts ==
    ASSUME Round
    PROVE  /\ recovery.pc = "round" /\ saved' = SavedThen(RoundFirst)
           /\ Restores(RoundNext, RoundRows, RoundConfirmed, RoundSightings)
           /\ UNCHANGED <<plugged, template, halted, plugs, orders>>
BY DEF Round, RoundFirst, RoundKnown, RoundRows, RoundConfirmed, RoundNext, RoundSightings

RetryType == [pic : OrNone, attempt : 0 .. Attempts, due : BOOLEAN]

LEMMA ClearedType ==
    ASSUME NEW f \in [Connector -> OrNone], NEW cs
    PROVE  /\ Cleared(f, cs) \in [Connector -> OrNone]
           /\ \A c \in Connector : Cleared(f, cs)[c] = IF c \in cs THEN 0 ELSE f[c]
BY RecoveryBounds DEF Cleared, OrNone

LEMMA MemoryFields ==
    ASSUME NEW r \in Memory
    PROVE  /\ r.tracked \subseteq Connector
           /\ r.armed \in [Connector -> OrNone] /\ r.pending \in [Connector -> OrNone]
           /\ r.retries \in [Connector -> RetryType]
           /\ r.outputs \in [Connector -> SUBSET Monitor] /\ r.epochs \in [Connector -> SUBSET Nat]
           /\ r.seen \in [Connector -> SUBSET Monitor]
BY DEF Memory, RetryType

LEMMA ForgottenIs ==
    ASSUME NEW r \in Memory, NEW cs
    PROVE  LET f == Forgotten(r, cs) IN
           /\ f \in Memory
           /\ f.armed = Cleared(r.armed, cs) /\ f.pending = Cleared(r.pending, cs)
           /\ f.retries = r.retries /\ f.outputs = r.outputs /\ f.epochs = r.epochs
           /\ f.seen = r.seen /\ f.tracked = r.tracked
<1>1. Cleared(r.armed, cs) \in [Connector -> OrNone] /\ Cleared(r.pending, cs) \in [Connector -> OrNone]
  BY MemoryFields, ClearedType
<1> QED BY <1>1 DEF Forgotten, Memory

LEMMA FirstIs ==
    ASSUME RecoveryTypeOK
    PROVE  /\ RoundFirst \in Memory
           /\ RoundFirst.retries = recovery.retries /\ RoundFirst.outputs = recovery.outputs
           /\ RoundFirst.epochs = recovery.epochs /\ RoundFirst.seen = recovery.seen
           /\ RoundFirst.tracked = recovery.tracked
           /\ \A c \in Connector : RoundFirst.pending[c] # 0 =>
                 /\ ~IsStopped(c)
                 /\ RoundFirst.pending[c] \in {recovery.armed[c], recovery.pending[c]}
<1> DEFINE stops == {c \in Connector : IsStopped(c)}
           r == Forgotten(recovery, stops)
           gone == {c \in r.tracked \ Enabled(r) : r.armed[c] # 0}
           armed == Cleared(r.armed, r.tracked \ Enabled(r))
           awaited == [c \in Connector |-> IF c \in gone THEN r.armed[c] ELSE r.pending[c]]
<1>1. recovery \in Memory BY DEF RecoveryTypeOK
<1>2. /\ r \in Memory
      /\ r.armed = Cleared(recovery.armed, stops) /\ r.pending = Cleared(recovery.pending, stops)
      /\ r.retries = recovery.retries /\ r.outputs = recovery.outputs /\ r.epochs = recovery.epochs
      /\ r.seen = recovery.seen /\ r.tracked = recovery.tracked
  BY <1>1, ForgottenIs
<1>3. RoundFirst = [r EXCEPT !.armed = armed, !.pending = awaited]
  BY <1>2 DEF RoundFirst, Remembered, StopsHeeded, Memory
<1> HIDE DEF r
<1>4. r.armed \in [Connector -> OrNone] /\ r.pending \in [Connector -> OrNone] BY <1>2, MemoryFields
<1>5. armed \in [Connector -> OrNone] /\ awaited \in [Connector -> OrNone] BY <1>4, ClearedType
<1>6. \A c \in Connector : awaited[c] \in {r.armed[c], r.pending[c]} OBVIOUS
<1> HIDE DEF armed, awaited
<1>7. /\ RoundFirst \in Memory /\ RoundFirst.pending = awaited
      /\ RoundFirst.retries = r.retries /\ RoundFirst.outputs = r.outputs /\ RoundFirst.epochs = r.epochs
      /\ RoundFirst.seen = r.seen /\ RoundFirst.tracked = r.tracked
  BY <1>2, <1>3, <1>5 DEF Memory
<1>8. \A c \in Connector : /\ r.armed[c] = IF c \in stops THEN 0 ELSE recovery.armed[c]
                           /\ r.pending[c] = IF c \in stops THEN 0 ELSE recovery.pending[c]
  BY <1>1, <1>2, MemoryFields, ClearedType
<1> QED BY <1>2, <1>6, <1>7, <1>8

\* A monitor that was awaited at p is at c now, and takes its wallpaper along.
LEMMA TakenIs ==
    ASSUME RecoveryTypeOK, NEW p \in Connector, NEW c \in Connector, Taken(p, c)
    PROVE  /\ recovery.seen[p] = {} /\ recovery.seen[c] # {} /\ saved[c] = 0
           /\ RoundFirst.pending[p] # 0 /\ RoundFirst.pending[p] = SavedFor(p)
           /\ recovery.seen[c] \subseteq Identified /\ recovery.seen[c] = recovery.outputs[p]
<1>1. <<p, c>> \in Moves(RoundFirst) /\ ~Rejected(<<p, c>>, RoundFirst) /\ saved[c] = 0
  BY DEF Taken, Adopted
<1>2. /\ c \in Enabled(RoundFirst) /\ p \in PreviousOf(RoundFirst, c) \ Enabled(RoundFirst)
      /\ RoundFirst.pending[p] # 0
  BY <1>1 DEF Moves
<1>3. SavedFor(p) = RoundFirst.pending[p] BY <1>1 DEF Rejected
<1>4. recovery.seen[p] = {} /\ recovery.seen[c] # {} BY <1>2, FirstIs DEF Enabled
<1>5. recovery.seen[c] \subseteq Identified /\ recovery.seen[c] = recovery.outputs[p]
  BY <1>2, <1>4, FirstIs DEF PreviousOf
<1> QED BY <1>1, <1>2, <1>3, <1>4, <1>5

LEMMA RowsAre ==
    ASSUME RecoveryTypeOK
    PROVE  /\ SavedThen(RoundFirst) \in [Connector -> OrNone]
           /\ \A c \in Connector :
                 /\ RoundRows[c] \in Wallpaper
                 /\ \/ \E p \in Connector : /\ Taken(p, c) /\ RoundFirst.pending[p] = RoundRows[c]
                                            /\ SavedThen(RoundFirst)[c] = RoundRows[c]
                    \/ /\ ~\E p \in Connector : Taken(p, c)
                       /\ SavedThen(RoundFirst)[c] = saved[c] /\ RoundRows[c] = SavedFor(c)
<1>1. saved \in [Connector -> OrNone] /\ template \in Wallpaper BY DEF RecoveryTypeOK
<1>2. \A c \in Connector : SavedFor(c) \in Wallpaper /\ SavedFor(c) # 0
  BY <1>1, RecoveryBounds DEF SavedFor, OrNone, Wallpaper
<1>3. Wallpaper \subseteq OrNone BY RecoveryBounds DEF Wallpaper, OrNone
<1>4. ASSUME NEW c \in Connector
      PROVE  \/ \E p \in Connector : /\ Taken(p, c) /\ SavedThen(RoundFirst)[c] = SavedFor(p)
                                     /\ RoundFirst.pending[p] = SavedFor(p)
             \/ (~\E p \in Connector : Taken(p, c)) /\ SavedThen(RoundFirst)[c] = saved[c]
  <2>1. CASE \E p \in Connector : Taken(p, c)
    <3> DEFINE p == CHOOSE p \in Connector : <<p, c>> \in Adopted(RoundFirst)
    <3>1. p \in Connector /\ Taken(p, c) BY <2>1 DEF Taken
    <3>2. SavedThen(RoundFirst)[c] = SavedFor(p) BY <2>1 DEF SavedThen, Taken
    <3> HIDE DEF p
    <3> QED BY <3>1, <3>2, TakenIs
  <2>2. CASE ~\E p \in Connector : Taken(p, c) BY <2>2 DEF SavedThen, Taken
  <2> QED BY <2>1, <2>2
<1>5. \A c \in Connector : SavedThen(RoundFirst)[c] \in OrNone BY <1>1, <1>2, <1>3, <1>4
<1>6. SavedThen(RoundFirst) \in [Connector -> OrNone]
  <2>1. SavedThen(RoundFirst) = [c \in Connector |-> SavedThen(RoundFirst)[c]] BY DEF SavedThen
  <2> QED BY <1>5, <2>1
<1>7. \A c \in Connector : RoundRows[c] = IF SavedThen(RoundFirst)[c] # 0 THEN SavedThen(RoundFirst)[c] ELSE template
  BY DEF RoundRows
<1>8. \A c \in Connector : RoundRows[c] \in Wallpaper
  <2>1. \A x \in OrNone : x # 0 => x \in Wallpaper BY RecoveryBounds DEF OrNone, Wallpaper
  <2> QED BY <1>1, <1>5, <1>7, <2>1
<1>9. ASSUME NEW c \in Connector
      PROVE  \/ \E p \in Connector : /\ Taken(p, c) /\ RoundFirst.pending[p] = RoundRows[c]
                                     /\ SavedThen(RoundFirst)[c] = RoundRows[c]
             \/ /\ ~\E p \in Connector : Taken(p, c)
                /\ SavedThen(RoundFirst)[c] = saved[c] /\ RoundRows[c] = SavedFor(c)
  <2>1. ASSUME NEW p \in Connector, Taken(p, c), SavedThen(RoundFirst)[c] = SavedFor(p), RoundFirst.pending[p] = SavedFor(p)
        PROVE  RoundFirst.pending[p] = RoundRows[c] /\ SavedThen(RoundFirst)[c] = RoundRows[c]
    BY <1>2, <1>7, <2>1
  <2>2. SavedThen(RoundFirst)[c] = saved[c] => RoundRows[c] = SavedFor(c) BY <1>7 DEF SavedFor
  <2> QED BY <1>4, <2>1, <2>2
<1> QED BY <1>6, <1>8, <1>9

\* What the watcher awaits after the renaming and the look at the epochs.
LEMMA KnownIs ==
    ASSUME RecoveryTypeOK
    PROVE  /\ RoundKnown \in Memory /\ RoundKnown.seen = recovery.seen
           /\ \A c \in Connector :
                 /\ RoundKnown.retries[c] \in {recovery.retries[c], NoRetry}
                 /\ RoundKnown.pending[c] # 0 =>
                       \/ (\E p \in Connector : Taken(p, c)) /\ RoundKnown.pending[c] = SavedThen(RoundFirst)[c]
                       \/ /\ RoundKnown.pending[c] = RoundFirst.pending[c]
                          /\ ~\E d \in Connector : Taken(c, d)
<1> DEFINE f == RoundFirst
           dropped == {x[1] : x \in {y \in Moves(f) : Rejected(y, f)} \cup Adopted(f)} \cup Replaced(f)
           armed == Cleared(f.armed, Replaced(f))
           awaited == [c \in Connector |-> IF \E p \in Connector : <<p, c>> \in Adopted(f)
                                           THEN SavedThen(f)[c] ELSE Cleared(f.pending, dropped)[c]]
           retries == [c \in Connector |-> IF c \in Replaced(f) THEN NoRetry ELSE f.retries[c]]
           outputs == [c \in Connector |->
                          CASE c \in Enabled(f) -> f.seen[c]
                            [] c \notin Enabled(f) /\ f.outputs[c] \subseteq Identified
                                 /\ (\E d \in Enabled(f) : f.seen[d] = f.outputs[c]) -> {}
                            [] OTHER -> f.outputs[c]]
           n == [f EXCEPT !.armed = armed, !.pending = awaited, !.retries = retries, !.outputs = outputs]
<1>1. f \in Memory /\ f.seen = recovery.seen /\ f.retries = recovery.retries BY FirstIs
<1>2. /\ f.armed \in [Connector -> OrNone] /\ f.pending \in [Connector -> OrNone]
      /\ f.retries \in [Connector -> RetryType] /\ f.outputs \in [Connector -> SUBSET Monitor]
      /\ f.seen \in [Connector -> SUBSET Monitor]
  BY <1>1, MemoryFields
<1>3. NoRetry \in RetryType BY RecoveryBounds DEF NoRetry, RetryType, OrNone
<1>4. Renamed(f) = n
  BY <1>1 DEF Renamed, Memory
<1>5. armed \in [Connector -> OrNone] BY <1>2, ClearedType
<1>6. awaited \in [Connector -> OrNone]
  <2>1. SavedThen(f) \in [Connector -> OrNone] BY RowsAre
  <2>2. Cleared(f.pending, dropped) \in [Connector -> OrNone] BY <1>2, ClearedType
  <2> HIDE DEF dropped, f
  <2> QED BY <2>1, <2>2
<1>7. retries \in [Connector -> RetryType] BY <1>2, <1>3
<1>8. outputs \in [Connector -> SUBSET Monitor]
  <2>1. ASSUME NEW c \in Connector PROVE outputs[c] \in SUBSET Monitor BY <1>2
  <2> QED BY <2>1
<1>9. \A c \in Connector : awaited[c] # 0 =>
         \/ (\E p \in Connector : Taken(p, c)) /\ awaited[c] = SavedThen(f)[c]
         \/ awaited[c] = f.pending[c] /\ ~\E d \in Connector : Taken(c, d)
  <2>0. ASSUME NEW c \in Connector, \E p \in Connector : Taken(p, c) PROVE awaited[c] = SavedThen(f)[c]
    BY <2>0 DEF Taken
  <2>1. SUFFICES ASSUME NEW c \in Connector, awaited[c] # 0, ~\E p \in Connector : Taken(p, c)
                 PROVE  awaited[c] = f.pending[c] /\ ~\E d \in Connector : Taken(c, d)
    BY <2>0
  <2>2. awaited[c] = Cleared(f.pending, dropped)[c] BY <2>1 DEF Taken
  <2>3. c \notin dropped /\ awaited[c] = f.pending[c]
    <3>1. f.pending \in [Connector -> OrNone] BY <1>2
    <3> HIDE DEF f, awaited, dropped
    <3>2. Cleared(f.pending, dropped)[c] = IF c \in dropped THEN 0 ELSE f.pending[c] BY <3>1, ClearedType
    <3> QED BY <2>1, <2>2, <3>2
  <2>4. ASSUME NEW d \in Connector, Taken(c, d) PROVE FALSE
    <3>1. <<c, d>> \in Adopted(f) /\ <<c, d>>[1] = c BY <2>4 DEF Taken
    <3>2. c \in dropped BY <3>1
    <3> QED BY <2>3, <3>2
  <2> QED BY <2>3, <2>4
<1>10. \A c \in Connector : retries[c] \in {f.retries[c], NoRetry} OBVIOUS
<1> HIDE DEF f, armed, awaited, retries, outputs, dropped
<1>11. /\ n \in Memory /\ n.pending = awaited /\ n.retries = retries /\ n.seen = f.seen
  BY <1>1, <1>5, <1>6, <1>7, <1>8 DEF Memory, RetryType
<1> HIDE DEF n
<1> DEFINE current == [c \in Connector |-> {i.epoch : i \in intents[c]}]
           changed == {c \in Connector : n.epochs[c] # {} /\ n.epochs[c] # current[c]}
           g == Forgotten(n, changed)
           retried == [c \in Connector |-> IF c \in changed THEN NoRetry ELSE g.retries[c]]
<1>12. current \in [Connector -> SUBSET Nat] BY DEF RecoveryTypeOK
<1>13. /\ g \in Memory /\ g.pending = Cleared(n.pending, changed) /\ g.seen = n.seen /\ g.retries = n.retries
  BY <1>11, ForgottenIs
<1>14. \A c \in Connector : g.pending[c] = IF c \in changed THEN 0 ELSE awaited[c]
  <2> HIDE DEF changed, g
  <2>1. g.pending = Cleared(awaited, changed) BY <1>11, <1>13
  <2> QED BY <1>6, <2>1, ClearedType
<1>15. RoundKnown = [g EXCEPT !.retries = retried, !.epochs = current]
  BY <1>4, <1>13 DEF RoundKnown, EpochsHeeded, Memory, f
<1>16. retried \in [Connector -> RetryType] BY <1>3, <1>7, <1>11, <1>13
<1>17. \A c \in Connector : retried[c] \in {retries[c], NoRetry} BY <1>11, <1>13
<1> HIDE DEF current, g, retried
<1>18. /\ RoundKnown \in Memory /\ RoundKnown.seen = g.seen /\ RoundKnown.pending = g.pending
       /\ RoundKnown.retries = retried
  BY <1>12, <1>13, <1>15, <1>16 DEF Memory, RetryType
<1> QED BY <1>1, <1>9, <1>10, <1>11, <1>13, <1>14, <1>17, <1>18 DEF f

LEMMA TrialIs ==
    ASSUME NEW x \in OrNone
    PROVE  /\ [NoRetry EXCEPT !.pic = x] \in RetryType
           /\ [NoRetry EXCEPT !.pic = x].pic = x /\ [NoRetry EXCEPT !.pic = x].due = FALSE
<1>1. NoRetry \in RetryType /\ NoRetry.due = FALSE BY RecoveryBounds DEF NoRetry, RetryType, OrNone
<1> QED BY <1>1 DEF RetryType

\* What it tries, arms and awaits in the end.
LEMMA NextIs ==
    ASSUME RecoveryTypeOK
    PROVE  /\ RoundNext \in Memory
           /\ \A c \in Connector :
                 /\ RoundNext.armed[c] = IF c \in RoundConfirmed THEN RoundRows[c] ELSE 0
                 /\ RoundNext.pending[c] \in {0, RoundKnown.pending[c]}
                 /\ RoundNext.retries[c].pic # 0 =>
                       /\ recovery.seen[c] # {} /\ ~IsStopped(c) /\ RoundNext.retries[c].pic = RoundRows[c]
                       /\ \/ RoundKnown.pending[c] = RoundRows[c] /\ ~RoundNext.retries[c].due
                          \/ RoundNext.retries[c] = recovery.retries[c]
                 /\ RoundNext.retries[c].due => RoundNext.retries[c].pic # 0
<1> DEFINE r == RoundKnown
           kept == RoundRows
           back == Enabled(r) \ r.tracked
           found == {c \in back : r.pending[c] # 0 /\ r.pending[c] = kept[c]}
           t(c) == IF c \in found THEN [NoRetry EXCEPT !.pic = kept[c]] ELSE r.retries[c]
           awaited == Cleared(r.pending, back)
           armed == [c \in Connector |-> IF c \in RoundConfirmed THEN kept[c] ELSE 0]
           retries == [c \in Connector |->
                          IF (c \in Enabled(r) /\ ~IsStopped(c)) /\ t(c).pic = kept[c] THEN t(c) ELSE NoRetry]
<1>1. /\ r \in Memory /\ r.seen = recovery.seen
      /\ \A c \in Connector : r.retries[c] \in {recovery.retries[c], NoRetry}
  BY KnownIs
<1>2. /\ r.pending \in [Connector -> OrNone] /\ r.retries \in [Connector -> RetryType]
      /\ r.seen \in [Connector -> SUBSET Monitor] /\ r.tracked \subseteq Connector
  BY <1>1, MemoryFields
<1>3. \A c \in Connector : kept[c] \in Wallpaper BY RowsAre
<1>4. Wallpaper \subseteq OrNone /\ 0 \in OrNone /\ 0 \notin Wallpaper BY RecoveryBounds DEF Wallpaper, OrNone
<1>5. NoRetry \in RetryType /\ NoRetry.pic = 0 /\ NoRetry.due = FALSE BY <1>4, RecoveryBounds DEF NoRetry, RetryType
<1> HIDE DEF kept
<1>6. ASSUME NEW c \in Connector
      PROVE  /\ [NoRetry EXCEPT !.pic = kept[c]] \in RetryType
             /\ [NoRetry EXCEPT !.pic = kept[c]].pic = kept[c]
             /\ [NoRetry EXCEPT !.pic = kept[c]].due = FALSE
  <2>1. kept[c] \in OrNone BY <1>3, <1>4
  <2> QED BY <2>1, TrialIs
<1>7. RoundNext = [r EXCEPT !.tracked = Enabled(r), !.pending = awaited, !.armed = armed, !.retries = retries]
  BY <1>1 DEF RoundNext, Advanced, Memory, kept
<1>8. ASSUME NEW c \in Connector
      PROVE  /\ retries[c] \in RetryType
             /\ retries[c].pic # 0 =>
                       /\ recovery.seen[c] # {} /\ ~IsStopped(c) /\ retries[c].pic = kept[c]
                       /\ \/ r.pending[c] = kept[c] /\ ~retries[c].due
                          \/ retries[c] = recovery.retries[c]
             /\ retries[c].due => retries[c].pic # 0
  <2>1. retries[c] = IF (c \in Enabled(r) /\ ~IsStopped(c)) /\ t(c).pic = kept[c] THEN t(c) ELSE NoRetry OBVIOUS
  <2>2. CASE ~((c \in Enabled(r) /\ ~IsStopped(c)) /\ t(c).pic = kept[c]) BY <1>5, <2>1, <2>2
  <2>3. CASE (c \in Enabled(r) /\ ~IsStopped(c)) /\ t(c).pic = kept[c]
    <3>1. retries[c] = t(c) BY <2>1, <2>3
    <3>2. recovery.seen[c] # {} BY <1>1, <2>3 DEF Enabled
    <3>3. kept[c] # 0 BY <1>3, <1>4
    <3>4. CASE c \in found
      <4>1. retries[c] = [NoRetry EXCEPT !.pic = kept[c]] /\ r.pending[c] = kept[c] BY <3>1, <3>4
      <4> QED BY <1>6, <2>3, <3>2, <3>3, <4>1
    <3>5. CASE c \notin found
      <4>1. retries[c] = r.retries[c] /\ r.retries[c].pic = kept[c] BY <2>3, <3>1, <3>5
      <4>2. retries[c] = recovery.retries[c] BY <1>1, <1>5, <3>3, <4>1
      <4> QED BY <1>2, <2>3, <3>2, <3>3, <4>1, <4>2
    <3> QED BY <3>4, <3>5
  <2> QED BY <2>2, <2>3
<1>9. retries \in [Connector -> RetryType]
  <2>1. \A c \in Connector : retries[c] \in RetryType BY <1>8
  <2> QED BY <2>1
<1>10. armed \in [Connector -> OrNone] BY <1>3, <1>4
<1>11. awaited \in [Connector -> OrNone] /\ \A c \in Connector : awaited[c] \in {0, r.pending[c]}
  BY <1>2, ClearedType
<1>12. \A c \in Connector : armed[c] = IF c \in RoundConfirmed THEN kept[c] ELSE 0 OBVIOUS
<1> HIDE DEF armed, awaited, retries
<1>13. Enabled(r) \subseteq Connector BY DEF Enabled
<1>14. /\ RoundNext \in Memory /\ RoundNext.armed = armed /\ RoundNext.pending = awaited
       /\ RoundNext.retries = retries
  BY <1>1, <1>7, <1>9, <1>10, <1>11, <1>13 DEF Memory, RetryType
<1> QED BY <1>8, <1>11, <1>12, <1>14 DEF kept

-----------------------------------------------------------------------------
(* What has been seen goes with the monitor.                               *)

LEMMA KeptSighting ==
    ASSUME NEW c \in Connector, NEW x \in Wallpaper, Sighted(c, x), ~\E d \in Connector : Taken(c, d)
    PROVE  [at |-> c, pic |-> x] \in RoundSightings
<1> DEFINE k == [at |-> c, pic |-> x]
<1>1. k.at = c OBVIOUS
<1>2. Moved(k, Adopted(RoundFirst)) = k BY <1>1 DEF Moved, Taken
<1> QED BY <1>2 DEF RoundSightings, Sighted

\* A monitor is at one connector, so there is one it has moved to.
LEMMA MovedSighting ==
    ASSUME RecoveryIInv, NEW p \in Connector, NEW c \in Connector, NEW x \in Wallpaper,
           Sighted(p, x), Taken(p, c)
    PROVE  [at |-> c, pic |-> x] \in RoundSightings
<1>0. RecoveryTypeOK /\ PlugsApart BY DEF RecoveryIInv
<1> DEFINE k == [at |-> p, pic |-> x]
           to == {d \in Connector : /\ <<k.at, d>> \in Adopted(RoundFirst)
                                    /\ recovery.seen[d] \subseteq Identified
                                    /\ recovery.seen[d] = recovery.outputs[k.at]}
           e == CHOOSE d \in to : TRUE
<1>1. recovery.seen[c] \subseteq Identified /\ recovery.seen[c] = recovery.outputs[p] /\ recovery.seen[c] # {}
  BY <1>0, TakenIs
<1>2. c \in to BY <1>1 DEF Taken
<1>3. e \in to BY <1>2
<1>4. e \in Connector /\ recovery.seen[e] = recovery.seen[c] BY <1>1, <1>3
<1>5. e = c BY <1>0, <1>1, <1>4 DEF PlugsApart
<1>6. Moved(k, Adopted(RoundFirst)) = [k EXCEPT !.at = e] BY <1>2 DEF Moved
<1>7. [k EXCEPT !.at = c] = [at |-> c, pic |-> x] OBVIOUS
<1> QED BY <1>5, <1>6, <1>7 DEF RoundSightings, Sighted

LEMMA SightingsFit == ASSUME RecoveryTypeOK PROVE RoundSightings \subseteq Sighting
<1>1. ASSUME NEW k \in claim PROVE Moved(k, Adopted(RoundFirst)) \in Sighting
  <2>1. k \in Sighting BY DEF RecoveryTypeOK
  <2> DEFINE to == {c \in Connector : /\ <<k.at, c>> \in Adopted(RoundFirst)
                                      /\ recovery.seen[c] \subseteq Identified
                                      /\ recovery.seen[c] = recovery.outputs[k.at]}
  <2>2. CASE to = {} BY <2>1, <2>2 DEF Moved
  <2>3. CASE to # {}
    <3>1. Moved(k, Adopted(RoundFirst)) = [k EXCEPT !.at = CHOOSE c \in to : TRUE] BY <2>3 DEF Moved
    <3>2. (CHOOSE c \in to : TRUE) \in Connector BY <2>3
    <3> HIDE DEF to
    <3> QED BY <2>1, <3>1, <3>2 DEF Sighting
  <2> QED BY <2>2, <2>3
<1> QED BY <1>1 DEF RoundSightings

\* What the watcher awaits at an output that is back, or tries again there, and the row still
\* wants, was seen there or came along.
LEMMA RoundBacked ==
    ASSUME RecoveryIInv, NEW c \in Connector, ~IsStopped(c),
           \/ RoundKnown.pending[c] = RoundRows[c]
           \/ recovery.retries[c].pic = RoundRows[c] /\ recovery.seen[c] # {}
    PROVE  [at |-> c, pic |-> RoundRows[c]] \in RoundSightings
<1>0. RecoveryTypeOK /\ MemoryClaimed BY DEF RecoveryIInv
<1> DEFINE x == RoundRows[c]
<1>1. x \in Wallpaper /\ x # 0 BY <1>0, RowsAre DEF Wallpaper
<1>2. CASE \E p \in Connector : Taken(p, c)
  <2>1. PICK p \in Connector : Taken(p, c) /\ RoundFirst.pending[p] = x BY <1>0, <1>2, RowsAre
  <2>2. RoundFirst.pending[p] # 0 /\ RoundFirst.pending[p] = SavedFor(p) BY <1>0, <2>1, TakenIs
  <2>3. ~IsStopped(p) /\ x \in {recovery.armed[p], recovery.pending[p]} BY <1>0, <2>1, <2>2, FirstIs
  <2>4. Live(p, x) BY <2>1, <2>2, <2>3 DEF Live
  <2>5. Sighted(p, x) BY <1>0, <2>3, <2>4 DEF MemoryClaimed
  <2> HIDE DEF x
  <2>6. [at |-> c, pic |-> x] \in RoundSightings BY <1>1, <2>1, <2>5, MovedSighting
  <2> QED BY <2>6 DEF x
<1>3. CASE ~\E p \in Connector : Taken(p, c)
  <2>1. x = SavedFor(c) BY <1>0, <1>3, RowsAre
  <2>2. Live(c, x) BY <1>1, <2>1 DEF Live
  <2>3. Sighted(c, x) /\ ~\E d \in Connector : Taken(c, d)
    <3>1. CASE RoundKnown.pending[c] = x
      <4>1. RoundFirst.pending[c] = x /\ ~\E d \in Connector : Taken(c, d) BY <1>0, <1>1, <1>3, <3>1, KnownIs
      <4>2. x \in {recovery.armed[c], recovery.pending[c]} BY <1>0, <1>1, <4>1, FirstIs
      <4> QED BY <1>0, <2>2, <4>1, <4>2 DEF MemoryClaimed
    <3>2. CASE recovery.retries[c].pic = x /\ recovery.seen[c] # {}
      <4>1. ~\E d \in Connector : Taken(c, d) BY <1>0, <3>2, TakenIs
      <4> QED BY <1>0, <2>2, <3>2, <4>1 DEF MemoryClaimed
    <3> QED BY <3>1, <3>2
  <2> HIDE DEF x
  <2>4. [at |-> c, pic |-> x] \in RoundSightings BY <1>1, <2>3, KeptSighting
  <2> QED BY <2>4 DEF x
<1> QED BY <1>2, <1>3

-----------------------------------------------------------------------------
(* The end of a round.                                                     *)

LEMMA AgainIs ==
    ASSUME NEW t \in RetryType
    PROVE  Again(t) \in RetryType /\ Again(t).pic \in {0, t.pic}
<1>1. NoRetry \in RetryType /\ NoRetry.pic = 0 BY RecoveryBounds DEF NoRetry, RetryType, OrNone
<1>2. CASE t.attempt < Attempts
  <2>1. Again(t) = [t EXCEPT !.attempt = @ + 1, !.due = FALSE] BY <1>2 DEF Again
  <2>2. t.attempt \in 0 .. Attempts BY DEF RetryType
  <2>3. t.attempt + 1 \in 0 .. Attempts BY <1>2, <2>2, RecoveryBounds
  <2> QED BY <2>1, <2>3 DEF RetryType
<1>3. CASE ~(t.attempt < Attempts) BY <1>1, <1>3 DEF Again
<1> QED BY <1>2, <1>3

\* The watcher rests again with what it has found out, has rendered what it restored, and has
\* dropped what cannot be restored.
LEMMA RoundEnds ==
    ASSUME RecoveryTypeOK, Round
    PROVE  \E done, hopeless \in SUBSET Connector :
              /\ \A c \in done : RoundNext.retries[c].due /\ c \notin hopeless
              /\ recovery' \in Memory /\ \A c \in Connector : recovery'.seen[c] = {}
              /\ recovery'.armed = RoundNext.armed /\ recovery'.pending = RoundNext.pending
              /\ \A c \in Connector : recovery'.retries[c].pic \in {0, RoundNext.retries[c].pic}
              /\ \A c \in hopeless : recovery'.retries[c].pic = 0
              /\ rendered' = [c \in Connector |-> IF c \in done THEN RoundRows[c] ELSE rendered[c]]
              /\ intents' = IF done = {} THEN intents ELSE WithIntents(done, FALSE)
              /\ promised' \in [Connector -> OrNone] /\ upsets' \in 0 .. MaxUpsets
              /\ claim' = {k \in RoundSightings :
                               k.at \notin RoundConfirmed \cup {c \in hopeless : RoundNext.pending[c] = 0}}
                             \cup {k \in Sighting : k.at \in RoundConfirmed /\ k.pic = RoundRows[k.at]}
<1>1. Restores(RoundNext, RoundRows, RoundConfirmed, RoundSightings) BY RoundParts
<1>2. RoundNext \in Memory BY NextIs
<1> DEFINE n == RoundNext
           due == {c \in Connector : n.retries[c].due}
           retries(done, hopeless) ==
              [c \in Connector |->
                  CASE c \in done \cup hopeless -> NoRetry
                    [] c \in due \ (done \cup hopeless) -> Again(n.retries[c])
                    [] OTHER -> n.retries[c]]
<1>3. PICK done \in (IF recovery.seen = plugged THEN SUBSET due ELSE {{}}), hopeless \in SUBSET due :
         /\ done \cap hopeless = {}
         /\ upsets' = IF recovery.seen = plugged THEN upsets + Cardinality(due \ done) ELSE upsets
         /\ upsets' <= MaxUpsets
         /\ recovery' = [n EXCEPT !.pc = "rest", !.seen = Ended.seen, !.retries = retries(done, hopeless)]
         /\ rendered' = [c \in Connector |-> IF c \in done THEN RoundRows[c] ELSE rendered[c]]
         /\ intents' = IF done = {} THEN intents ELSE WithIntents(done, FALSE)
         /\ promised' = Cleared(promised, RoundConfirmed \cup {c \in due : retries(done, hopeless)[c] = NoRetry})
         /\ claim' = {k \in RoundSightings : k.at \notin RoundConfirmed \cup {c \in hopeless : n.pending[c] = 0}}
                        \cup {k \in Sighting : k.at \in RoundConfirmed /\ k.pic = RoundRows[k.at]}
  BY <1>1, Zenon DEF Restores
<1>4. done \in SUBSET Connector /\ hopeless \in SUBSET Connector
      /\ \A c \in done : n.retries[c].due /\ c \notin hopeless
  <2>1. done \in SUBSET due BY <1>3
  <2> QED BY <1>3, <2>1
<1>5. n.retries \in [Connector -> RetryType] BY <1>2, MemoryFields
<1> DEFINE after == retries(done, hopeless)
<1>6. ASSUME NEW c \in Connector
      PROVE  /\ after[c] \in RetryType /\ after[c].pic \in {0, n.retries[c].pic}
             /\ c \in hopeless => after[c].pic = 0
  <2>1. NoRetry \in RetryType /\ NoRetry.pic = 0 BY RecoveryBounds DEF NoRetry, RetryType, OrNone
  <2>2. n.retries[c] \in RetryType BY <1>5
  <2>3. Again(n.retries[c]) \in RetryType /\ Again(n.retries[c]).pic \in {0, n.retries[c].pic} BY <2>2, AgainIs
  <2>4. CASE c \in done \cup hopeless BY <2>1, <2>4
  <2>5. CASE c \in due \ (done \cup hopeless) BY <2>3, <2>5
  <2>6. CASE c \notin due BY <1>3, <2>2, <2>6
  <2> QED BY <2>4, <2>5, <2>6
<1>7. after \in [Connector -> RetryType] BY <1>6
<1>8. recovery' = [n EXCEPT !.pc = "rest", !.seen = Ended.seen, !.retries = after] BY <1>3
<1> HIDE DEF after, n
<1>9. Ended.seen = [c \in Connector |-> {}] BY DEF Ended, Fresh
<1>10. [c \in Connector |-> {}] \in [Connector -> SUBSET Monitor] OBVIOUS
<1>11. /\ recovery' \in Memory /\ recovery'.seen = [c \in Connector |-> {}] /\ recovery'.retries = after
       /\ recovery'.armed = n.armed /\ recovery'.pending = n.pending
  BY <1>2, <1>7, <1>8, <1>9, <1>10 DEF Memory, RetryType, n
<1>12. upsets' \in 0 .. MaxUpsets
  <2>1. IsFiniteSet(due \ done)
    <3>1. due \ done \subseteq Connector /\ IsFiniteSet(Connector) BY RecoveryBounds
    <3> QED BY <3>1, FS_Subset
  <2>2. Cardinality(due \ done) \in Nat BY <2>1, FS_CardinalityType
  <2>3. upsets \in Nat /\ MaxUpsets \in Nat BY RecoveryBounds DEF RecoveryTypeOK
  <2> HIDE DEF due
  <2>4. upsets' \in Nat BY <1>3, <2>2, <2>3
  <2> QED BY <1>3, <2>3, <2>4
<1>13. promised' \in [Connector -> OrNone] BY <1>3, ClearedType DEF RecoveryTypeOK
<1> QED
  <2>1. /\ \A c \in Connector : recovery'.seen[c] = {} /\ recovery'.retries[c].pic \in {0, n.retries[c].pic}
        /\ \A c \in hopeless : recovery'.retries[c].pic = 0
    BY <1>4, <1>6, <1>11
  <2> QED BY <1>3, <1>4, <1>11, <1>12, <1>13, <2>1 DEF n

LEMMA RoundKeeps == ASSUME RecoveryIInv, Round PROVE RecoveryIInv'
<1>0. RecoveryTypeOK /\ PicsFit /\ PlugsApart /\ EpochsOrdered BY DEF RecoveryIInv
<1>1. /\ saved' = SavedThen(RoundFirst) /\ UNCHANGED <<plugged, template, halted, plugs, orders>>
  BY RoundParts
<1>2. PICK done \in SUBSET Connector, hopeless \in SUBSET Connector :
              /\ \A c \in done : RoundNext.retries[c].due /\ c \notin hopeless
              /\ recovery' \in Memory /\ \A c \in Connector : recovery'.seen[c] = {}
              /\ recovery'.armed = RoundNext.armed /\ recovery'.pending = RoundNext.pending
              /\ \A c \in Connector : recovery'.retries[c].pic \in {0, RoundNext.retries[c].pic}
              /\ \A c \in hopeless : recovery'.retries[c].pic = 0
              /\ rendered' = [c \in Connector |-> IF c \in done THEN RoundRows[c] ELSE rendered[c]]
              /\ intents' = IF done = {} THEN intents ELSE WithIntents(done, FALSE)
              /\ promised' \in [Connector -> OrNone] /\ upsets' \in 0 .. MaxUpsets
              /\ claim' = {k \in RoundSightings :
                               k.at \notin RoundConfirmed \cup {c \in hopeless : RoundNext.pending[c] = 0}}
                             \cup {k \in Sighting : k.at \in RoundConfirmed /\ k.pic = RoundRows[k.at]}
  BY <1>0, RoundEnds
<1>3. \A c \in Connector : /\ RoundNext.armed[c] = IF c \in RoundConfirmed THEN RoundRows[c] ELSE 0
                           /\ RoundNext.pending[c] \in {0, RoundKnown.pending[c]}
                           /\ RoundNext.retries[c].pic # 0 =>
                                 /\ recovery.seen[c] # {} /\ ~IsStopped(c) /\ RoundNext.retries[c].pic = RoundRows[c]
                                 /\ \/ RoundKnown.pending[c] = RoundRows[c]
                                    \/ recovery.retries[c].pic = RoundRows[c]
                           /\ RoundNext.retries[c].due => RoundNext.retries[c].pic # 0
  BY <1>0, NextIs
<1>16. ASSUME NEW c \in Connector
       PROVE  /\ recovery'.armed[c] = IF c \in RoundConfirmed THEN RoundRows[c] ELSE 0
              /\ recovery'.pending[c] \in {0, RoundKnown.pending[c]}
              /\ recovery'.pending[c] = RoundNext.pending[c]
              /\ recovery'.retries[c].pic # 0 =>
                    /\ c \notin hopeless /\ recovery'.retries[c].pic = RoundRows[c]
                    /\ \/ RoundKnown.pending[c] = RoundRows[c]
                       \/ recovery.retries[c].pic = RoundRows[c] /\ recovery.seen[c] # {}
  <2>1. recovery'.armed = RoundNext.armed /\ recovery'.pending = RoundNext.pending BY <1>2
  <2>2. recovery'.retries[c].pic \in {0, RoundNext.retries[c].pic} BY <1>2
  <2>3. c \in hopeless => recovery'.retries[c].pic = 0 BY <1>2
  <2>4. RoundNext.retries[c].pic # 0 =>
           /\ recovery.seen[c] # {} /\ RoundNext.retries[c].pic = RoundRows[c]
           /\ RoundKnown.pending[c] = RoundRows[c] \/ recovery.retries[c].pic = RoundRows[c]
    BY <1>3
  <2> QED BY <1>3, <2>1, <2>2, <2>3, <2>4
<1>4. Wallpaper \subseteq OrNone /\ 0 \in OrNone BY RecoveryBounds DEF Wallpaper, OrNone
<1>5. \A c \in Connector : RoundRows[c] \in Wallpaper BY <1>0, RowsAre
<1>6. /\ intents' \in [Connector -> SUBSET [epoch : Nat, stopped : BOOLEAN]]
      /\ \A c \in Connector : \A i, j \in intents'[c] : i = j
      /\ EpochsOrdered'
      /\ \A c \in Connector : IF c \in done THEN ~IsStopped(c)' ELSE IsStopped(c)' = IsStopped(c)
  <2>1. CASE done = {}
    <3>1. intents' = intents BY <1>2, <2>1
    <3> QED BY <1>0, <2>1, <3>1 DEF RecoveryTypeOK, EpochsOrdered, IsStopped
  <2>2. CASE done # {}
    <3>1. intents' = WithIntents(done, FALSE) BY <1>2, <2>2
    <3> QED BY <3>1, IntentsKept
  <2> QED BY <2>1, <2>2
<1>7. \A c \in Connector : ~IsStopped(c)' => ~IsStopped(c) BY <1>2, <1>3, <1>6
<1>8. saved' \in [Connector -> OrNone] /\ \A c \in Connector : SavedFor(c)' = RoundRows[c]
  <2>1. saved' \in [Connector -> OrNone] BY <1>0, <1>1, RowsAre
  <2>2. ASSUME NEW c \in Connector PROVE SavedFor(c)' = RoundRows[c] BY <1>1 DEF SavedFor, RoundRows
  <2> QED BY <2>1, <2>2
<1>9. claim' \subseteq Sighting BY <1>0, <1>2, SightingsFit
<1>10. rendered' \in [Connector -> OrNone]
  <2>1. \A c \in Connector : RoundRows[c] \in OrNone BY <1>4, <1>5
  <2> QED BY <1>0, <1>2, <2>1 DEF RecoveryTypeOK
<1>11. RecoveryTypeOK'
  <2>1. /\ plugged' \in [Connector -> SUBSET Monitor] /\ template' \in Wallpaper
        /\ halted' \subseteq Connector /\ plugs' \in 0 .. MaxPlugs /\ orders' \in 0 .. MaxOrders
        /\ \A c \in Connector : \A m, n \in plugged'[c] : m = n
    BY <1>0, <1>1 DEF RecoveryTypeOK
  <2>2. recovery' \in Memory /\ promised' \in [Connector -> OrNone] /\ upsets' \in 0 .. MaxUpsets BY <1>2
  <2> QED BY <1>6, <1>8, <1>9, <1>10, <2>1, <2>2 DEF RecoveryTypeOK
<1>12. \A c \in Connector : RoundRows[c] \in 1 .. orders + 1
  <2>1. ASSUME NEW c \in Connector PROVE SavedFor(c) \in 1 .. orders + 1
    BY <1>0 DEF PicsFit, SavedFor
  <2>2. ASSUME NEW c \in Connector, NEW p \in Connector, Taken(p, c), RoundFirst.pending[p] = RoundRows[c]
        PROVE  RoundRows[c] = SavedFor(p)
    BY <1>0, <2>2, TakenIs
  <2> QED BY <1>0, <2>1, <2>2, RowsAre
<1>13. PicsFit'
  <2>1. orders' = orders /\ template' \in 1 .. orders + 1 BY <1>0, <1>1 DEF PicsFit
  <2>2. orders \in Nat BY <1>0 DEF RecoveryTypeOK
  <2>3. ASSUME NEW c \in Connector PROVE saved'[c] \in 0 .. orders + 1
    BY <1>0, <1>1, <1>12, RowsAre, <2>2 DEF PicsFit
  <2>4. saved' \in [Connector -> 0 .. orders + 1] BY <1>8, <2>3
  <2>5. ASSUME NEW c \in Connector, RoundFirst.pending[c] # 0 PROVE RoundFirst.pending[c] \in 0 .. orders + 1
    BY <1>0, <2>5, FirstIs DEF PicsFit
  <2>6. ASSUME NEW c \in Connector PROVE RoundKnown.pending[c] \in 0 .. orders + 1
    <3>1. \/ RoundKnown.pending[c] = 0
          \/ RoundKnown.pending[c] = saved'[c]
          \/ RoundKnown.pending[c] = RoundFirst.pending[c] /\ RoundFirst.pending[c] # 0
      BY <1>0, <1>1, KnownIs
    <3> QED BY <2>2, <2>3, <2>5, <3>1
  <2>7. ASSUME NEW c \in Connector
        PROVE  {recovery'.armed[c], recovery'.pending[c], recovery'.retries[c].pic} \subseteq 0 .. orders + 1
    <3>1. recovery'.armed[c] \in 0 .. orders + 1 BY <1>12, <1>16, <2>2
    <3>2. recovery'.pending[c] \in 0 .. orders + 1 BY <1>16, <2>2, <2>6
    <3>3. recovery'.retries[c].pic \in 0 .. orders + 1
      <4>1. recovery'.retries[c].pic = 0 \/ recovery'.retries[c].pic = RoundRows[c] BY <1>16
      <4> QED BY <1>12, <2>2, <4>1
    <3> QED BY <3>1, <3>2, <3>3
  <2> QED BY <2>1, <2>4, <2>7 DEF PicsFit
<1>14. PlugsApart' BY <1>0, <1>1, <1>2 DEF PlugsApart
<1>15. MemoryClaimed'
  <2>1. SUFFICES ASSUME NEW c \in Connector,
                        NEW x \in {recovery'.armed[c], recovery'.pending[c], recovery'.retries[c].pic},
                        Live(c, x)'
                 PROVE  [at |-> c, pic |-> x] \in claim'
    BY DEF MemoryClaimed, Sighted
  <2>2. x # 0 /\ x = RoundRows[c] /\ ~IsStopped(c) BY <1>7, <1>8, <2>1 DEF Live
  <2> DEFINE k == [at |-> c, pic |-> x]
  <2>3. k \in Sighting /\ k.at = c /\ k.pic = x BY <1>5, <2>2 DEF Sighting
  <2>4. CASE c \in RoundConfirmed BY <1>2, <2>2, <2>3, <2>4
  <2>5. CASE c \notin RoundConfirmed
    <3>1. k \in RoundSightings
      <4>1. \/ RoundKnown.pending[c] = RoundRows[c]
            \/ recovery.retries[c].pic = RoundRows[c] /\ recovery.seen[c] # {}
        BY <1>16, <2>1, <2>2, <2>5
      <4> QED BY <2>2, <4>1, RoundBacked
    <3>2. c \notin hopeless \/ RoundNext.pending[c] # 0 BY <1>16, <2>1, <2>2, <2>5
    <3> QED BY <1>2, <2>3, <2>5, <3>1, <3>2
  <2> QED BY <2>4, <2>5
<1> QED BY <1>6, <1>11, <1>13, <1>14, <1>15 DEF RecoveryIInv

LEMMA RecoveryStep == RecoveryIInv /\ [RecoveryNext]_recoveryVars => RecoveryIInv'
<1> SUFFICES ASSUME RecoveryIInv, [RecoveryNext]_recoveryVars PROVE RecoveryIInv' OBVIOUS
<1>1. CASE \E c \in Connector : Unplug(c) \/ Die(c) \/ \E m \in Monitor : Plug(c, m) BY <1>1, MonitorsKeep
<1>2. CASE UserStep BY <1>2, UserKeeps
<1>3. CASE Round BY <1>3, RoundKeeps
<1>4. CASE SnapshotFails \/ WatcherEnds \/ ReadOutputs \/ \E c \in Connector : RetryDue(c) BY <1>4, EndsKeep
<1>5. CASE UNCHANGED recoveryVars
  BY <1>5 DEF recoveryVars, displays, RecoveryIInv, RecoveryTypeOK, PicsFit, PlugsApart, EpochsOrdered,
              MemoryClaimed, Live, Sighted, SavedFor, IsStopped
<1> QED BY <1>1, <1>2, <1>3, <1>4, <1>5 DEF RecoveryNext, WatcherStep

LEMMA RecoveryInvariant == RecoverySpec => []RecoveryIInv
BY RecoveryStart, RecoveryStep, PTL DEF RecoverySpec

\* The types of what the watcher remembers and of what it works on.
THEOREM RecoveryTypesCorrect == RecoverySpec => []RecoveryTypeOK
<1>1. RecoveryIInv => RecoveryTypeOK BY DEF RecoveryIInv
<1> QED BY <1>1, RecoveryInvariant, PTL

\* The watcher brings back what it has seen at an output, and is still wanted there.
THEOREM RestoresWanted == RecoverySpec => RestoreWanted
<1> DEFINE Wanted == \A c \in Connector : BroughtBack(c) =>
                        /\ ~IsStopped(c)
                        /\ rendered'[c] = SavedFor(c)'
                        /\ \E k \in claim' : k.at = c /\ k.pic = rendered'[c]
<1>1. RecoveryIInv /\ [RecoveryNext]_recoveryVars => [Wanted]_recoveryVars
  <2> SUFFICES ASSUME RecoveryIInv, RecoveryNext, NEW c \in Connector, BroughtBack(c)
               PROVE  /\ ~IsStopped(c)
                      /\ rendered'[c] = SavedFor(c)'
                      /\ \E k \in claim' : k.at = c /\ k.pic = rendered'[c]
    OBVIOUS
  <2>0. RecoveryTypeOK BY DEF RecoveryIInv
  <2>1. recovery.pc = "round" /\ recovery'.pc = "rest" /\ rendered' # rendered /\ rendered'[c] # rendered[c]
    BY DEF BroughtBack
  <2>2. Round
    <3>1. CASE UserStep
      <4>1. recovery' = recovery
        BY <2>1, <3>1 DEF UserStep, ApplyOutputs, Restore, StopOutput, StopAll, StopOutputs, Ensured
      <4> QED BY <2>1, <4>1
    <3>2. CASE \E d \in Connector : Unplug(d) \/ Die(d) \/ \E m \in Monitor : Plug(d, m)
      BY <2>1, <3>2 DEF Unplug, Die, Plug
    <3>3. CASE SnapshotFails \/ WatcherEnds \/ ReadOutputs \/ \E d \in Connector : RetryDue(d)
      BY <2>1, <3>3 DEF SnapshotFails, WatcherEnds, ReadOutputs, RetryDue, displays
    <3> QED BY <3>1, <3>2, <3>3 DEF RecoveryNext, WatcherStep
  <2>3. PICK done \in SUBSET Connector, hopeless \in SUBSET Connector :
           /\ \A d \in done : RoundNext.retries[d].due /\ d \notin hopeless
           /\ rendered' = [d \in Connector |-> IF d \in done THEN RoundRows[d] ELSE rendered[d]]
           /\ claim' = {k \in RoundSightings :
                           k.at \notin RoundConfirmed \cup {d \in hopeless : RoundNext.pending[d] = 0}}
                         \cup {k \in Sighting : k.at \in RoundConfirmed /\ k.pic = RoundRows[k.at]}
    BY <2>0, <2>2, RoundEnds
  <2>4. c \in done /\ rendered'[c] = RoundRows[c] /\ RoundRows[c] # rendered[c]
    BY <2>1, <2>3
  <2>5. RoundNext.retries[c].due /\ c \notin hopeless BY <2>3, <2>4
  <2>6. ~IsStopped(c) /\ recovery.seen[c] # {} /\ recovery.retries[c].pic = RoundRows[c]
    <3>1. RoundNext.retries[c].pic # 0 BY <2>0, <2>5, NextIs
    <3> QED BY <2>0, <2>5, <3>1, NextIs
  <2>7. RoundRows[c] = SavedFor(c)'
    <3>1. saved' = SavedThen(RoundFirst) /\ template' = template BY <2>2, RoundParts
    <3> QED BY <3>1 DEF SavedFor, RoundRows
  <2>8. [at |-> c, pic |-> RoundRows[c]] \in RoundSightings BY <2>6, RoundBacked
  <2>9. c \notin RoundConfirmed BY <2>4 DEF RoundConfirmed
  <2>10. [at |-> c, pic |-> RoundRows[c]] \in claim' BY <2>3, <2>5, <2>8, <2>9
  <2> QED BY <2>4, <2>6, <2>7, <2>10
<1> QED BY <1>1, RecoveryInvariant, PTL DEF RecoverySpec, RestoreWanted, Wanted
-----------------------------------------------------------------------------
(* All of them together.                                                   *)

\* What TLC runs side by side is, for the variables of each part, a behaviour of this part: so
\* all that is proved of a part holds in the run.
LEMMA SessionRunsItsParts == SessionSpec => Spec /\ RecoverySpec /\ RuntimeViewSpec /\ PagedSpec
<1>1. SessionInit => Init /\ RecoveryInit /\ RuntimeViewInit /\ PagedInit BY DEF SessionInit
<1>2. [SessionNext]_sessionVars
        => /\ [Next]_vars /\ [RecoveryNext]_recoveryVars
           /\ [RuntimeViewNext]_runtimeVars /\ [PagedNext]_pagedVars
  BY DEF SessionNext, sessionVars
<1> QED BY <1>1, <1>2, PTL DEF SessionSpec, Spec, RecoverySpec, RuntimeViewSpec, PagedSpec

\* Every variable of the run has its type, for any values of the constants.
THEOREM SessionTypesCorrect == SessionSpec => []SessionTypeOK
<1>1. TypeOK /\ RecoveryTypeOK /\ RuntimeViewTypeOK /\ PagedTypeOK => SessionTypeOK BY DEF SessionTypeOK
<1> QED BY <1>1, SessionRunsItsParts, TypeCorrect, RecoveryTypesCorrect, ViewTypesCorrect, PagedTypesCorrect, PTL
==============================================================================
