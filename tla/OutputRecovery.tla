---------------------------- MODULE OutputRecovery ----------------------------
(***************************************************************************)
(* The watcher of the displays (wc-app output_recovery.rs watch_displays): *)
(* a process that looks at the outputs of the compositor three times a     *)
(* second and brings the wallpaper back to one that was disconnected and   *)
(* has returned.  What it remembers is in memory: an output is armed while *)
(* the watcher sees its saved wallpaper on it, pending while it is away,   *)
(* and to be restored, with retries, when it is back.                      *)
(*                                                                         *)
(* A round reads the outputs first and takes the mutation lock then; the   *)
(* rest of it is one step here, and so are the operations of the user,     *)
(* which DisplayOperation has in detail.  A monitor with a unique identity *)
(* takes its wallpaper along to another connector.                         *)
(***************************************************************************)
EXTENDS Naturals, FiniteSets

CONSTANTS
    Connector,     \* names of outputs
    Monitor,       \* what can be connected to one
    Identified,    \* monitors with a unique hardware identity
    Attempts,      \* length of RETRY_DELAYS
    SnapshotLimit, \* failed snapshots in a row that end the watcher: 10
    \* Bounds of the model.
    MaxPlugs,      \* monitors connected or disconnected
    MaxOrders,     \* operations of the user
    MaxUpsets      \* failures of any kind

ASSUME RecoveryBounds ==
    /\ Identified \subseteq Monitor
    /\ Monitor \cap Connector = {} /\ IsFiniteSet(Connector)
    /\ Attempts \in Nat /\ SnapshotLimit \in Nat \ {0}
    /\ MaxPlugs \in Nat /\ MaxOrders \in Nat /\ MaxUpsets \in Nat

VARIABLES
    plugged,   \* plugged[c]: the monitor at c
    rendered,     \* rendered[c]: wallpaper rendered at c, or 0
    saved,     \* saved[c]: wallpaper of the row of c, or 0
    template,  \* wallpaper of the row of all displays
    intents,   \* intents[c]: epoch and stop flag of c in the intents file
    recovery,  \* the watcher
    claim,     \* history: what this watcher has seen at a connector, or the user put there, until he stops it
    promised,      \* history: promised[c]: what the watcher is to bring back at c, or 0
    halted,    \* history: connectors nothing was applied to since all displays were stopped
    plugs, orders, upsets

displays == <<plugged, rendered, saved, template, intents>>
recoveryVars == <<displays, recovery, claim, promised, halted, plugs, orders, upsets>>

Wallpaper == 1 .. MaxOrders + 1
OrNone == 0 .. MaxOrders + 1

\* A row of its own, else the template.
SavedFor(c) == IF saved[c] # 0 THEN saved[c] ELSE template

Plugged == {c \in Connector : plugged[c] # {}}

Nowhere == [c \in Connector |-> 0]
Cleared(f, cs) == [c \in Connector |-> IF c \in cs THEN 0 ELSE f[c]]

IsStopped(c) == \E i \in intents[c] : i.stopped

LastEpoch ==
    LET used == {0} \cup {i.epoch : i \in UNION {intents[c] : c \in Connector}} IN
    CHOOSE e \in used : \A f \in used : f <= e

\* write_session_intents
WithIntents(cs, stopped) ==
    [c \in Connector |-> IF c \in cs THEN {[epoch |-> LastEpoch + 1, stopped |-> stopped]} ELSE intents[c]]

NoRetry == [pic |-> 0, attempt |-> 0, due |-> FALSE]

\* A watcher that has just started. tracked: RecoveryTracker.enabled; outputs: last_outputs;
\* epochs: previous_intents; seen: the outputs read for the round.
Fresh == [pc |-> "rest", tracked |-> {}, armed |-> Nowhere, pending |-> Nowhere,
          retries |-> [c \in Connector |-> NoRetry],
          outputs |-> [c \in Connector |-> {}], epochs |-> [c \in Connector |-> {}],
          seen |-> [c \in Connector |-> {}], failures |-> 0]
Ended == [Fresh EXCEPT !.pc = "off"]

\* pic has been rendered at the connector at.
Sighting == [at : Connector, pic : Wallpaper]

\* matching_previous, for a monitor that is back at c.
Expected(m, c) == IF m \in Identified THEN recovery.outputs[c] = {m}
                  ELSE recovery.outputs[c] # {} /\ recovery.outputs[c] \cap Identified = {}

RecoveryInit ==
    /\ plugged \in [Connector -> {{}} \cup {{m} : m \in Monitor}]
    /\ \A c, d \in Connector : c # d => plugged[c] \cap plugged[d] = {}
    /\ template = 1 /\ saved = Nowhere
    /\ rendered = [c \in Connector |-> IF plugged[c] = {} THEN 0 ELSE 1]
    /\ intents = [c \in Connector |-> {}]
    /\ recovery = Fresh
    /\ claim = {} /\ halted = {} /\ promised = Nowhere
    /\ plugs = 0 /\ orders = 0 /\ upsets = 0

-----------------------------------------------------------------------------
(* The monitors.                                                           *)

\* What renders to an output goes with it.
Unplug(c) ==
    /\ plugged[c] # {} /\ plugs < MaxPlugs /\ plugs' = plugs + 1
    /\ plugged' = [plugged EXCEPT ![c] = {}]
    /\ rendered' = [rendered EXCEPT ![c] = 0]
    /\ promised' = Cleared(promised, {c})
    /\ UNCHANGED <<saved, template, intents, recovery, claim, halted, orders, upsets>>

Plug(c, m) ==
    /\ plugged[c] = {} /\ \A d \in Connector : m \notin plugged[d]
    /\ plugs < MaxPlugs /\ plugs' = plugs + 1
    /\ plugged' = [plugged EXCEPT ![c] = {m}]
    /\ promised' = [promised EXCEPT ![c] =
                   IF recovery.pc = "rest" /\ recovery.pending[c] = SavedFor(c) /\ ~IsStopped(c) /\ Expected(m, c)
                   THEN SavedFor(c) ELSE 0]
    /\ UNCHANGED <<rendered, saved, template, intents, recovery, claim, halted, orders, upsets>>

-----------------------------------------------------------------------------
(* The user.                                                               *)

Order == orders < MaxOrders /\ orders' = orders + 1

\* He wants nothing there, or something else.
Untouched(cs) == {k \in claim : k.at \notin cs}

\* He has put pic there.
Put(cs, pic) == Untouched(cs) \cup [at : cs, pic : {pic}]

\* A monitor with an identity, last seen at k.at, has taken its wallpaper along.
Moved(k, pairs) ==
    LET to == {c \in Connector : /\ <<k.at, c>> \in pairs
                                 /\ recovery.seen[c] \subseteq Identified
                                 /\ recovery.seen[c] = recovery.outputs[k.at]} IN
    IF to = {} THEN k ELSE [k EXCEPT !.at = CHOOSE c \in to : TRUE]

\* ensure_watcher: one that has ended is started again.
Ensured == IF recovery.pc = "off" THEN Fresh ELSE recovery

\* A new wallpaper for one output, or for all of them: then the rows of those that are not
\* connected stay.
ApplyOutputs(cs) ==
    /\ Order
    /\ LET w == orders + 2 IN
          \/ /\ \E c \in cs : cs = {c} /\ saved' = [saved EXCEPT ![c] = w]
             /\ UNCHANGED template
          \/ /\ cs = Plugged /\ template' = w
             /\ saved' = Cleared(saved, cs)
    /\ rendered' = [c \in Connector |-> IF c \in cs THEN orders + 2 ELSE rendered[c]]
    /\ intents' = WithIntents(cs, FALSE)
    /\ recovery' = Ensured
    /\ claim' = Put(cs, orders + 2) /\ promised' = Cleared(promised, cs)
    /\ halted' = halted \ cs
    /\ UNCHANGED <<plugged, plugs, upsets>>

\* The user asks for what is saved.
Restore(c) ==
    /\ Order
    /\ rendered' = [rendered EXCEPT ![c] = SavedFor(c)]
    /\ intents' = WithIntents({c}, FALSE)
    /\ recovery' = Ensured
    /\ claim' = Put({c}, SavedFor(c)) /\ promised' = Cleared(promised, {c})
    /\ halted' = halted \ {c}
    /\ UNCHANGED <<plugged, saved, template, plugs, upsets>>

\* An output is stopped by name also when it is not connected. The rows stay.
StopOutputs(cs) ==
    /\ Order
    /\ rendered' = Cleared(rendered, cs)
    /\ intents' = WithIntents(cs, TRUE)
    /\ claim' = Untouched(cs) /\ promised' = Cleared(promised, cs)
    /\ UNCHANGED <<plugged, saved, template, recovery, plugs, upsets>>

StopOutput(c) == StopOutputs({c}) /\ UNCHANGED halted

\* All displays are those that are connected.
StopAll == Plugged # {} /\ StopOutputs(Plugged) /\ halted' = Connector

\* A renderer dies.
Die(c) ==
    /\ rendered[c] # 0 /\ upsets < MaxUpsets /\ upsets' = upsets + 1
    /\ rendered' = [rendered EXCEPT ![c] = 0]
    /\ UNCHANGED <<plugged, saved, template, intents, recovery, claim, promised, halted, plugs, orders>>

-----------------------------------------------------------------------------
(* A round of the watcher, in the order of the code: what it knows, r, goes *)
(* from one part to the next.                                               *)

ReadOutputs ==
    /\ recovery.pc = "rest"
    /\ recovery' = [recovery EXCEPT !.pc = "round", !.seen = plugged, !.failures = 0]
    /\ UNCHANGED <<displays, claim, promised, halted, plugs, orders, upsets>>

Enabled(r) == {c \in Connector : r.seen[c] # {}}

Forgotten(r, cs) == [r EXCEPT !.armed = Cleared(@, cs), !.pending = Cleared(@, cs)]

StopsHeeded(r) == Forgotten(r, {c \in Connector : IsStopped(c)})

\* Mutant: the outputs of this round are taken for tracked before their return is looked for.
RememberedEarly(r) ==
    LET gone == {c \in r.tracked \ Enabled(r) : r.armed[c] # 0} IN
    [r EXCEPT !.tracked = Enabled(r), !.armed = Cleared(@, gone),
              !.pending = [c \in Connector |-> IF c \in gone THEN r.armed[c] ELSE @[c]]]

\* remember_disconnected
Remembered(r) ==
    LET gone == {c \in r.tracked \ Enabled(r) : r.armed[c] # 0} IN
    [r EXCEPT !.armed = Cleared(@, r.tracked \ Enabled(r)),
              !.pending = [c \in Connector |-> IF c \in gone THEN r.armed[c] ELSE @[c]]]

\* Mutant: a monitor without an identity is taken for any such monitor.
PreviousOfAny(r, c) ==
    {p \in Connector : IF r.seen[c] \subseteq Identified THEN r.outputs[p] = r.seen[c]
                       ELSE r.outputs[p] # {} /\ r.outputs[p] \cap Identified = {}}

\* matching_previous: where the monitor at c was seen last.
PreviousOf(r, c) ==
    {p \in Connector : IF r.seen[c] \subseteq Identified THEN r.outputs[p] = r.seen[c]
                       ELSE p = c /\ r.outputs[p] # {} /\ r.outputs[p] \cap Identified = {}}

\* Pairs of connectors: a monitor that was awaited at p is at c now, and p is free.
Moves(r) ==
    {x \in Connector \X Connector :
        /\ x[2] \in Enabled(r) /\ x[1] \in PreviousOf(r, x[2]) \ Enabled(r)
        /\ r.pending[x[1]] # 0}

\* It may take its wallpaper along, unless the user wants otherwise by now ...
Rejected(x, r) == IsStopped(x[2]) \/ SavedFor(x[1]) # r.pending[x[1]]

\* ... and does where it finds no row.
Adopted(r) == {x \in Moves(r) : ~Rejected(x, r) /\ saved[x[2]] = 0}

SavedThen(r) == [c \in Connector |-> IF \E p \in Connector : <<p, c>> \in Adopted(r)
                                    THEN SavedFor(CHOOSE p \in Connector : <<p, c>> \in Adopted(r))
                                    ELSE saved[c]]

\* Another monitor is where one was awaited.
Replaced(r) == {c \in Enabled(r) : PreviousOf(r, c) = {} /\ r.outputs[c] # {}}

Renamed(r) ==
    LET dropped == {x[1] : x \in {y \in Moves(r) : Rejected(y, r)} \cup Adopted(r)} \cup Replaced(r) IN
    [r EXCEPT
        !.armed = Cleared(@, Replaced(r)),
        !.pending = [c \in Connector |-> IF \E p \in Connector : <<p, c>> \in Adopted(r)
                                         THEN SavedThen(r)[c] ELSE Cleared(@, dropped)[c]],
        !.retries = [c \in Connector |-> IF c \in Replaced(r) THEN NoRetry ELSE @[c]],
        !.outputs = [c \in Connector |->
            CASE c \in Enabled(r) -> r.seen[c]
              [] c \notin Enabled(r) /\ @[c] \subseteq Identified /\ (\E d \in Enabled(r) : r.seen[d] = @[c]) -> {}
              [] OTHER -> @[c]]]

\* Operations of others since the last round, and the watcher's own.
EpochsHeeded(r) ==
    LET current == [c \in Connector |-> {i.epoch : i \in intents[c]}]
        changed == {c \in Connector : r.epochs[c] # {} /\ r.epochs[c] # current[c]} IN
    [Forgotten(r, changed) EXCEPT
        !.retries = [c \in Connector |-> IF c \in changed THEN NoRetry ELSE @[c]],
        !.epochs = current]

\* RecoveryTracker::advance: r with the rows of the round, and those it sees rendered.
Advanced(r, rows, confirmed) ==
    LET back == Enabled(r) \ r.tracked
        found == {c \in back : r.pending[c] # 0 /\ r.pending[c] = rows[c]}
        wanted(c) == c \in Enabled(r) /\ ~IsStopped(c) IN
    [r EXCEPT
        !.tracked = Enabled(r),
        !.pending = Cleared(@, back),
        !.armed = [c \in Connector |-> IF c \in confirmed THEN rows[c] ELSE 0],
        !.retries = [c \in Connector |->
            LET t == IF c \in found THEN [NoRetry EXCEPT !.pic = rows[c]] ELSE @[c] IN
            IF wanted(c) /\ t.pic = rows[c] THEN t ELSE NoRetry]]

\* A retry that has failed for a reason that may pass.
Again(t) == IF t.attempt < Attempts THEN [t EXCEPT !.attempt = @ + 1, !.due = FALSE] ELSE NoRetry

\* The restores that are due succeed if the outputs are still as they were read; else, or for
\* another reason, they fail, and are tried again or given up.
Restores(next, rows, confirmed, sightings) ==
    LET due == {c \in Connector : next.retries[c].due}
        may == IF recovery.seen = plugged THEN SUBSET due ELSE {{}} IN
    \E done \in may, hopeless \in SUBSET due :
       LET retries == [c \in Connector |->
               CASE c \in done \cup hopeless -> NoRetry
                 [] c \in due \ (done \cup hopeless) -> Again(next.retries[c])
                 [] OTHER -> next.retries[c]]
           dropped == {c \in due : retries[c] = NoRetry} IN
       /\ done \cap hopeless = {}
       /\ upsets' = IF recovery.seen = plugged THEN upsets + Cardinality(due \ done) ELSE upsets
       /\ upsets' <= MaxUpsets
       /\ recovery' = [next EXCEPT !.pc = "rest", !.seen = Ended.seen, !.retries = retries]
       /\ rendered' = [c \in Connector |-> IF c \in done THEN rows[c] ELSE rendered[c]]
       /\ intents' = IF done = {} THEN intents ELSE WithIntents(done, FALSE)
       /\ promised' = Cleared(promised, confirmed \cup dropped)
       /\ claim' = {k \in sightings : k.at \notin confirmed \cup {c \in hopeless : next.pending[c] = 0}}
                     \cup {k \in Sighting : k.at \in confirmed /\ k.pic = rows[k.at]}

Round ==
    /\ recovery.pc = "round"
    /\ \E first \in {Remembered(StopsHeeded(recovery))} :
       \E then \in {SavedThen(first)}, known \in {EpochsHeeded(Renamed(first))} :
       \E rows \in {[c \in Connector |-> IF then[c] # 0 THEN then[c] ELSE template]} :
       \E confirmed \in {{c \in Enabled(known) : rendered[c] = rows[c] /\ ~IsStopped(c)}} :
       \E next \in {Advanced(known, rows, confirmed)} :
          /\ saved' = then
          /\ Restores(next, rows, confirmed, {Moved(k, Adopted(first)) : k \in claim})
    /\ UNCHANGED <<plugged, template, halted, plugs, orders>>

\* The delay of a retry has passed.
RetryDue(c) ==
    /\ recovery.retries[c].pic # 0 /\ ~recovery.retries[c].due
    /\ recovery' = [recovery EXCEPT !.retries[c].due = TRUE]
    /\ UNCHANGED <<displays, claim, promised, halted, plugs, orders, upsets>>

Upset == upsets < MaxUpsets /\ upsets' = upsets + 1

SnapshotFails ==
    /\ recovery.pc = "rest" /\ Upset
    /\ IF recovery.failures + 1 = SnapshotLimit
       THEN recovery' = Ended /\ claim' = {} /\ promised' = Nowhere
       ELSE recovery' = [recovery EXCEPT !.failures = @ + 1] /\ UNCHANGED <<claim, promised>>
    /\ UNCHANGED <<displays, halted, plugs, orders>>

\* The lock or the storage fails in a round; or the executable was replaced, before one, and
\* the new one starts with nothing in memory, unless it cannot be started.
WatcherEnds ==
    /\ recovery.pc # "off" /\ Upset
    /\ recovery' = Ended \/ (recovery.pc = "rest" /\ recovery' = Fresh)
    /\ claim' = {} /\ promised' = Nowhere
    /\ UNCHANGED <<displays, halted, plugs, orders>>

-----------------------------------------------------------------------------
WatcherStep == ReadOutputs \/ Round

UserStep ==
    \/ Plugged # {} /\ ApplyOutputs(Plugged)
    \/ StopAll
    \/ \E c \in Connector : StopOutput(c) \/ (c \in Plugged /\ (ApplyOutputs({c}) \/ Restore(c)))

RecoveryNext ==
    \/ \E c \in Connector : Unplug(c) \/ Die(c) \/ RetryDue(c) \/ \E m \in Monitor : Plug(c, m)
    \/ UserStep \/ WatcherStep \/ SnapshotFails \/ WatcherEnds

\* The watcher goes round, and delays pass.
RecoveryFairness == WF_recoveryVars(WatcherStep) /\ \A c \in Connector : WF_recoveryVars(RetryDue(c))

RecoverySpec == RecoveryInit /\ [][RecoveryNext]_recoveryVars
RecoveryFairSpec == RecoverySpec /\ RecoveryFairness

-----------------------------------------------------------------------------
\* What the watcher remembers.
Memory == [pc : {"off", "rest", "round"}, tracked : SUBSET Connector,
           armed : [Connector -> OrNone], pending : [Connector -> OrNone],
           retries : [Connector -> [pic : OrNone, attempt : 0 .. Attempts, due : BOOLEAN]],
           outputs : [Connector -> SUBSET Monitor], epochs : [Connector -> SUBSET Nat],
           seen : [Connector -> SUBSET Monitor], failures : 0 .. SnapshotLimit - 1]

\* Every variable has its type: one monitor at a connector, one intent for it.
RecoveryTypeOK ==
    /\ plugged \in [Connector -> SUBSET Monitor]
    /\ rendered \in [Connector -> OrNone] /\ saved \in [Connector -> OrNone] /\ template \in Wallpaper
    /\ intents \in [Connector -> SUBSET [epoch : Nat, stopped : BOOLEAN]]
    /\ \A c \in Connector : /\ \A m, n \in plugged[c] : m = n
                            /\ \A i, j \in intents[c] : i = j
    /\ recovery \in Memory
    /\ claim \subseteq Sighting /\ promised \in [Connector -> OrNone] /\ halted \subseteq Connector
    /\ plugs \in 0 .. MaxPlugs /\ orders \in 0 .. MaxOrders /\ upsets \in 0 .. MaxUpsets

\* c is brought back by the watcher in this step.
BroughtBack(c) == recovery.pc = "round" /\ recovery'.pc = "rest" /\ rendered'[c] # rendered[c]

\* The watcher brings back only what it has seen at that connector, or at the one from which a
\* monitor with an identity came, what is still its saved wallpaper, and what the user has
\* neither stopped nor replaced since; nor does it bring back what it has given up.
RestoreWanted ==
    [][\A c \in Connector : BroughtBack(c) =>
          /\ ~IsStopped(c)
          /\ rendered'[c] = SavedFor(c)'
          /\ \E k \in claim' : k.at = c /\ k.pic = rendered'[c]]_recoveryVars

\* After a Stop of all displays the watcher brings none back until something is applied to it
\* (README: Stop cancels automatic recovery in the current session).
StopCancelsRecovery == [][\A c \in halted : ~BroughtBack(c)]_recoveryVars

\* An output that the watcher awaits, and that is back, shows its wallpaper again in the end,
\* unless it goes away again, the user has another wish for it, or the watcher gives up or ends.
ReturnRestored == \A c \in Connector : promised[c] # 0 ~> (promised[c] = 0 \/ rendered[c] = promised[c])
=============================================================================
