----------------------------- MODULE WatchRegistry -----------------------------
(***************************************************************************)
(* The watchers of the library's sources (src-tauri library_scheduler.rs): *)
(* one thread per watched source, made anew under a fresh generation when  *)
(* it fails or its source is configured otherwise.  The threads report     *)
(* through one queue to the loop of the scheduler, which keeps the         *)
(* registry; a thread that has been retired reports on until it sees its   *)
(* stop flag.                                                              *)
(*                                                                         *)
(* A failed watcher is replaced after a delay.  What changes meanwhile     *)
(* nobody sees, so that its successor, when it is ready, makes the source  *)
(* due: a recovery, tried again until it is stored.                        *)
(***************************************************************************)
EXTENDS Naturals, Sequences, FiniteSets

Maps == INSTANCE Functions

CONSTANTS
    Watchable,       \* ids of configured sources
    \* Bounds of the model.
    MaxGeneration,   \* watchers made; the code stops at 2^64
    MaxSignature,    \* times a source is configured otherwise
    MaxEdits,        \* changes on disk
    MaxFailures      \* failures of watchers and of recoveries to be stored

ASSUME SourcesAssumption == IsFiniteSet(Watchable) /\ Watchable # {}
ASSUME RegistryBounds ==
    /\ MaxGeneration \in Nat /\ MaxSignature \in Nat
    /\ MaxEdits \in Nat /\ MaxFailures \in Nat

VARIABLES
    listed,      \* listed[s]: signature (path, recursive) of s in the catalog; {} when removed
    registered,  \* registered[s]: watchers, its WatchHandle if it has one
    retrying,    \* retrying[s]: retry_states; due: the delay has passed
    recovering,  \* recovering[s]: pending_recoveries; due: the delay has passed
    generations, \* generations used so far
    thread,      \* thread[g]: the watcher of generation g
    inbox,       \* messages of the threads to the loop
    edits, failures,
    blind,       \* history: the watcher of s failed and none watches since
    unseen       \* history: a change of s that was not made pending yet

registry == <<registered, retrying, recovering, generations>>
registryVars == <<listed, registry, thread, inbox, edits, failures, blind, unseen>>

Generation == 1 .. MaxGeneration
Signature == 0 .. MaxSignature
Message == [kind : {"ready", "changed", "failed", "overflow"}, gen : Generation]

\* unread: events of the kernel that the thread has not read.
NoThread == [src |-> CHOOSE s \in Watchable : TRUE, sig |-> 0, pc |-> "none", stop |-> FALSE, unread |-> FALSE]

\* The registered watcher of its source.
IsCurrent(g) == \E h \in registered[thread[g].src] : h.gen = g
OfCurrentSignature(g) == listed[thread[g].src] = {thread[g].sig}

RegistryInit ==
    /\ listed = [s \in Watchable |-> {0}]
    /\ registered = [s \in Watchable |-> {}]
    /\ retrying = [s \in Watchable |-> {}]
    /\ recovering = [s \in Watchable |-> {}]
    /\ generations = 0
    /\ thread = [g \in Generation |-> NoThread]
    /\ inbox = <<>>
    /\ edits = 0 /\ failures = 0
    /\ blind = [s \in Watchable |-> FALSE]
    /\ unseen = [s \in Watchable |-> FALSE]

-----------------------------------------------------------------------------
(* The catalog and the disk.                                               *)

\* Whoever configures a source otherwise, or removes it, scans it himself or forgets it.
Settled(s) ==
    /\ blind' = [blind EXCEPT ![s] = FALSE]
    /\ unseen' = [unseen EXCEPT ![s] = FALSE]

Reconfigure(s) ==
    /\ \E g \in listed[s] : g < MaxSignature /\ listed' = [listed EXCEPT ![s] = {g + 1}]
    /\ Settled(s)
    /\ UNCHANGED <<registry, thread, inbox, edits, failures>>

Unlist(s) ==
    /\ listed[s] # {}
    /\ listed' = [listed EXCEPT ![s] = {}]
    /\ Settled(s)
    /\ UNCHANGED <<registry, thread, inbox, edits, failures>>

\* What happens before the first watcher of a configuration is ready is not counted: a scan
\* of its own, and the freshness limit of thirty minutes, have to find it.
Edit(s) ==
    LET watching == {g \in Generation : thread[g].src = s /\ thread[g].pc = "watching"} IN
    /\ edits < MaxEdits /\ edits' = edits + 1
    /\ thread' = [g \in Generation |-> IF g \in watching THEN [thread[g] EXCEPT !.unread = TRUE] ELSE thread[g]]
    /\ unseen' = [unseen EXCEPT ![s] =
          @ \/ blind[s] \/ \E g \in watching : IsCurrent(g) /\ OfCurrentSignature(g)]
    /\ UNCHANGED <<listed, registry, inbox, failures, blind>>

-----------------------------------------------------------------------------
(* The threads.                                                            *)

Sent(kind, g) == inbox' = Append(inbox, [kind |-> kind, gen |-> g])

\* The tree is watched; only now does the thread look at its stop flag.
StartWatching(g) ==
    /\ thread[g].pc = "starting"
    /\ thread' = [thread EXCEPT ![g].pc = "watching"]
    /\ Sent("ready", g)
    /\ blind' = IF OfCurrentSignature(g) /\ ~thread[g].stop
                THEN [blind EXCEPT ![thread[g].src] = FALSE] ELSE blind
    /\ UNCHANGED <<listed, registry, edits, failures, unseen>>

\* No watch descriptors are left, or a read fails; what was unread is lost.
WatcherFails(g) ==
    /\ thread[g].pc \in {"starting", "watching"}
    /\ failures < MaxFailures /\ failures' = failures + 1
    /\ thread' = [thread EXCEPT ![g].pc = "gone", ![g].unread = FALSE]
    /\ Sent("failed", g)
    /\ blind' = IF OfCurrentSignature(g) /\ ~thread[g].stop
                THEN [blind EXCEPT ![thread[g].src] = TRUE] ELSE blind
    /\ UNCHANGED <<listed, registry, edits, unseen>>

\* Events are read; if the kernel dropped some, the message does not say for whom.
ReadEvents(g) ==
    /\ thread[g].pc = "watching" /\ ~thread[g].stop /\ thread[g].unread
    /\ thread' = [thread EXCEPT ![g].unread = FALSE]
    /\ Sent("changed", g) \/ Sent("overflow", g)
    /\ UNCHANGED <<listed, registry, edits, failures, blind, unseen>>

StopWatching(g) ==
    /\ thread[g].pc = "watching" /\ thread[g].stop
    /\ thread' = [thread EXCEPT ![g].pc = "gone", ![g].unread = FALSE]
    /\ UNCHANGED <<listed, registry, inbox, edits, failures, blind, unseen>>

-----------------------------------------------------------------------------
(* The loop: the catalog every two seconds, the messages, the recoveries.  *)

\* The sources whose watcher is not of their signature, or that have none.
Outdated(s) == listed[s] # {} /\ ~\E h \in registered[s] : {h.sig} = listed[s]

\* A retry state counts for the signature it was made with.
RetryOf(s) == {r \in retrying[s] : {r.sig} = listed[s]}

Registers(s) == Outdated(s) /\ \A r \in RetryOf(s) : r.due

\* Those the poll retires are told to stop.
Retired(g) == thread[g].stop \/ (IsCurrent(g) /\ ~OfCurrentSignature(g))

\* reconcile of every source of the catalog, one after the other, then retain_sources.
ReadCatalog ==
    LET new == {s \in Watchable : Registers(s)} IN
    /\ generations' = generations + Cardinality(new)
    /\ generations' <= MaxGeneration
    /\ \E gen \in Maps!Bijection(new, generations + 1 .. generations + Cardinality(new)) :
          /\ registered' = [s \in Watchable |->
                CASE s \in new -> {[sig |-> x, gen |-> gen[s]] : x \in listed[s]}
                  [] s \notin new /\ (Outdated(s) \/ listed[s] = {}) -> {}
                  [] OTHER -> registered[s]]
          /\ thread' = [g \in Generation |->
                IF g > generations /\ g <= generations'
                THEN LET s == CHOOSE s \in new : gen[s] = g IN
                     [NoThread EXCEPT !.src = s, !.sig = CHOOSE x \in listed[s] : TRUE, !.pc = "starting"]
                ELSE [thread[g] EXCEPT !.stop = Retired(g)]]
    /\ retrying' = [s \in Watchable |-> IF Outdated(s) \/ listed[s] = {} THEN RetryOf(s) ELSE retrying[s]]
    /\ recovering' = [s \in Watchable |-> IF listed[s] = {} THEN {} ELSE recovering[s]]
    /\ UNCHANGED <<listed, inbox, edits, failures, blind, unseen>>

\* commit_pending_recovery: s is made due at once, or the attempt fails and is repeated.
Recover(s) ==
    \/ /\ recovering' = [recovering EXCEPT ![s] = {}]
       /\ unseen' = [unseen EXCEPT ![s] = FALSE]
       /\ UNCHANGED failures
    \/ /\ failures < MaxFailures /\ failures' = failures + 1
       /\ recovering' = [recovering EXCEPT ![s] = {FALSE}]
       /\ UNCHANGED unseen

\* Mutant: whatever watcher of the source it is.
CountsForAnybody(g) == TRUE

\* Does the loop heed what the watcher of generation g says?
Counts(g) == IsCurrent(g)

\* A watcher is ready. Only one that follows a failure has something to recover.
Ready(g) ==
    LET s == thread[g].src IN
    IF Counts(g) /\ retrying[s] # {}
    THEN /\ retrying' = [retrying EXCEPT ![s] = {}]
         /\ Recover(s)
         /\ UNCHANGED <<registered, generations>>
    ELSE UNCHANGED <<registry, failures, unseen>>

\* Its source is made dirty and scheduled.
SourceChanged(g) ==
    /\ unseen' = IF Counts(g) THEN [unseen EXCEPT ![thread[g].src] = FALSE] ELSE unseen
    /\ UNCHANGED <<registry, failures>>

\* A watcher has failed. The first failure in a row makes the source dirty, too; each
\* lets the next attempt wait longer.
Failed(g) ==
    LET s == thread[g].src
        handle == {h \in registered[s] : h.gen = g}
        first == ~\E h \in handle, r \in retrying[s] : r.sig = h.sig IN
    IF Counts(g)
    THEN /\ registered' = [registered EXCEPT ![s] = {}]
         /\ recovering' = [recovering EXCEPT ![s] = {}]
         /\ retrying' = [retrying EXCEPT ![s] = {[sig |-> h.sig, due |-> FALSE] : h \in handle}]
         /\ unseen' = IF first THEN [unseen EXCEPT ![s] = FALSE] ELSE unseen
         /\ UNCHANGED <<generations, failures>>
    ELSE UNCHANGED <<registry, failures, unseen>>

\* Every source known to the scheduler is made dirty.
Overflow ==
    /\ unseen' = [s \in Watchable |-> FALSE]
    /\ UNCHANGED <<registry, failures>>

\* process_watch_message
Receive ==
    /\ inbox # <<>> /\ inbox' = Tail(inbox)
    /\ LET m == Head(inbox) IN
          \/ m.kind = "ready" /\ Ready(m.gen)
          \/ m.kind = "changed" /\ SourceChanged(m.gen)
          \/ m.kind = "failed" /\ Failed(m.gen)
          \/ m.kind = "overflow" /\ Overflow
    /\ UNCHANGED <<listed, thread, edits, blind>>

\* flush_pending_recoveries
Flush(s) ==
    /\ TRUE \in recovering[s]
    /\ Recover(s)
    /\ UNCHANGED <<listed, registered, retrying, generations, thread, inbox, edits, blind>>

\* A delay has passed.
Elapse(s) ==
    /\ \/ /\ retrying' = [retrying EXCEPT ![s] = {[r EXCEPT !.due = TRUE] : r \in @}]
          /\ UNCHANGED recovering
       \/ /\ recovering[s] # {} /\ recovering' = [recovering EXCEPT ![s] = {TRUE}]
          /\ UNCHANGED retrying
    /\ UNCHANGED <<listed, registered, generations, thread, inbox, edits, failures, blind, unseen>>

-----------------------------------------------------------------------------
ThreadStep(g) == StartWatching(g) \/ ReadEvents(g) \/ StopWatching(g)

RegistryNext ==
    \/ \E s \in Watchable : Reconfigure(s) \/ Unlist(s) \/ Edit(s) \/ Flush(s) \/ Elapse(s)
    \/ \E g \in Generation : ThreadStep(g) \/ WatcherFails(g)
    \/ ReadCatalog \/ Receive

RegistrySpec == RegistryInit /\ [][RegistryNext]_registryVars

-----------------------------------------------------------------------------
RegistryTypeOK ==
    /\ listed \in [Watchable -> SUBSET Signature]
    /\ registered \in [Watchable -> SUBSET [sig : Signature, gen : Generation]]
    /\ retrying \in [Watchable -> SUBSET [sig : Signature, due : BOOLEAN]]
    /\ recovering \in [Watchable -> SUBSET BOOLEAN]
    /\ generations \in 0 .. MaxGeneration
    /\ thread \in [Generation -> [src : Watchable, sig : Signature, pc : {"none", "starting", "watching", "gone"},
                                  stop : BOOLEAN, unread : BOOLEAN]]
    /\ inbox \in Seq(Message)
    /\ edits \in 0 .. MaxEdits /\ failures \in 0 .. MaxFailures
    /\ blind \in [Watchable -> BOOLEAN] /\ unseen \in [Watchable -> BOOLEAN]

\* A watcher that nobody told to stop is the registered one of its source, and a source
\* with a registered watcher is watched, or the loop is about to hear that it is not: no
\* watcher leaks, and no source is taken for watched for ever.
WatchersRegistered ==
    /\ \A g \in Generation :
          thread[g].pc \in {"starting", "watching"} /\ ~thread[g].stop => IsCurrent(g)
    /\ \A s \in Watchable : \A h \in registered[s] :
          \/ thread[h.gen].pc \in {"starting", "watching"}
          \/ \E i \in DOMAIN inbox : inbox[i] = [kind |-> "failed", gen |-> h.gen]

\* A change that the watcher of a source saw, or that none could see because it had failed,
\* is remembered until the source is made pending: by events or messages on their way, by
\* the retry that will end in a recovery, or by a recovery to be stored.
GapCovered ==
    \A s \in Watchable : unseen[s] =>
       \/ retrying[s] # {} \/ recovering[s] # {}
       \/ \E h \in registered[s] :
             \/ thread[h.gen].unread
             \/ \E i \in DOMAIN inbox : inbox[i].gen = h.gen /\ inbox[i].kind \in {"changed", "failed"}
       \/ \E i \in DOMAIN inbox : inbox[i].kind = "overflow"

\* Through every failure, retry, reconfiguration and late message the sources are watched,
\* or what happens unwatched is known to be made up for.
SourcesWatched == WatchersRegistered /\ GapCovered
=============================================================================
