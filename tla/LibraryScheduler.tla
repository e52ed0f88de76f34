-------------------------- MODULE LibraryScheduler --------------------------
(***************************************************************************)
(* The thread of the GUI that refreshes the library in the background      *)
(* (src-tauri library_scheduler.rs): changes reported by watchers and a    *)
(* poll of the catalog every two seconds make sources pending; those whose *)
(* debounce and rate limit have passed are taken together, as one batch,   *)
(* by a thread that runs one refresh round under a guard of the            *)
(* maintenance gate.                                                       *)
(*                                                                         *)
(* One call made under the scheduler's lock is one step.  Time is counted  *)
(* down: `pending` and `rate` hold what is left of a debounce and of a     *)
(* rate limit.  What a round does to one source is in LibraryRefresh; here *)
(* due[s] stands for the verdict of source_refresh_eligibility on its row. *)
(***************************************************************************)
EXTENDS MaintenanceGate

CONSTANTS
    Source,       \* stable ids of sources, configured or to be configured
    Configured,   \* those configured when the GUI starts
    None,         \* not pending
    All,          \* a request to refresh everything by hand
    \* Periods, in units of time.
    Debounce,     \* DEBOUNCE_MILLIS
    RateLimit,    \* RATE_LIMIT_MILLIS
    \* Bounds of the model.
    MaxChanges,   \* messages of watchers
    MaxRequests,  \* sources added, removed or refreshed by hand
    MaxExpiries,  \* successes that grow stale and backoffs that end
    MaxFaults     \* rounds that fail

ASSUME SchedulerBounds ==
    /\ Configured \subseteq Source
    /\ None \notin Nat
    /\ All \notin Source
    /\ Debounce \in Nat /\ RateLimit \in Nat
    /\ MaxChanges \in Nat /\ MaxRequests \in Nat
    /\ MaxExpiries \in Nat /\ MaxFaults \in Nat

VARIABLES
    status,    \* status[s]: "new", "present" in the table sources, or "removed"
    due,       \* due[s]: its row makes s due for background work
    sched,     \* sched[s]: the scheduler's SourceSchedule of s
    emitted,   \* round_reload_emitted
    watched,   \* sources with a watcher, or one to be retried
    poll,      \* sources the current poll of the catalog has read and not handled
    control,   \* control messages not handled
    manual,    \* sources that a command has still to scan by hand
    batch,     \* batch[w]: progress and locals of a thread on its batch
    changes, requests, expiries, faults,
    owed       \* history: a change of s was scheduled and no round has passed s since

catalog == <<status, due>>
timetable == <<sched, emitted, owed>>
messages == <<watched, poll, control, manual>>
counters == <<changes, requests, expiries, faults>>
vars == <<gate, catalog, timetable, messages, batch, counters>>

Schedule == [known : BOOLEAN, pending : {None} \cup 0 .. Debounce,
             rate : 0 .. RateLimit, running : BOOLEAN, again : BOOLEAN]
NoSchedule == [known |-> FALSE, pending |-> None, rate |-> 0,
               running |-> FALSE, again |-> FALSE]

\* ids is the batch, left what its round has still to scan, gen the generation it began in.
Batch == [pc : {"none", "spawned", "gated", "scan", "finish", "check", "publish", "leave"},
          ids : SUBSET Source, left : SUBSET Source, gen : Nat, published : BOOLEAN]
NoBatch == [pc |-> "none", ids |-> {}, left |-> {}, gen |-> 0, published |-> FALSE]

Present == {s \in Source : status[s] = "present"}

Init ==
    /\ GateInit
    /\ status = [s \in Source |-> IF s \in Configured THEN "present" ELSE "new"]
    /\ due \in {d \in [Source -> BOOLEAN] : \A s \in Source : d[s] => s \in Configured}
    /\ sched = [s \in Source |-> NoSchedule]
    /\ emitted = FALSE
    /\ watched = {} /\ poll = {} /\ control = {} /\ manual = {}
    /\ batch = [w \in Worker |-> NoBatch]
    /\ changes = 0 /\ requests = 0 /\ expiries = 0 /\ faults = 0
    /\ owed = [s \in Source |-> FALSE]

-----------------------------------------------------------------------------
\* The scheduling core: what its calls do to the schedule r of one source.

\* source_changed
Changed(r) ==
    IF r.running THEN [r EXCEPT !.again = TRUE]
    ELSE [r EXCEPT !.known = TRUE, !.pending = IF @ = None THEN Debounce ELSE @]

\* Mutant: it takes over a source that is running.
SupersededRunning(r) == [r EXCEPT !.known = TRUE, !.pending = None, !.running = FALSE]

\* manual_requested
Superseded(r) == [r EXCEPT !.known = TRUE, !.pending = None, !.again = @ \/ r.running]

\* Started by take_due_scans_bounded. The debounce and the rate limit have passed.
IsDue(r) == r.pending = 0 /\ r.rate = 0 /\ ~r.running
Started(r) == [r EXCEPT !.pending = None, !.rate = RateLimit, !.running = TRUE]

\* Mutant: a change that came while the scan ran is not followed up.
FinishedForgetful(r) == [r EXCEPT !.running = FALSE, !.again = FALSE]

\* scan_finished, as far as it concerns one source.
Finished(r) ==
    IF ~r.running THEN r
    ELSE [r EXCEPT !.running = FALSE, !.again = FALSE,
                   !.pending = IF r.again THEN Debounce ELSE @]

\* How much of a period is left one unit of time later.
Later(t) == IF t = None \/ t = 0 THEN t ELSE t - 1

-----------------------------------------------------------------------------
\* The user and the world.

Tick ==
    /\ \E s \in Source : sched[s].pending \notin {None, 0} \/ sched[s].rate > 0
    /\ sched' = [s \in Source |-> [sched[s] EXCEPT !.pending = Later(@), !.rate = Later(@)]]
    /\ UNCHANGED <<gate, catalog, emitted, owed, messages, batch, counters>>

Request == requests < MaxRequests /\ requests' = requests + 1

\* A source is saved and then scanned by the command itself.
AddSource(s) ==
    /\ Request
    /\ status[s] = "new"
    /\ status' = [status EXCEPT ![s] = "present"]
    /\ due' = [due EXCEPT ![s] = TRUE]
    /\ manual' = manual \cup {s}
    /\ UNCHANGED <<gate, timetable, watched, poll, control, batch,
                   changes, expiries, faults>>

\* Its row goes with it; the scheduler is not told.
RemoveSource(s) ==
    /\ Request
    /\ status[s] = "present"
    /\ status' = [status EXCEPT ![s] = "removed"]
    /\ due' = [due EXCEPT ![s] = FALSE]
    /\ manual' = manual \ {s}
    /\ UNCHANGED <<gate, timetable, watched, poll, control, batch,
                   changes, expiries, faults>>

\* The scheduler is told first; then the command scans, whenever it gets to it.
RefreshByHand(s) ==
    /\ Request
    /\ status[s] = "present"
    /\ control' = control \cup {s}
    /\ manual' = manual \cup {s}
    /\ UNCHANGED <<gate, catalog, timetable, watched, poll, batch,
                   changes, expiries, faults>>

RefreshAllByHand ==
    /\ Request
    /\ control' = control \cup {All}
    /\ manual' = manual \cup Present
    /\ UNCHANGED <<gate, catalog, timetable, watched, poll, batch,
                   changes, expiries, faults>>

\* The scan of a command clears the row, unless it gives up because s is busy.
ScanByHand(s) ==
    /\ s \in manual
    /\ manual' = manual \ {s}
    /\ due' = [due EXCEPT ![s] = FALSE] \/ UNCHANGED due
    /\ UNCHANGED <<gate, status, timetable, watched, poll, control, batch, counters>>

\* A success is thirty minutes old, or a backoff ends.
BecomeDue(s) ==
    /\ status[s] = "present" /\ ~due[s]
    /\ expiries < MaxExpiries
    /\ expiries' = expiries + 1
    /\ due' = [due EXCEPT ![s] = TRUE]
    /\ UNCHANGED <<gate, status, timetable, messages, batch, changes, requests, faults>>

-----------------------------------------------------------------------------
\* The scheduler thread.

\* Every source of ids has changed. The mark on its row makes it due, unless it backs
\* off or the row cannot be written.
ChangesOf(ids) ==
    /\ \E marked \in SUBSET (ids \cap Present) :
          due' = [s \in Source |-> due[s] \/ s \in marked]
    /\ sched' = [s \in Source |-> IF s \in ids THEN Changed(sched[s]) ELSE sched[s]]
    /\ owed' = [s \in Source |-> owed[s] \/ s \in ids]
    /\ changes < MaxChanges /\ changes' = changes + 1
    /\ UNCHANGED <<gate, status, emitted, messages, batch, requests, expiries, faults>>

\* A message of the current watcher of s. The watcher of a removed source is stopped
\* at the next poll.
WatcherChanged(s) == s \in watched /\ ChangesOf({s})

\* The kernel lost events: every source the scheduler has ever known.
WatcherOverflow == watched # {} /\ ChangesOf({s \in Source : sched[s].known})

\* A request by hand takes the place of what is queued.
HandleControl ==
    \E c \in control :
        LET ids == IF c = All THEN watched ELSE {c} IN
        /\ control' = control \ {c}
        /\ sched' = [s \in Source |-> IF s \in ids THEN Superseded(sched[s]) ELSE sched[s]]
        /\ owed' = [s \in Source |-> owed[s] /\ s \notin ids]
        /\ UNCHANGED <<gate, catalog, emitted, watched, poll, manual, batch, counters>>

\* The catalog is read; watchers of sources that are gone are stopped.
PollCatalog ==
    /\ poll = {}
    /\ poll' = Present
    /\ watched' = Present
    /\ UNCHANGED <<gate, catalog, timetable, control, manual, batch, counters>>

\* Each source read is known from now on, and pending if its row makes it due and
\* nothing is under way for it.
PollSource(s) ==
    /\ s \in poll
    /\ poll' = poll \ {s}
    /\ LET idle == ~sched[s].running /\ sched[s].pending = None
           known == [sched[s] EXCEPT !.known = TRUE] IN
       sched' = [sched EXCEPT ![s] = IF idle /\ due[s] THEN Changed(known) ELSE known]
    /\ UNCHANGED <<gate, catalog, emitted, owed, watched, control, manual, batch, counters>>

DueScans == {s \in Source : sched[s].known /\ IsDue(sched[s])}

\* Mutant: the reload of the new round is taken for given.
TakeDueQuietly(w) ==
    /\ ~Paused /\ DueScans # {} /\ batch[w].pc = "none"
    /\ sched' = [s \in Source |-> IF s \in DueScans THEN Started(sched[s]) ELSE sched[s]]
    /\ batch' = [batch EXCEPT ![w] = [NoBatch EXCEPT !.pc = "spawned",
                                      !.ids = DueScans, !.left = DueScans]]
    /\ UNCHANGED <<gate, catalog, emitted, owed, messages, counters>>

\* Every source that is due goes to one new thread.
TakeDue(w) ==
    /\ ~Paused /\ DueScans # {} /\ batch[w].pc = "none"
    /\ sched' = [s \in Source |-> IF s \in DueScans THEN Started(sched[s]) ELSE sched[s]]
    /\ emitted' = FALSE
    /\ batch' = [batch EXCEPT ![w] = [NoBatch EXCEPT !.pc = "spawned",
                                      !.ids = DueScans, !.left = DueScans]]
    /\ UNCHANGED <<gate, catalog, owed, messages, counters>>

-----------------------------------------------------------------------------
\* A thread on its batch.

Goto(w, to) == batch' = [batch EXCEPT ![w].pc = to]

\* The batch is given back: scan_finished for each source, and source_changed too
\* unless the round has published.
AfterBatch(w) ==
    [s \in Source |->
        CASE s \notin batch[w].ids -> sched[s]
          [] s \in batch[w].ids /\ batch[w].published -> Finished(sched[s])
          [] OTHER -> Changed(Finished(sched[s]))]

\* scan_finished of the last source asks for a reload, once, if nothing else runs.
Reload(w) == ~emitted /\ \A s \in Source : ~AfterBatch(w)[s].running

GiveBack(w) ==
    /\ sched' = AfterBatch(w)
    /\ emitted' = (emitted \/ Reload(w))
    /\ UNCHANGED <<catalog, owed, messages, counters>>

Begin(w) ==
    /\ batch[w].pc = "spawned"
    /\ Admit(w)
    /\ Goto(w, "gated")
    /\ UNCHANGED <<catalog, timetable, messages, counters>>

\* Mutant: the thread returns and leaves its batch as it is.
RefusedSilently(w) ==
    /\ batch[w].pc = "spawned" /\ Paused
    /\ batch' = [batch EXCEPT ![w] = NoBatch]
    /\ UNCHANGED <<gate, catalog, timetable, messages, counters>>

\* Maintenance began between the take and the thread: nothing is done.
Refused(w) ==
    /\ batch[w].pc = "spawned" /\ Paused
    /\ GiveBack(w)
    /\ batch' = [batch EXCEPT ![w] = NoBatch]
    /\ UNCHANGED gate

\* The generation is read and the sources are selected. A batch that names a source
\* that is gone is an error as a whole.
Select(w) ==
    /\ batch[w].pc = "gated"
    /\ batch' = [batch EXCEPT ![w].gen = generation,
                              ![w].pc = IF batch[w].ids \subseteq Present THEN "scan" ELSE "finish"]
    /\ UNCHANGED <<gate, catalog, timetable, messages, counters>>

\* The round scans s, finds that it is not due, or passes over it because a command is
\* at it; its failure is recorded in the row, which is not due again before BecomeDue.
\* If s is gone the round ends with an error.
ScanSource(w, s) ==
    /\ batch[w].pc = "scan" /\ s \in batch[w].left
    /\ IF s \in Present
       THEN /\ \/ due' = [due EXCEPT ![s] = FALSE]
               \/ s \in manual /\ UNCHANGED due
            /\ owed' = [owed EXCEPT ![s] = FALSE]
            /\ batch' = [batch EXCEPT ![w].left = @ \ {s}]
       ELSE Goto(w, "finish") /\ UNCHANGED <<due, owed>>
    /\ UNCHANGED <<gate, status, sched, emitted, messages, counters>>

\* The database, a snapshot, the export of library.tsv or the user's Cancel.
RoundFails(w) ==
    /\ batch[w].pc \in {"gated", "scan"}
    /\ faults < MaxFaults /\ faults' = faults + 1
    /\ Goto(w, "finish")
    /\ UNCHANGED <<gate, catalog, timetable, messages, changes, requests, expiries>>

RoundDone(w) ==
    /\ batch[w].pc = "scan" /\ batch[w].left = {}
    /\ batch' = [batch EXCEPT ![w].pc = "finish", ![w].published = TRUE]
    /\ UNCHANGED <<gate, catalog, timetable, messages, counters>>

Finish(w) ==
    /\ batch[w].pc = "finish"
    /\ GiveBack(w)
    /\ batch' = [batch EXCEPT ![w].pc = IF Reload(w) /\ batch[w].published
                                        THEN "check" ELSE "leave",
                              ![w].ids = {}]
    /\ UNCHANGED gate

\* A reload is withheld if maintenance is going on or has been.
Check(w) ==
    /\ batch[w].pc = "check"
    /\ Goto(w, IF ~Paused /\ generation = batch[w].gen THEN "publish" ELSE "leave")
    /\ UNCHANGED <<gate, catalog, timetable, messages, counters>>

\* publish_background_round drops cached pages, reads the revision and tells the
\* frontend.
Publish(w) ==
    /\ batch[w].pc = "publish"
    /\ Goto(w, "leave")
    /\ UNCHANGED <<gate, catalog, timetable, messages, counters>>

\* Mutant: the guard is kept.
LeaveGuarded(w) ==
    /\ batch[w].pc = "leave"
    /\ batch' = [batch EXCEPT ![w] = NoBatch]
    /\ UNCHANGED <<gate, catalog, timetable, messages, counters>>

Leave(w) ==
    /\ batch[w].pc = "leave"
    /\ Dismiss(w)
    /\ batch' = [batch EXCEPT ![w] = NoBatch]
    /\ UNCHANGED <<catalog, timetable, messages, counters>>

-----------------------------------------------------------------------------
Maintenance(m) ==
    /\ GateStep(m)
    /\ UNCHANGED <<catalog, timetable, messages, batch, counters>>

User ==
    \/ RefreshAllByHand
    \/ \E s \in Source : \/ AddSource(s) \/ RemoveSource(s) \/ RefreshByHand(s)
                         \/ ScanByHand(s) \/ BecomeDue(s)

Thread(w) ==
    \/ Begin(w) \/ Refused(w) \/ Select(w) \/ RoundDone(w)
    \/ \E s \in Source : ScanSource(w, s)
    \/ Finish(w) \/ Check(w) \/ Publish(w) \/ Leave(w)

Next ==
    \/ Tick \/ User
    \/ HandleControl \/ PollCatalog \/ WatcherOverflow
    \/ \E s \in Source : WatcherChanged(s) \/ PollSource(s)
    \/ \E w \in Worker : TakeDue(w) \/ Thread(w) \/ RoundFails(w)
    \/ \E m \in Pauser : Maintenance(m)

Spec == Init /\ [][Next]_vars

\* Time passes, the scheduler's loop comes round, threads, commands and maintenance
\* tasks run to their end. Nothing is assumed of the user, of watchers or of faults.
FairSpec ==
    /\ Spec
    /\ WF_vars(Tick) /\ WF_vars(PollCatalog)
    /\ \A s \in Source : WF_vars(PollSource(s)) /\ WF_vars(ScanByHand(s))
    /\ WF_vars(\E w \in Worker : TakeDue(w))
    /\ \A w \in Worker : WF_vars(Thread(w))
    /\ \A m \in Pauser : WF_vars(pauser[m] # "idle" /\ Maintenance(m))

-----------------------------------------------------------------------------
\* Properties.

TypeOK ==
    /\ GateTypeOK
    /\ status \in [Source -> {"new", "present", "removed"}]
    /\ due \in [Source -> BOOLEAN]
    /\ sched \in [Source -> Schedule]
    /\ emitted \in BOOLEAN
    /\ watched \subseteq Source /\ poll \subseteq Source /\ manual \subseteq Source
    /\ control \subseteq Source \cup {All}
    /\ batch \in [Worker -> Batch]
    /\ changes \in 0 .. MaxChanges /\ requests \in 0 .. MaxRequests
    /\ expiries \in 0 .. MaxExpiries /\ faults \in 0 .. MaxFaults
    /\ owed \in [Source -> BOOLEAN]

\* A source is in the hands of one thread at most, and exactly if the scheduler has
\* it as running: no scan of it is started twice and none is forgotten.
OneThreadPerSource ==
    \A s \in Source :
        /\ sched[s].running <=> \E w \in Worker : s \in batch[w].ids
        /\ \A v, w \in Worker : s \in batch[v].ids \cap batch[w].ids => v = w

\* A change the scheduler has accepted stays on its books, through running rounds,
\* refusals and failures, until a round passes the source or a request by hand takes
\* its place.
ChangeRemembered ==
    \A s \in Source : owed[s] =>
        \/ sched[s].pending # None
        \/ sched[s].again
        \/ \E w \in Worker :
              /\ s \in batch[w].ids
              /\ \/ batch[w].pc \in {"spawned", "gated"}
                 \/ batch[w].pc = "scan" /\ s \in batch[w].left
                 \/ batch[w].pc = "finish" /\ ~batch[w].published

\* While a scan is running the round has its reload still to ask for.
ReloadOutstanding == (\E s \in Source : sched[s].running) => ~emitted

\* A maintenance task that was the first to pause runs beside no round: no thread
\* selects, scans, gives back or publishes until it is over.
FirstPauseAlone ==
    (\E m \in Pauser : pauser[m] = "in")
        => \A w \in Worker : batch[w].pc \in {"none", "spawned"}

\* A source that is gone and that the scheduler has queued or running.
Ghost == \E s \in Source : status[s] = "removed" /\ (sched[s].pending # None \/ sched[s].running)

\* The pause of a maintenance task is granted: rounds end, and no new ones begin.
PauseGranted == \A m \in Pauser : pauser[m] = "first" ~> pauser[m] = "in"

\* A source that is due is scanned in the end, through failed rounds, maintenance and
\* requests by hand, unless the scheduler keeps a source that is gone.
DueScanned ==
    \A s \in Source : (due[s] /\ status[s] = "present") ~> (~due[s] \/ Ghost)

\* The same whatever was removed: "so a follow-up cannot be lost".
FollowUpNotLost == \A s \in Source : (due[s] /\ status[s] = "present") ~> ~due[s]
=============================================================================
