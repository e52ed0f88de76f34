# Wallpaper Console: TLA+ models and proofs

Wallpaper Console changes what Wayland displays show by starting and stopping
external renderers (`awww`, `mpvpaper`, `swaybg`, Linux Wallpaper Engine), keeps
the assignments of displays and a library of wallpapers in one SQLite database,
and is used by several processes at once: the GUI, the command line and a watcher
that brings wallpapers back when an output returns.  This directory models that
behaviour, checks it with TLC and proves part of it with TLAPS.

## 1. Inventory

| Component (source) | State it keeps | Operations | Interacts with | What makes it correct |
|---|---|---|---|---|
| Display operation (`wc-app/display_operation.rs`) | the locals of one operation | `execute` (Apply, Restore, settings, recovery of an output), `stop_displays` | everything below | a report that is true, a commit of what is shown, recovery that never makes it worse |
| Mutation lock, stop intents (`output_recovery.rs`) | lock file and intents file of a session | acquire (15 s), drop, `set_output_stopped`, `disarm` | every operation; read by the watcher | one mutator per session; a Stop stays stopped |
| Planner (`display_plan.rs`, `display_apply.rs`) | none | `plan_all_displays`, `plan_named_output`, `plan_output_set` | observation in, actions out | nothing outside the request is touched |
| Assignment store (`display_state.rs`, `display_recipe.rs`) | rows by output and a template, a recipe and a revision each | commit of a batch, preserve, fingerprint | read before, compared during, written at the end of an operation | a commit replaces what it says; a revision changes with its row |
| Journal (`display_operations.rs`) | rows `executing`, `interrupted_observed`, `finished` | begin (32 at most), finish (prunes to 64), reconcile | all sessions share it | covers every change of a display; abandoned rows are closed |
| Renderer execution (`display_executor.rs`, `driver.rs`, `awww.rs`) | none; the renderers | stop, apply, clean up | processes and the awww socket | an attempt is recorded before it is made; a cleanup that is not certain says so |
| Observation (`runtime_observation.rs`, `runtime.rs`) | none | ownership, identity, `verify_recipe` | processes and the awww socket | unknown is never reported as vacant |
| Output watcher (`output_recovery.rs`, `compositor.rs`) | armed and pending outputs, retries, last outputs and epochs | one round per wake-up | lock, intents, operation | brings an output back exactly if its assignment is wanted and unchanged |
| Library scheduler, watch registry (`library_scheduler.rs`) | due times, running and waiting scans, watcher generations | change, manual request, tick, scan finished, watcher messages | service, refresh round, inotify | no change is lost, no scan runs twice, rate is bounded |
| Library service (`library_service.rs`) | page and total caches, flights, maintenance depth, background count | page, total, invalidate, pause, observe | frontend, scheduler, database | no stale page for a current revision, no work during maintenance |
| Refresh round (`library_refresh_round.rs`, `source_refresh_state.rs`) | dirty bit, last success, failures per source | begin, scan, publish, record, cancel | scan worker, store | a change is scanned in the end, an incomplete scan publishes nothing |
| Scan worker (`scan_worker.rs`) | child process, snapshot directory | start, progress, cancel, time out | refresh round | one result or none |
| Source reconciliation (`source_reconcile.rs`, `sources.rs`) | rows of wallpapers and memberships | publish, remove a source | refresh round | overlapping sources keep their members |
| Instance coordinator (`instance_coordinator.rs`) | lease, socket | claim, bind, focus, shut down | second instances | one primary; a second instance gets an answer |
| Files of the database (`backup.rs`, `connection.rs`, `schema.rs`) | main file, `-wal` file, backups, cached connections | start, import, upgrade, back up, restore, repair | all processes; maintenance pause | whoever has started finds the current schema; nothing entered is lost; no connection outlives its file |
| Theme hook (`post_apply.rs`) | generation of the latest hook | publish, run command | after operations | the last theme wins |
| Frontend: current wallpapers (`applyQueueController.ts`, `runtimeObservationController.ts`, `runtimeWallpaperSession.ts`) | queue of Applies, generation of observations | ask, answer, observe, hide | commands of the GUI | no observation outruns an Apply that came after it |
| Frontend: list (`usePagedWallpapers.ts`) | pages, cursor, revision, exact total | load, append, replace | page service | one query at one revision |
| Frontend: scan progress (`scanProgressController.ts`, `commands/scan.rs`) | generation of polls, timers, cancellation | poll, scan, cancel, hide | scan commands, rounds | what is shown settles on what runs |
| Scanning, previews, configuration, CLI | none to speak of | read, decode, print | | out of scope: data and I/O |

What is hard here: several processes and sessions act on one database and, within
a session, on one set of displays; each step can fail on its own and the world can
change by itself (a renderer exits, someone starts another by hand, the compositor
goes away); a crash can come between any two steps; and what was read before the
lock, the preflight or the commit may be stale when used.  `PROJECT.json` lists
each hazard at its line, with the properties that watch it.

## 2. Plan

Done: everything in section 3, with its runs (section 4) and proofs (section 6).  The core
came first, the operation on displays, then the library's rounds and their scheduler, the
files of the database, the watcher of the displays, the page service and the frontend.
What is left, the most important first:

1. The membership of overlapping sources in the reconciliation, and the clean-up of
   missing paths (`source_reconcile.rs`).
2. The theme hook (`post_apply.rs`): a queue of which only the newest entry counts.
3. The scan worker's process against its deadline and its cancellation.
4. The start-up watchdog of the frontend.

## 3. Modules

| Module | Role |
|---|---|
| `DisplayOperation` | an operation on displays: state, one action per step, the environment, the properties |
| `OutputRecovery` | the watcher that brings wallpapers back to outputs that return |
| `LibraryRefresh` | rounds over the sources of the library, the watcher's marks, the export of `library.tsv` |
| `LibraryPromises` | what `LibraryRefresh` promises of its outcome: of the exported snapshot, and of each source |
| `SourceMirror` | abstract: a library that mirrors the files of one source, which `LibraryRefresh` implements |
| `MaintenanceGate` | pauses for maintenance and guards of background work; extended by the next |
| `LibraryScheduler` | the thread that batches sources, the threads it starts, and the gate they pass |
| `WatchRegistry` | the watchers of the sources, their generations, retries and recoveries |
| `DatabaseFile` | the file of the database, its locks and the connections that are kept |
| `SharedLibrary` | abstract: one library with one revision, which `DatabaseFile` with its users implements |
| `LibraryService` | pages of the library: cache, shared loads, observer; extends `DatabaseFile` and `MaintenanceGate` |
| `DatabaseUpkeep` | start, import, upgrade, backup, restore and repair of the files of the database |
| `InstanceCoordinator` | the one GUI of a configuration directory |
| `ScanProgress` | the scan the window shows |
| `RuntimeView` | the wallpapers the window takes for current |
| `PagedWallpapers` | the list in the window |
| `DisplayOperationProofs` | mutual exclusion, types, the journal, Stop |
| `DisplayOperationReports` | reports, other outputs, commits, uncertain outputs, stop intents, revisions; extends the former |
| `SessionProofs` | `OutputRecovery`, `RuntimeView`, `PagedWallpapers`, and all of `MCSession` |
| `LibraryRefreshProofs` | `LibraryRefresh` and `LibraryPromises` |
| `LibrarySchedulerProofs`, `LibraryServiceProofs`, `DatabaseUpkeepProofs` | one module each |
| `ServicesProofs` | `InstanceCoordinator`, `ScanProgress`, `WatchRegistry`, and all of `MCServices` |
| `MCDisplayOperation`, `MCLibraryRefresh`, `MCLibraryScheduler` | small values of the constants for TLC |
| `MCSession`, `MCServices`, `MCLibrary`, `MCSharedDatabase` | several modules side by side, checked in one run |

A module of the last row extends modules whose state is disjoint, because each knows the
others only as events of its environment.  Its variable `part` says which of them moves;
the initial state chooses it, so that one run checks all of them, one at a time.
Where a module says `Fair... => ...`, its fairness is that of the part that moves.

### DisplayOperation: state and code

`shown[s][o]` is the world: the recipes with a live renderer on output `o` of
session `s`.  The program never reads it directly; it reads `Owners` (what
`observe_output_ownership` derives), `Fingerprint` (ownership and process
identities) and equality with a recipe (`verify_recipe`).  `lock[s]` is the file lock of the
session, `stopped[s]` its intents file, `rows`/`rev` the table `display_state`
with its revisions, `journal` the table `display_operations`; the store and
the journal are shared by all sessions of the user.  `pc[p]` and `op[p]` are where
a process stands in its operation and the locals it carries.  `alive`, `ops`,
`faults` bound the model; `disturbed` and `op[p].start` are history variables used
by the properties only.

An operation runs through these program counters:

    waiting -> plan -> preflight -> revalidate -> begin -> recheck -> execute
            -> verify -> commit -> arm -> finish                (success)
    execute/verify/commit -> compensate -> (retire -> reapply -> confirm)* -> finish
    waiting -> intent -> preflight -> ... -> execute -> observe -> finish    (Stop)

Every step is an action; between any two of them other processes and the
environment may act.  A step with an error return has the error as an action:
`AcquireTimeout`, `Refuse` (any failed check before the first renderer action;
after `journal_begin` it leaves the journal row `executing`, as the code does),
`JournalFull`, `ActionRefused`, `StopFails`, `ApplyFails`, `VerifyOrCommitFails`,
`RetireFails`, the second half of `Reapply`, `ConfirmFails`.

Renderers come in two families.  A `Shared` backend (`awww`) is one daemon that
replaces images in place, lets go of outputs that other renderers cover, and can
have switched any subset of the outputs when its command fails.  Every other
backend is a process per output that must be stopped before it is replaced and
may or may not survive a failed clean-up.  `Launched`, `CleanFailures` and
`UnsureFailures` say what a command can do to the displays.

### DisplayOperation: what is abstracted

- A recipe is a member of a small set, with its file, backend and options as
  functions.  The options of a shared backend are not told apart when a display
  is verified, as `verify_recipe` does not compare them either.
- Connected outputs do not change during an operation; in the code such a change
  rejects the operation before its first action, which is `Refuse`.
- A user's list of unsupported wallpapers makes a restore take fewer outputs; so
  does a request for fewer outputs.
- The journal's payload, progress events, timings, the theme hook and settle times
  are left out.  The wait of 15 s for the lock and the budget of 90 s for a
  recovery are choices that can be made at any time.
- The configured options of a backend are constant.
- The watcher's table updates for a renamed connector are in `OutputRecovery`.

### LibraryRefresh: state and code

`disk[s]` is what a source holds in the file system and `library[s]` what SQLite
lists for it, both as a version number.  `status[s]` says whether the table `sources`
has the source; ids are `AUTOINCREMENT`, so a removed one does not come back.
`refresh[s]` is the row of `source_refresh_state`: the dirty bit, whether the last
success is within its thirty minutes, whether `next_retry_at` lies ahead, and the
availability.  `revision` is the counter `library_revision`; `marker`, `tmp`, `tsv`
are the files `library.dirty`, `library.tsv.tmp` and `library.tsv`.  `scan_lock[s]` and
`rescan_lock` are the two kinds of lock files.  `event[s]` is a change the watcher has
seen and whose message the scheduler thread has still to handle.  `pc[p]` and `op[p]`
are where a process (a thread of the GUI or a command line) stands in its round and
what it knows; an open output file is in `op[p].file`, because a rename or a removal
moves it under its writer.  `missed` is a history variable, and so is `overlapped` of
`LibraryPromises`: two operations that are not both full rescans have been at work between
their marker and their return.

A round runs through

    rescan_lock -> marker -> next -> lock [-> recheck] -> begin -> scan
                -> check -> reconcile -> succeed -> next   (or fail -> next)
    next -> snapshot -> create -> write -> publish         (no source left)

and a removal through `lock -> marker -> remove -> snapshot`.  Background rounds pass
over sources that are busy or not due, before the lock and again under it.  Every
transaction of SQLite is one step, and so is every operation on a file; a scan is one
read of the disk, since the watcher reports what changes while it runs.

The faults are a failed scan, a cancelled round, a failed statement at any place
where one is run, a failed export, a lost mark, a crash of a command line, and a crash
of the GUI with all its rounds and undelivered messages.

### LibraryRefresh: what is abstracted

- Time is a step: a success grows stale and a backoff ends whenever they like.
- The order of sources in a round is arbitrary; the code takes them by id.
- `StartBackground` may start a round over any configured sources.  The scheduler
  starts fewer; it never starts one with a removed source here, which the code can
  (see `ghost` under Findings).
- A change of `recursive` is a change of what the source comprises, which marks
  nothing.  Rounds that have read the old record are refused when they compare it
  (`CheckConfig`); a change between the comparison and the transaction goes
  unnoticed, as in the code, until the user's own round or the limit of thirty minutes.
- A file that is written by two processes may hold the rows of the last one or a
  mixture, `Partial`.
- Overlapping sources, page queries and the full-text index are left out.

### LibraryScheduler and MaintenanceGate: state and code

`pauser[m]` is a maintenance task (a repair or a restore of the database) on its way
through `pause_for_maintenance`; `depth` is the number of tasks in `Held`.
`generation` is `maintenance_generation`, and `guards` the threads that hold a
`BackgroundWork`, whose number is `background_active`.

`sched[s]` is the `SourceSchedule` of a source: whether it is in the map at all,
what is left of its debounce (`pending_since`) and of its rate limit (`last_started`),
`running` and `dirty_again`.  `emitted` is `round_reload_emitted`.  `round_running` is the
set of sources with `running`; `round_waiting` is empty between calls, because the
scheduler takes all that is due, and is left out.  `batch[w]` is a thread the
scheduler has started:

    spawned -> gated -> scan -> finish -> check -> publish -> leave
    spawned -> (refused, the batch is given back)

Every call under the scheduler's lock, and every call under the gate's, is one step.  The
parts of the scheduler's loop (control messages, the poll of the catalog and of
each source in it, watcher messages, the take) come in its order in the code and
in any order here.  `status[s]` is the table `sources`, and `due[s]` what
`source_refresh_eligibility` says of a source.  `owed` is a history variable.

What is abstracted:

- Time is counted down, in units; a clock that goes on while nothing is pending
  changes nothing.
- What a round does is `LibraryRefresh`.  Here a round passes over its sources one by one
  and clears `due`, whatever comes of the scan: a failure backs off.  A source at
  which a command is at work is passed over.
- The command line can do what the GUI does to sources.  The GUI's one slot for a
  visible scan (`commands/scan.rs`), which refuses the commands of the GUI among
  themselves, is therefore left out.
- A source is watched from a poll of the catalog to the next one that misses it.  The
  generations of watchers, their retries and recoveries are `WatchRegistry`.
- `Worker` bounds the threads at work at one time.
- Announcing a round is one step, and so is what a maintenance task does.


### OutputRecovery: state and code

`plugged[c]` is the monitor at a connector and `rendered[c]` the wallpaper there;
`saved`, `template` are the rows and `intents[c]` the line of the intents file.
`recovery` is the memory of `watch_displays`: `tracked`, `armed`, `pending` of
`RecoveryTracker`, the `retries`, and the outputs and epochs of the last round.
`claim`, `promised` and `halted` are history variables: what has been seen or put
where, what the watcher is bound to bring back, and where nothing was applied since
all displays were stopped.

A round is `ReadOutputs`, which comes before the lock, and `Round`, which goes
through the parts of the code in its order: stops heeded, disconnected outputs
remembered, monitors that moved, epochs, the tracker's `advance`, and the restores that
are due.  `SnapshotFails`, `WatcherEnds` (an error of the lock or of the storage, or a
new executable) and `Die` are what goes wrong.

What is abstracted: an operation of the user is one step, since a round excludes it by the
lock; wallpapers are numbers, each new one the next; a retry's delay is a step; a
renderer dies with its output; disabled outputs are not connected.  A restore by the
watcher succeeds only if the outputs are as they were read.

How the code behaves, as the model shows it, without a statement against it:

- An output that goes away again within the 300 ms before its restore is no longer
  awaited; one that goes and returns between two rounds is never noticed.
- A monitor with an identity that is plugged into a connector still counted as connected
  keeps the adopted wallpaper pending there until that connector goes and returns.  One
  that moves onto a connector where another was awaited gets that connector's wallpaper.
- A watcher that starts again, also when it hands over to a new executable, has forgotten
  the outputs it awaited.
- A wallpaper whose row or template changed while its output was away is not restored.

### DatabaseFile, SharedLibrary and LibraryService: state and code

`copies[i]` is the library revision of the i-th file that has been at the path; the last
one is there.  `idle[p]` is the one cached connection of a process, `lease[t]` the one in
use by a thread, each with its file and its generation; `exclusive` is the maintenance
lock.  `TakeIdle`, `OpenFresh`, `ReturnLease` and `InvalidateConnections` are
`connection.rs`; `Stage`, `LockDatabase`, `PublishDatabase` and their failures are what
`backup.rs` does for a restore and a repair.

`SharedLibrary` is what all of it promises: one library, whose revision grows with every
change and every replacement, and which whoever is connected sees.  `OneLibrary`
(`Shared!SharedSpec`) says that `DatabaseFile` together with its users implements it:
revision, open connections and replacements are mapped, generations, locks and old
files are not part of it.

`LibraryService` extends both with `MaintenanceGate`.  `pages` and `stale` are the two
caches, `flights` the shared loads, `reader[t]` a call of `page` through

    open -> join -> load -> loaded | failed -> (land)      the leader of a flight
    open -> join -> wait | close                           others

`observer` is the thread that compares revisions, which looks at the gate in one step
and at the database in another.  Commits come from commands of the GUI (which empty the
cache afterwards, `unannounced`), from other processes, and from rounds.

What is abstracted: what a page holds is its query, its revision and its file; which page
the limits cost is any (`Kept`); totals, which are cached and shared in the same way, the
limits in bytes, and the notifier that wakes the frontend are left out, and so is a leader
that panics.  A cached or stale page that is the answer at once changes nothing and is
no step.

How the code behaves: the idle connection of another process makes a restore or a repair
time out (README.md:214 of the repository says of an open window that it "keeps the library
locked"); so does one of its own process that is opened after the invalidation
(`BuildIndex`).  The observer's own connection holds no lock.

### DatabaseUpkeep: state and code

`mainFile` and `walFile` are contents: a version of the schema and a set of entries.
`upkeep[p]` is a task: a start with or without an import, a backup, a restore or a
repair, with its place and its candidate file.  Who holds which lock, shared or alone,
follows from the place.

    start:    check -> probe -> ready            check -> claim -> claimed -> built -> (start)
              probe -> enter -> wait -> [older -> saving ->] upgrade -> ready <-> connected
    backup:   check -> connected -> reserved -> filled -> over
    restore:  check -> lock -> locked -> [reserved -> filled -> drained ->] cleared -> over
    repair:   check -> lock -> locked -> reserved -> filled -> drained -> cleared -> over

Every step on a file is an action; `TimesOut`, `Rejected`, `FileFails` and `Die` end a
task at any of them, with the clean-up of the code, or, in the last case, without.

What is abstracted: rows are entries in a set; the versions of the schema are none,
older, current and newer, and an upgrade is the one transaction of `create_schema`.  What
each version's step does to rows, `verify`, `export_flat` and the contents of the flat files
are data.  A migration of the display state that fails after the schema has been
committed (`schema.rs:247`) is tried again by the next access.  Connections that are kept
are in `DatabaseFile`.

### WatchRegistry: state and code

`listed[s]` is the signature of a source in the catalog, `registered[s]` its `WatchHandle`,
`retrying` and `recovering` are `retry_states` and `pending_recoveries`.  `thread[g]` is the
thread of generation `g`, `inbox` the queue of messages.  `blind` and `unseen` are history.
`ReadCatalog` is `reconcile` with `retain_sources`; `Receive` is `process_watch_message`,
`Flush` is `flush_pending_recoveries`.

What is abstracted: paths and inotify descriptors; events are one bit per thread, and an
overflow is a message that names nobody.  Pacing of messages is left out.  What changes
after a source was configured otherwise, and before its first watcher is ready, is left to
the scan that follows and to the limit of thirty minutes; it is not counted as missed.

### InstanceCoordinator: state and code

`instance[i]` is where a process of the GUI is, `instanceLock` the lock file, `socket` whose
socket is at the path, `asked[j]` the connection of a second instance and its answer.
`focused` is history.  Two seconds for everything are `FocusTimesOut`.

What is abstracted: the text of requests; a request that is malformed is one that the
callback refuses.  `Stop` .. `ReleaseLease` are `shutdown`, which the program itself never
calls (it forgets the coordinator and exits).  The accept loop also ends by itself when
accepting fails (`LoopEnds`): the instance then keeps the lock, and who connects is told
that it failed until the process ends; `PrimaryReachable` does not speak of it.  A second instance that starts between
the claim and the binding, or whose two seconds pass before the window is there, is told
that it failed.

### ScanProgress, RuntimeView and PagedWallpapers: state and code

These are the parts of the frontend where answers come late.  JavaScript runs one
callback at a time, so a callback is a step, and a request, its execution in the
backend and its answer are three.

`ScanProgress` has `SCAN_STATE` with the command and the round that mark it, and the
controller with its one poll (`currentPoll`), timers, generation and cancellation.
Left out: the removal of sources, which waits for an idle scan.  How the code behaves: a poll
that is sent before its command has marked the scan may read an idle state and say it is
over, until the next poll; a cancellation in that moment is lost; one that exceeded its
deadline may reach a later scan (`StrayCancel`).

`RuntimeView` has the queue of Applies, the probes of the displays with their epoch,
and what the window shows (`confirmed`); changes of the displays are numbered, so that an
observation is as old as the numbers in it.  Left out: `cancelPendingForTargets` (nothing
calls it), the transport of other actions, an answer that reports success without evidence.

`PagedWallpapers` has `entries`, the cursor as state and as the callbacks of the last
render know it, the loads under way, and the exact total.  Left out: empty pages and
the timer that confirms them, random choice, and the pause of automatic appends.
That pages are contiguous does not hold between a change of the state and the next
render, and is not claimed.

## 4. Runs

| Run | Instance | Checks |
|---|---|---|
| `one` | operations: one process, one operation of any kind on two outputs, one fault, two saved tables; watcher: two connectors, two monitors, one of them identified, two plugs, one order, one upset; view: two displays, two probes, two Applies, one disturbance; list: two queries of two pages, one commit, four loads, one switch | `SessionTypeOK`, `ReportTruthful`, `OutsideUntouched`, `UncertainLeftAlone`, `RestoreWanted`, `FairlyRestored`, `NotOutrun`, `OneSnapshot` |
| `session` | two processes in one session, one output, two operations, one fault, a journal of one row, fair | `OneMutatorPerSession`, `StoppedStaysStopped`, `StopIntentSticky`, `OperationEnds` |
| `sessions` | two sessions sharing the database, two operations; three tasks of upkeep from any kind of database, a supplied backup of an older schema, one mishap | `JournalCoversMutation`, `AbandonedRowsClosed`, `FingerprintFaithful`, `CommitShowsTruth`, `StartedCurrent`, `NothingLost` |
| `library` | rounds: the scheduler and a command line, one source with two versions, two requests, an expiry or a fault; serial: two command lines that rescan two sources, two faults; service: two readers, a restore of the GUI or a repair of another process, one commit per file, one error of the observer, caches of one page | `LibraryRunTypeOK`, `ScanExclusive`, `ChangeCovered`, `SourcesMirrored`, `BackgroundOnlyWhenDue`, `AloneStaleMarked`, `PageOfItsRevision`, `FlightsLed`, `OutdatedNoticed`, `OneLibrary` |
| `batches` | two threads, two sources, two maintenance tasks; one change, one request, one expiry, or a fault | `OneThreadPerSource`, `ChangeRemembered`, `ReloadOutstanding`, `FirstPauseAlone` |
| `services` | scheduler: one thread, two sources, one maintenance task, one change, a request or a failed round; rounds: one source that is added, refreshed and listed with its subdirectories or not, one fault; scan: a command, a hidden window or a round, one lost request; registry: one source, four generations, two edits, three failures, one change of configuration; three instances | `ServicesTypeOK`, `SourcesWatched`, `Watched`, `SingleInstance`, `FairlyGranted`, `FairlyScanned`, `FairlySettled`, `FairlyCaughtUp` |
| `lostupdate`, `journalfull`, `sharedtmp`, `ghost`, `outdated`, `stopall` | as small as shows it | one sentence of the sources each, violated; see Findings |

Displays: the runs take two outputs, or one where the question is about the
database or the lock; recipes are one or two images of the shared daemon and
a video with one or two option sets.  That is enough for every kind of
replacement (in place, stop and apply, hand-over between families, same file with
other options), for batches that fail half-way and for a restore that reorders.
`MaxExecuting` and `KeepClosed` are 32 and 64 in the code; the runs use 1 or 2 so
that the journal is full and prunes within two operations.  One operation is enough
for the properties of `one`, which relate states of one operation and its
environment; those of `session` and `sessions` need two, the second of which
meets the remains of the first.

Watcher: two plugs let an identified monitor move, or any monitor go and return; an order
comes before, between or after them; one upset is a failed attempt, a dead renderer or
the end of the watcher.

View and list: the second Apply waits in the queue for the first; an observation can be
overtaken by either.  A disturbance is another's change, a hidden window or a lost probe.
Four loads are a first page, an append, and the loads that a switch and a commit make.

Library: a source is independent of another but for the batch, the revision and
the exported file, so one source shows the interplay of its row with watchers, rounds
and removal, and two sources are there for the export.  Two versions are a
change during or after a scan; the second request meets what the first left; one
expiry while nothing has changed shows what a stale success does, those that find
something are not bounded.  The service has two readers of one query, who share a load or
lead one each at two revisions; one replacement of the file.

Files: three tasks are two that compete and one that has left something, from nothing, an
older, a current or a newer database (`AnyStart`); `MCSharedDatabase` bounds which three
kinds come together (`Lineup`), not how they interleave.

Scheduler: two sources are a batch, or two batches that overlap, and two threads are
all that can be at work on them.  An overflow is one change that makes both pending; a
request adds, removes or refreshes one.  Two maintenance tasks nest.  Debounce and rate
limit are one unit each: what matters is whether they have passed.

Registry: four generations are a watcher, its replacement after a failure, the one of a new
configuration, and a replacement of that.

Parts that cannot stop are checked for deadlock: operations, whose `Quiescent` is the step
of a system in which nobody asks for anything any more, the scheduler and the files of the
database.  The others end when their requests are used up and stutter then.

Fairness, and why the code justifies it:

- `FairSpec` (`session`): weak fairness of each process's own steps.  A process that is
  not killed keeps running, and every command it waits for, and its wait for the lock, has
  a deadline.  No request has to be made and no fault has to happen.
- `FairWatcher`: the watcher goes round three times a second, and delays pass.
- `FairRounds`: each process, the message loop and the two deadlines; and strong fairness of
  a background round over the due source, because the loop at `library_scheduler.rs:532`
  lists the due sources every two seconds and puts all of them in its batch whenever no
  batch is running.  It holds as long as no source is removed, so this part removes none.
- `FairScheduler`: the clock, the loop's poll and take, each thread, each command's scan
  and each maintenance task that has begun.  The loop never waits
  (`library_scheduler.rs:520`), scans have time limits, and a task ends with its command.
  `DueScanned` leaves out a system with a `Ghost`, a removed source that the scheduler
  still has queued; `FollowUpNotLost` does not, and fails.
- `FairScan`: timers fire, and requests are answered in the end; they may be lost.
- `LibraryFairness` (`outdated`): readers, the observer and maintenance go on.

Each property has a mutant, a small change of one definition that TLC finds
violates it; the mutants stand before the definition they change.

A property of operations says "nothing but the operation has changed the output" through
`Own(p, o)`: a display that someone else changed behind a verified operation shows
what it shows, and the code cannot know.  `disturbed` remembers these changes
until the operation looks again.

## 5. Findings

1. `lostupdate`: `intended_display_state` starts from rows read when the plan is
   made, and the commit replaces the whole table.  With two sessions sharing a
   configuration, one's commit undoes the other's, against `display_apply.rs:856`.
2. `journalfull`: rows left `executing` by sessions that no longer exist count
   towards the limit of 32 but are reconciled by nobody, against
   `display_operations.rs:63`.
3. `sharedtmp`: every export writes `library.tsv.tmp`, with no lock between exports
   and before the guard that compares revisions.  An export of an older revision that
   writes after a newer one has written puts its rows in the file that the newer one
   then publishes as its own, and the marker is removed: a stale `library.tsv`
   that nothing marks, without any fault, against `wc-cli/src/library.rs:453`.
4. `ghost`: the scheduler never forgets a source.  When a removed one is pending, because
   events were lost or because it was removed while queued, the round of its batch is
   refused as a whole ("unknown source id(s)"), all of the batch is pending again at
   the same moment, and ten seconds later the same batch is refused again.  The other
   sources in it are not scanned in the background any more, while
   `source_refresh_state.rs:130` says that "a follow-up cannot be lost".
5. `outdated`: the leader of a load inserts its page without looking at what happened since.
   If another connection commits after the load and the observer empties the cache before the
   insertion, the page stays and is the answer until the next change, against the
   test at `library_service.rs:1452`.
6. `stopall`: a Stop of all displays records intents for the connected outputs only.  The
   watcher still awaits one that is disconnected at that moment, and starts its wallpaper
   when it returns, against README.md:66.

Noted while modelling, without a run of their own:

- The comment at `display_apply.rs:241` says All Displays retires backends "even when
  per-output ownership was ambiguous".  The preflight rejects any batch with an
  ambiguous output, so the stops planned for that case never run.
- The header of `display_apply.rs` promises that persisted state is reconciled after
  a destructive Stop followed by a failure.  The failure path does not touch it, and
  the tests agree with the code.
- Every commit that changes rows changes revisions (`RevisionsTell`), yet two commits
  of other sessions, the second computed from rows read before the first, can bring a
  table back with its revisions, since a row that is inserted again starts at 1.
  The code compares revisions only; it is a consequence of the lost update.
- Saved assignments outlive their renderers when a recovery fails
  (`display_operation.rs:248`), by design.
- A second maintenance task that pauses while the first is still waiting for threads
  does not wait for them (`library_service.rs:716`), so it may run beside a
  round.  `FirstPauseAlone` says of the first one what holds.
- After maintenance the observer reads the revision anew and announces nothing
  (`library_service.rs:942`), so what another process committed meanwhile is shown when
  the next change is.
- A request by hand that the loop handles late also takes away a change that came
  after it; the dirty bit in the row, which the poll reads, is what keeps the change.
- `StaleMarked` holds for full rescans only.  A single-source or background round does
  not take the rescan lock, and its publication removes the marker a running rescan
  relies on while that changes SQLite; `library_rescan.rs:157` calls the marker
  "durable".
- The backup before an upgrade is named "to-v8", while the current schema is 9.

## 6. Proofs

Every theorem holds for all values of the constants that satisfy the assumptions of its
module; TLC evaluates these assumptions in the runs.  Each module below proves one or
several inductive invariants.  The bounds on requests, faults and
versions are arbitrary natural numbers, so that no theorem is about small instances.

### DisplayOperationProofs

`ConstantsAssumption` asks for finitely many outputs, sensible
functions, and that every backend can render every file it knows with each of its
option sets.

- `MutualExclusion`: `OneMutatorPerSession` is not inductive: it says nothing about a lock
  that is free while a process is inside.  `LockInv` adds that the lock of a session names
  exactly the process inside.  `StepsRespectLock` classifies every step of a process (stays
  inside, stays outside, takes a free lock, gives its lock back) and `LockStep`
  shows that each class, and each step of the environment, keeps `LockInv`.
- `TypeCorrect`: types alone are not inductive: what is rendered is `want` or `before` of
  an output, which may be `None`.  `Shape` adds where they are recipes, that the output
  being recovered is one, and that the batch of an All Displays is all that is connected,
  without which its plan would apply outside `want`.
- `JournalCovers` and `AbandonedClosed`: `JournalCoversMutation` and `AbandonedRowsClosed`
  are inductive together and with the two above.  A process's own steps keep its row until
  it finishes (`JournaledSteps`); what others write to the shared journal keeps the
  executing rows of other sessions (`OtherSessionsRows`), and mutual exclusion says that they
  are of other sessions.
- `StopLasts`: `StoppedStaysStopped`.  `StopInv` adds that a Stop never runs anything
  but stops, so that it never gets to the paths that withdraw intents, and that
  nothing else reports an output as stopped; others in its session, who could
  withdraw the intent, are excluded by the lock.

### DisplayOperationReports

Builds on the types and the lock.

- `ReportsTruthful`: a report is made output by output, long before it is returned.
  `ReportInv` follows, for the locals of each operation, which outputs nothing was
  attempted on, which were verified, restored or reported, and that each of them shows
  what that says unless something else changed it.  The hard part are the commands of
  renderers, which may touch outputs they were not given, as the shared daemon
  lets go of outputs others cover: `Sole` (one backend per output, which is what an
  unambiguous observation says) and `Spared` say which outputs a command leaves alone.
- `OutsideLeftAlone` is the same for outputs outside the batch, at every step.
- `CommitsShowTruth`: a commit comes after every output of the batch was verified, which is
  part of `ReportInv`, and what it writes is what was verified (`CommitSaves`).
- `UncertainSpared`: neither the recovery of other outputs nor the end of the operation
  starts anything on an output whose cleanup was uncertain.
- `IntentsSticky`: a withdrawal comes after verification, and only by operations of the user.
  `RecoveryInv` adds that past its planning the watcher's operation has no stopped output.
- `RevisionsTell`: a commit that changes rows changes revisions.  `ChoiceInv` adds that a
  subset Apply has a nonempty batch with a recipe for each output, so that its commit has a
  row to write.

### SessionProofs

- `SessionTypesCorrect`: the types of all of `MCSession`.  `SessionRunsItsParts` says that
  the run is a behaviour of each of its parts, so that whatever is proved of a part holds in
  the run.  Beside `RecoveryTypesCorrect` and `TypeCorrect` it takes `ViewTypesCorrect` and
  `PagedTypesCorrect`; the latter adds to `PagedIInv` how loads are numbered
  (`PagesCounted`).
- `RecoveryTypesCorrect`, `RestoresWanted` (`OutputRecovery`).  `RestoreWanted` speaks of
  what has been seen, and the watcher's memory is changed by a round of seven parts.
  `RecoveryIInv` says that what is armed, pending or retried at a connector, and is still
  saved for it and not stopped, has been seen there (`MemoryClaimed`).  It needs that a new
  wallpaper's number is new everywhere, so that what the user replaced is not taken for
  what he wants now (`PicsFit`), that a monitor is at one connector only, so that the one
  to which a wallpaper was taken along is determined (`PlugsApart`), and that intents have
  a last epoch (`EpochsOrdered`).  The proof follows a round part by part, a lemma or more
  for each.
- `NeverOutrun` (`RuntimeView`): an answered probe of the current epoch has been made after
  the last Apply ended (`ProbesFit`), and what an Apply left is not newer than what the
  display shows (`KnownHappened`), so that such a probe has seen it.
- `NeverMixed` (`PagedWallpapers`): the last load and the last count, told by their numbers
  from those they replaced, are of the query of the window (`LoadsFit`, `TotalsFit`); a list
  with a next page or a number is of the revision that is known (`ListKnown`, `OfKnownList`),
  with which an answer is compared.

### LibraryRefreshProofs

`Bounds` asks that `None` and `Partial` are no source, no process and no rows, and that there
is at least one version.

- `TypeCorrect` and `ScansExclude`: `TypeOK` and `LockInv`, inductive together.
  `LockInv` says that whoever is past the lock of its source holds it; the types need
  it because only such a process is known to have a source at hand.  `Others` is
  what a move of one process leaves of all others (`MovesKeepOthers`), so that each
  step has to be looked at for the process that makes it only (`MovesLocked`).
- `ChangesCovered`: `ChangeCovered` is not inductive, since a success makes a row
  fresh again: `CoverInv` adds that a scan, and a written snapshot, that is behind the
  disk has left a signal (an event, the dirty bit, a record of a miss).  Steps that
  leave a source alone or raise a signal keep it (`CoverKept`); the others are those of
  the attempt, which the lock makes the only one (`AttemptCovers`).
- `RefreshMirrors` and `StepsMirrored`: every step is a step of `SourceMirror`, of each
  source, or leaves it as it is (`SourceStep`).  It needs `NewerInv`: what a process is
  about to write lies between the library and the disk; the locks make it last, and that
  only a configured source is reconciled.  It holds of a scan from its end to its
  transaction, whatever happens to the configuration after it has been compared.
- `BackgroundWhenDue`: `BackgroundOnlyWhenDue`, from `DueInv`: what was due under the
  lock stays due until the attempt begins, as nobody else writes the row of a locked
  source except to make it more due.
- `AloneIsMarked` and `RescansAreMarked`: that `library.tsv` is current or marked is far
  from inductive, since the marker goes when a file is renamed that was written earlier from
  rows that were read earlier still.  `AloneInv` says what an operation may rely on that has
  these files to itself: from its marker to its return the marker is there, its rows are
  what SQLite lists, and the temporary file is its own and holds its rows once it is
  written.  A step that makes two operations meet ends all claims (`overlapped`), and
  `KindInv` shows that two full rescans never meet, as the rescan lock has one holder.  That
  the condition is needed is what the run `sharedtmp` shows.
- `CurrentIsPublished`: even where operations meet, nobody publishes rows that SQLite no
  longer lists.  `RevInv` says that a revision stands for its rows: whoever has rows of the
  present revision has the present rows.  So what goes wrong in `sharedtmp` is the
  temporary file and nothing else.

### LibrarySchedulerProofs

- `TypeCorrect`: `TypeOK` is inductive.
- `BatchesDisjoint`, `ChangesRemembered`, `ReloadsOutstanding` and `MaintenanceAlone` come
  from one invariant, `IInv`.  `GateInv` says that the guards are those of the threads
  at work and that a task that has waited finds none, which lasts because a pause
  lets nobody in.  `BatchInv` says when a thread has a batch and when it has published:
  without it a batch could be given back twice, or as published before it was.
  `ScheduleOnly`, `ThreadOnly` and `GiveBackOnly` treat the three kinds of steps: of the
  user and the clock, of a thread that keeps its batch, and of one that gives it back.

### LibraryServiceProofs

One invariant, `LibraryIInv`, for `DatabaseFile`, `MaintenanceGate` and `LibraryService`
together.

- `NoConnectionOutlivesItsFile`: `FileInv` says that every open connection is on the
  current file and that whoever replaces it holds the lock alone; the locks that idle
  connections keep are what makes it inductive.
- `FilesAreOneLibrary`: from it, every step of the service is a step of `SharedLibrary` or a
  stutter, with `OpenViews` as what is seen.  A take-over of an idle connection, a commit
  on one and a replacement are the three kinds of steps that are no stutter.
- `LibraryTypesCorrect`; the caches keep to their limits.
- `PagesShowTheirRevision`: `PagesKnown` says it of the pages that calls have loaded, too;
  the revision grows with each replacement (`RevisionStep`).
- `NoDeadFlight`: `FlightsLed` is inductive with the types.
- `NothingOutdatedUnnoticed`: `Watching` adds what the observer knows while undisturbed.

### DatabaseUpkeepProofs

`UpkeepIInv` says of each task, by its place, what kind it can be of (`PlacesFit`), whom its
locks exclude (`LocksExclude`), when there is a database and no `-wal` file (`FilesThere`),
that its candidate is complete (`CandidatesFit`), and that a backup that may still be removed
has nothing the database does not have (`BackupsFit`).

- `UpkeepTypesCorrect` and `StartedFindCurrent`: `StartedCurrent` needs the candidates, which
  are of the current schema when they take the place of the file, and the locks, under which
  nobody but the upgrade looks at an older one.
- `NothingIsLost`: `NothingLost`, step by step: a restore has a backup of all that is there
  when it replaces the file, a repair has a candidate with all of it, and what is removed
  with a backup is still in the database.

### ServicesProofs

- `ServicesTypesCorrect`: the types of all of `MCServices`, from those of its parts
  (`CoordinatorTypesCorrect`, `ScanTypesCorrect`, `RegistryTypesCorrect`, and `TypeCorrect`
  of the scheduler); `ServicesRunTheirParts` carries over what is proved of a part.
- `OneWindow` (`InstanceCoordinator`): `LeaseHeld` says that whoever is primary holds the
  lock, also while it ends, and `AnswersTruthful` that an answer that is on its way is true.
- `NeverStopsLooking` (`ScanProgress`): `Watched`, with what a hidden window has switched
  off (`HiddenQuiet`) and which request the controller waits for (`PollFits`, `ReadsFit`).
- `SourcesKeptWatched` (`WatchRegistry`): a message counts only for the registered watcher
  (`OneHandle`, `HandlesFit`, `MessagesFit`); a thread nobody stopped is registered
  (`RunnersRegistered`) and a registered one runs or has said that it failed
  (`HandlesRun`).  A change that was missed (`NothingMissed`, `BlindKnown`) leads through
  the failure to a retry, from it to a recovery, and from there to the scheduler (`GapKept`).

### Only model-checked

- Liveness (`OperationEnds`, and every `Fairly...`), which is beyond the prover.
- `LibraryRunTypeOK`, which joins the types of `LibraryRefresh` in two instances with those
  of the service.  `TypeCorrect` proves the former for all values of the constants, those of
  both instances included, and `LibraryTypesCorrect` the latter; the join is left to TLC.
- The six properties that fail (section 5).

## 7. Not modelled

See the table of section 1, the abstractions in section 3 and the notes of `PROJECT.json`.
Scanning, decoding, queries, configuration and printing are data and I/O without a protocol.
The races of scan workers over their directories (the sweep of stale ones may meet one
that has just been made) and the start-up of the frontend have protocols, small ones, and are
left for later, as is the rest of section 2.
