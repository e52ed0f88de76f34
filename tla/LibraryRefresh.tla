--------------------------- MODULE LibraryRefresh ---------------------------
(***************************************************************************)
(* Refreshing the wallpaper library: rounds of the GUI and of the command  *)
(* line scan the configured sources, write what they saw to SQLite and     *)
(* publish the legacy library.tsv, while files change on disk and the      *)
(* watcher marks sources dirty (wc-app library_refresh_round.rs and        *)
(* library_rescan.rs, wc-storage source_refresh_state.rs).                 *)
(*                                                                         *)
(* The content of a source is a version number: the disk has one, the      *)
(* library has the one of the last complete scan, 0 when it has none.      *)
(* Wall-clock deadlines are steps that may happen at any time: a success   *)
(* stops being fresh, a backoff ends, a wait for a lock gives up.          *)
(***************************************************************************)
EXTENDS Naturals, FiniteSets

CONSTANTS
    Source,        \* stable ids of sources, configured or to be configured
    Configured,    \* the ones configured, scanned and published at the start
    Proc,          \* whatever runs one round at a time: GUI workers, CLI processes
    Gui,           \* those of Proc that are threads of the GUI process
    Kinds,         \* operations that may be requested
    None,          \* no source, no process, no file
    Partial,       \* content of a file that is not completely written
    \* Bounds of the model.
    MaxVersion,    \* versions of a source on disk
    MaxRequests,   \* operations started by a user
    MaxExpiries,   \* successes that grow stale while the library is up to date
    MaxFaults      \* failed scans, storage errors, cancellations and crashes

\* A round over every source, over one source, over one just added or set to list
\* its subdirectories or not, by the scheduler over some; the removal of a source.
Kind == {"rescan", "targeted", "add", "recursive", "background", "remove"}

ASSUME Bounds ==
    /\ Configured \subseteq Source /\ Gui \subseteq Proc /\ Kinds \subseteq Kind
    /\ None \notin Source \cup Proc
    /\ None \notin [Source -> 0 .. MaxVersion] \cup {Partial}
    /\ MaxVersion \in Nat \ {0}
    /\ MaxRequests \in Nat /\ MaxExpiries \in Nat /\ MaxFaults \in Nat

Version == 0 .. MaxVersion

\* The rows of library.tsv: those of a library, or an incomplete file.
Rows == [Source -> Version] \cup {Partial}

VARIABLES
    disk,        \* disk[s]: version of the files of source s
    event,       \* event[s]: the watcher saw a change and its message is not handled
    status,      \* status[s]: "new", "present" in the table sources, or "removed"
    refresh,     \* refresh[s]: row of source_refresh_state, and the availability
    library,     \* library[s]: version that SQLite lists for source s
    revision,    \* library_revision of db_meta
    marker,      \* the file library.dirty exists
    tmp,         \* content of library.tsv.tmp, None if there is no such file
    tsv,         \* content of library.tsv
    scan_lock,   \* scan_lock[s]: holder of .library.source.<id>.lock
    rescan_lock, \* holder of .library.rescan.lock
    pc, op,      \* progress and local state of each process
    requests, expiries, faults,
    missed       \* history: a change of s was not reported, or an attempt broken off

db == <<status, refresh, library, revision>>
files == <<marker, tmp, tsv>>
locks == <<scan_lock, rescan_lock>>
counters == <<requests, expiries, faults>>
vars == <<disk, event, db, files, locks, pc, op, counters, missed>>

\* What a process knows: the sources still to do, the one at hand, those of them
\* whose record is old, the version its scan saw, the snapshot it exports, and where
\* its open output file is now: the temporary file, renamed into place, or unlinked.
Op == [kind : Kind \cup {None}, todo : SUBSET Source, src : Source \cup {None},
       old : SUBSET Source, seen : Version, rev : Nat, rows : Rows,
       file : {"none", "tmp", "tsv", "gone"}]
NoOp == [kind |-> None, todo |-> {}, src |-> None, old |-> {}, seen |-> 0, rev |-> 0,
         rows |-> Partial, file |-> "none"]

\* dirty, last_success_at within the TTL, next_retry_at in the future.
Refresh == [dirty : BOOLEAN, fresh : BOOLEAN, backoff : BOOLEAN,
            avail : {"available", "offline", "unknown"}]
NewRow == [dirty |-> TRUE, fresh |-> FALSE, backoff |-> FALSE, avail |-> "unknown"]
DoneRow == [dirty |-> FALSE, fresh |-> TRUE, backoff |-> FALSE, avail |-> "available"]

Present == {s \in Source : status[s] = "present"}

\* Mutant: successes are trusted for ever.
DueWhenDirty(s) == ~refresh[s].backoff /\ refresh[s].dirty

\* source_refresh_eligibility for background work.
Due(s) == ~refresh[s].backoff /\ (refresh[s].dirty \/ ~refresh[s].fresh)

Holds(p, s) == scan_lock[s] = p

Init ==
    /\ disk = [s \in Source |-> 1]
    /\ event = [s \in Source |-> FALSE]
    /\ status = [s \in Source |-> IF s \in Configured THEN "present" ELSE "new"]
    /\ refresh = [s \in Source |-> IF s \in Configured THEN DoneRow ELSE NewRow]
    /\ library = [s \in Source |-> IF s \in Configured THEN 1 ELSE 0]
    /\ revision = 1
    /\ marker = FALSE
    /\ tmp = None
    /\ tsv = library
    /\ scan_lock = [s \in Source |-> None]
    /\ rescan_lock = None
    /\ pc = [p \in Proc |-> "idle"]
    /\ op = [p \in Proc |-> NoOp]
    /\ requests = 0 /\ expiries = 0 /\ faults = 0
    /\ missed = [s \in Source |-> FALSE]

-----------------------------------------------------------------------------
\* The world: files change, the watcher reports it, deadlines pass.

\* A watcher reports a change, unless there is none yet: the first one of a source
\* starts up to two seconds after the source is listed and marks nothing then.
Change(s) ==
    /\ disk[s] < MaxVersion
    /\ disk' = [disk EXCEPT ![s] = @ + 1]
    /\ \/ /\ status[s] = "present"
          /\ event' = [event EXCEPT ![s] = TRUE] /\ UNCHANGED missed
       \/ missed' = [missed EXCEPT ![s] = TRUE] /\ UNCHANGED event
    /\ UNCHANGED <<db, files, locks, pc, op, counters>>

\* The scheduler thread handles a message of the watcher and marks the row.
MarkDirty(s) ==
    /\ event[s]
    /\ event' = [event EXCEPT ![s] = FALSE]
    /\ IF status[s] = "present"
       THEN refresh' = [refresh EXCEPT ![s].dirty = TRUE]
       ELSE UNCHANGED refresh
    /\ UNCHANGED <<disk, status, library, revision, files, locks, pc, op, counters, missed>>

\* The storage error of that write is ignored.
MarkLost(s) ==
    /\ event[s] /\ faults < MaxFaults
    /\ event' = [event EXCEPT ![s] = FALSE]
    /\ missed' = [missed EXCEPT ![s] = TRUE]
    /\ faults' = faults + 1
    /\ UNCHANGED <<disk, db, files, locks, pc, op, requests, expiries>>

\* Thirty minutes after the last success. The bound is on those that find nothing.
GrowStale(s) ==
    /\ refresh[s].fresh
    /\ refresh' = [refresh EXCEPT ![s].fresh = FALSE]
    /\ IF library[s] = disk[s]
       THEN expiries < MaxExpiries /\ expiries' = expiries + 1
       ELSE UNCHANGED expiries
    /\ UNCHANGED <<disk, event, status, library, revision, files, locks, pc, op,
                   requests, faults, missed>>

RetryTime(s) ==
    /\ refresh[s].backoff
    /\ refresh' = [refresh EXCEPT ![s].backoff = FALSE]
    /\ UNCHANGED <<disk, event, status, library, revision, files, locks, pc, op,
                   counters, missed>>

-----------------------------------------------------------------------------
\* Starting and ending.

\* All the locks of p are guards dropped when its operation returns.
Release(p) ==
    /\ scan_lock' = [s \in Source |-> IF Holds(p, s) THEN None ELSE scan_lock[s]]
    /\ rescan_lock' = IF rescan_lock = p THEN None ELSE rescan_lock

End(p) ==
    /\ Release(p)
    /\ pc' = [pc EXCEPT ![p] = "idle"]
    /\ op' = [op EXCEPT ![p] = NoOp]

Requested(p, kind) ==
    /\ pc[p] = "idle" /\ kind \in Kinds
    /\ requests < MaxRequests
    /\ requests' = requests + 1

\* A rescan of every source, in the GUI or the command line.
RequestRescan(p) ==
    /\ Requested(p, "rescan")
    /\ pc' = [pc EXCEPT ![p] = "rescan_lock"]
    /\ op' = [op EXCEPT ![p].kind = "rescan"]
    /\ UNCHANGED <<disk, event, db, files, locks, expiries, faults, missed>>

\* A round over one configured source takes no rescan lock.
RequestTargeted(p, s) ==
    /\ Requested(p, "targeted")
    /\ s \in Present
    /\ pc' = [pc EXCEPT ![p] = "marker"]
    /\ op' = [op EXCEPT ![p].kind = "targeted", ![p].todo = {s}]
    /\ UNCHANGED <<disk, event, db, files, locks, expiries, faults, missed>>

\* Adding a source saves it first and then refreshes it.
RequestAdd(p, s) ==
    /\ Requested(p, "add")
    /\ status[s] = "new"
    /\ status' = [status EXCEPT ![s] = "present"]
    /\ refresh' = [refresh EXCEPT ![s] = NewRow]
    /\ revision' = revision + 1
    /\ pc' = [pc EXCEPT ![p] = "marker"]
    /\ op' = [op EXCEPT ![p].kind = "add", ![p].todo = {s}]
    /\ UNCHANGED <<disk, event, library, files, locks, expiries, faults, missed>>

\* What a source comprises changes with its `recursive`, which marks nothing in the
\* row. Rounds that have read its record scan by the old one.
SetRecursive(p, s) ==
    /\ Requested(p, "recursive")
    /\ s \in Present /\ disk[s] < MaxVersion
    /\ disk' = [disk EXCEPT ![s] = @ + 1]
    /\ missed' = [missed EXCEPT ![s] = TRUE]
    /\ revision' = revision + 1
    /\ pc' = [pc EXCEPT ![p] = "marker"]
    /\ op' = [q \in Proc |->
                CASE q = p -> [op[q] EXCEPT !.kind = "recursive", !.todo = {s}]
                  [] q # p /\ pc[q] # "marker" /\ s \in op[q].todo \cup {op[q].src} ->
                        [op[q] EXCEPT !.old = @ \cup {s}]
                  [] OTHER -> op[q]]
    /\ UNCHANGED <<event, status, refresh, library, files, locks, expiries, faults>>

RequestRemove(p, s) ==
    /\ Requested(p, "remove")
    /\ s \in Present
    /\ pc' = [pc EXCEPT ![p] = "lock"]
    /\ op' = [op EXCEPT ![p].kind = "remove", ![p].src = s]
    /\ UNCHANGED <<disk, event, db, files, locks, expiries, faults, missed>>

\* The scheduler starts a worker on a batch of sources. It may do so for sources
\* that are not due: the round skips them and exports the library again.
StartBackground(p, batch) ==
    /\ pc[p] = "idle" /\ p \in Gui /\ "background" \in Kinds
    /\ batch # {} /\ batch \subseteq Present
    /\ pc' = [pc EXCEPT ![p] = "marker"]
    /\ op' = [op EXCEPT ![p].kind = "background", ![p].todo = batch]
    /\ UNCHANGED <<disk, event, db, files, locks, counters, missed>>

AcquireRescan(p) ==
    /\ pc[p] = "rescan_lock" /\ rescan_lock = None
    /\ rescan_lock' = p
    /\ pc' = [pc EXCEPT ![p] = "marker"]
    /\ UNCHANGED <<disk, event, db, files, scan_lock, op, counters, missed>>

RescanBusy(p) ==
    /\ pc[p] = "rescan_lock" /\ rescan_lock # None
    /\ End(p)
    /\ UNCHANGED <<disk, event, db, files, counters, missed>>

-----------------------------------------------------------------------------
\* A round. It selects its sources, leaves the stale-snapshot marker, and then
\* takes one source after the other.

EstablishMarker(p) ==
    /\ pc[p] = "marker" /\ op[p].todo \subseteq Present
    /\ marker' = TRUE
    /\ IF op[p].kind = "remove"
       THEN pc' = [pc EXCEPT ![p] = "remove"] /\ UNCHANGED op
       ELSE /\ pc' = [pc EXCEPT ![p] = "next"]
            /\ op' = [op EXCEPT ![p].todo = IF op[p].kind = "rescan" THEN Present ELSE @]
    /\ UNCHANGED <<disk, event, db, tmp, tsv, locks, counters, missed>>

\* A selection with an unknown id is an error before anything is scanned.
SelectionFails(p) ==
    /\ pc[p] = "marker" /\ ~(op[p].todo \subseteq Present)
    /\ End(p)
    /\ UNCHANGED <<disk, event, db, files, counters, missed>>

\* Background work passes over sources that are not due; a source removed in the
\* meantime is an error that ends the round.
NextSource(p) ==
    /\ pc[p] = "next"
    /\ \E s \in op[p].todo :
          IF op[p].kind = "background" /\ status[s] # "present"
          THEN End(p)
          ELSE /\ IF op[p].kind = "background" /\ ~Due(s)
                  THEN op' = [op EXCEPT ![p].todo = @ \ {s}] /\ UNCHANGED pc
                  ELSE /\ op' = [op EXCEPT ![p].todo = @ \ {s}, ![p].src = s]
                       /\ pc' = [pc EXCEPT ![p] = "lock"]
               /\ UNCHANGED locks
    /\ UNCHANGED <<disk, event, db, files, counters, missed>>

AllDone(p) ==
    /\ pc[p] = "next" /\ op[p].todo = {}
    /\ pc' = [pc EXCEPT ![p] = "snapshot"]
    /\ UNCHANGED <<disk, event, db, files, locks, op, counters, missed>>

\* Mutant: the lock of a source is not tried.
AcquireSourceUnlocked(p) ==
    LET s == op[p].src IN
    /\ pc[p] = "lock"
    /\ scan_lock' = [scan_lock EXCEPT ![s] = p]
    /\ pc' = [pc EXCEPT ![p] = CASE op[p].kind = "background" -> "recheck"
                                 [] op[p].kind = "remove" -> "marker"
                                 [] OTHER -> "begin"]
    /\ UNCHANGED <<disk, event, db, files, rescan_lock, op, counters, missed>>

AcquireSource(p) ==
    LET s == op[p].src IN
    /\ pc[p] = "lock" /\ scan_lock[s] = None
    /\ scan_lock' = [scan_lock EXCEPT ![s] = p]
    /\ pc' = [pc EXCEPT ![p] = CASE op[p].kind = "background" -> "recheck"
                                 [] op[p].kind = "remove" -> "marker"
                                 [] OTHER -> "begin"]
    /\ UNCHANGED <<disk, event, db, files, rescan_lock, op, counters, missed>>

\* Background work leaves a busy source alone; the others give up after two
\* seconds.
SourceBusy(p) ==
    /\ pc[p] = "lock" /\ scan_lock[op[p].src] # None
    /\ IF op[p].kind = "background"
       THEN /\ pc' = [pc EXCEPT ![p] = "next"]
            /\ op' = [op EXCEPT ![p].src = None]
            /\ UNCHANGED locks
       ELSE End(p)
    /\ UNCHANGED <<disk, event, db, files, counters, missed>>

\* The iteration over the source at hand ends and drops its lock.
Leave(p) ==
    /\ scan_lock' = [scan_lock EXCEPT ![op[p].src] = None]
    /\ pc' = [pc EXCEPT ![p] = "next"]
    /\ op' = [op EXCEPT ![p].src = None, ![p].old = @ \ {op[p].src}, ![p].seen = 0]
    /\ UNCHANGED rescan_lock

\* Mutant: eligibility is not looked at again under the lock.
RecheckSkipped(p) ==
    /\ pc[p] = "recheck"
    /\ pc' = [pc EXCEPT ![p] = "begin"]
    /\ UNCHANGED <<disk, event, db, files, locks, op, counters, missed>>

\* Another process may have refreshed the source since the first look.
Recheck(p) ==
    LET s == op[p].src IN
    /\ pc[p] = "recheck"
    /\ CASE status[s] # "present" -> End(p)
         [] status[s] = "present" /\ ~Due(s) -> Leave(p)
         [] OTHER -> pc' = [pc EXCEPT ![p] = "begin"] /\ UNCHANGED <<locks, op>>
    /\ UNCHANGED <<disk, event, db, files, counters, missed>>

\* The dirty bit is cleared before the enumeration, so that what the watcher
\* reports from now on sets it again.
BeginAttempt(p) ==
    LET s == op[p].src IN
    /\ pc[p] = "begin"
    /\ IF status[s] # "present"
       THEN End(p) /\ UNCHANGED <<refresh, missed>>
       ELSE /\ refresh' = [refresh EXCEPT ![s].dirty = FALSE]
            /\ missed' = [missed EXCEPT ![s] = FALSE]
            /\ pc' = [pc EXCEPT ![p] = "scan"]
            /\ UNCHANGED <<locks, op>>
    /\ UNCHANGED <<disk, event, status, library, revision, files, counters>>

\* Mutant: the lock covers the enumeration only.
ScanCompleteUnlocked(p) ==
    /\ pc[p] = "scan"
    /\ op' = [op EXCEPT ![p].seen = disk[op[p].src]]
    /\ pc' = [pc EXCEPT ![p] = "check"]
    /\ scan_lock' = [scan_lock EXCEPT ![op[p].src] = None]
    /\ UNCHANGED <<disk, event, db, files, rescan_lock, counters, missed>>

\* A complete scan, taken as one read of the disk: what changes while it runs is
\* reported by the watcher in any case.
ScanComplete(p) ==
    /\ pc[p] = "scan"
    /\ op' = [op EXCEPT ![p].seen = disk[op[p].src]]
    /\ pc' = [pc EXCEPT ![p] = "check"]
    /\ UNCHANGED <<disk, event, db, files, locks, counters, missed>>

\* An offline or incomplete scan keeps the previous rows.
ScanFails(p) ==
    LET s == op[p].src IN
    /\ pc[p] = "scan" /\ faults < MaxFaults
    /\ \E a \in {"offline", "unknown"} :
          /\ refresh' = [refresh EXCEPT ![s].avail = a]
          /\ revision' = IF refresh[s].avail = a THEN revision ELSE revision + 1
    /\ pc' = [pc EXCEPT ![p] = "fail"]
    /\ faults' = faults + 1
    /\ UNCHANGED <<disk, event, status, library, files, locks, op, requests, expiries, missed>>

RecordFailure(p) ==
    /\ pc[p] = "fail"
    /\ refresh' = [refresh EXCEPT ![op[p].src].dirty = TRUE, ![op[p].src].backoff = TRUE]
    /\ Leave(p)
    /\ UNCHANGED <<disk, event, status, library, revision, files, counters, missed>>

\* The user cancels; the row is repaired and the whole round ends.
Cancelled(p) ==
    /\ pc[p] = "scan" /\ faults < MaxFaults
    /\ refresh' = [refresh EXCEPT ![op[p].src].dirty = TRUE, ![op[p].src].backoff = FALSE]
    /\ End(p)
    /\ faults' = faults + 1
    /\ UNCHANGED <<disk, event, status, library, revision, files, requests, expiries, missed>>

\* The attempt of p on its source is interrupted after the dirty bit was cleared
\* and before the library has what the scan saw.
Interrupted(p) == pc[p] \in {"scan", "check", "reconcile", "fail"}

BrokenOff(ps) == [s \in Source |-> missed[s] \/ \E p \in ps : Interrupted(p) /\ op[p].src = s]

\* A scan by an old record is an error that ends the round. The record is read apart
\* from the transaction that follows: it may change once more in between.
CheckConfig(p) ==
    LET s == op[p].src IN
    /\ pc[p] = "check"
    /\ IF status[s] # "present" \/ s \in op[p].old
       THEN End(p) /\ missed' = BrokenOff({p})
       ELSE pc' = [pc EXCEPT ![p] = "reconcile"] /\ UNCHANGED <<locks, op, missed>>
    /\ UNCHANGED <<disk, event, db, files, counters>>

\* One transaction replaces the rows of the source and bumps the revision. Of the
\* record it looks only whether it is there.
Reconcile(p) ==
    LET s == op[p].src IN
    /\ pc[p] = "reconcile"
    /\ IF status[s] # "present"
       THEN /\ End(p)
            /\ missed' = BrokenOff({p})
            /\ UNCHANGED <<library, refresh, revision>>
       ELSE /\ library' = [library EXCEPT ![s] = op[p].seen]
            /\ refresh' = [refresh EXCEPT ![s].avail = "available"]
            /\ revision' = revision + 1
            /\ pc' = [pc EXCEPT ![p] = "succeed"]
            /\ UNCHANGED <<locks, op, missed>>
    /\ UNCHANGED <<disk, event, status, files, counters>>

\* Mutant: success resets the whole row.
RecordSuccessClean(p) ==
    LET s == op[p].src IN
    /\ pc[p] = "succeed"
    /\ refresh' = [refresh EXCEPT ![s] = DoneRow]
    /\ Leave(p)
    /\ UNCHANGED <<disk, event, status, library, revision, files, counters, missed>>

\* Success keeps the dirty bit: it may be newer than the scan.
RecordSuccess(p) ==
    LET s == op[p].src IN
    /\ pc[p] = "succeed"
    /\ refresh' = [refresh EXCEPT ![s].fresh = TRUE, ![s].backoff = FALSE]
    /\ Leave(p)
    /\ UNCHANGED <<disk, event, status, library, revision, files, counters, missed>>

\* Removing a source deletes its rows, the one of source_refresh_state included.
Remove(p) ==
    LET s == op[p].src IN
    /\ pc[p] = "remove"
    /\ IF status[s] # "present"
       THEN End(p) /\ UNCHANGED db
       ELSE /\ status' = [status EXCEPT ![s] = "removed"]
            /\ refresh' = [refresh EXCEPT ![s] = NewRow]
            /\ library' = [library EXCEPT ![s] = 0]
            /\ revision' = revision + 1
            /\ pc' = [pc EXCEPT ![p] = "snapshot"]
            /\ UNCHANGED <<locks, op>>
    /\ UNCHANGED <<disk, event, files, counters, missed>>

-----------------------------------------------------------------------------
\* Exporting library.tsv.

\* The rows and their revision, from one read transaction.
Snapshot(p) ==
    /\ pc[p] = "snapshot"
    /\ op' = [op EXCEPT ![p].rev = revision, ![p].rows = library]
    /\ pc' = [pc EXCEPT ![p] = "create"]
    /\ UNCHANGED <<disk, event, db, files, locks, counters, missed>>

\* File::create truncates the temporary file, whoever is writing it.
CreateTmp(p) ==
    /\ pc[p] = "create"
    /\ tmp' = Partial
    /\ op' = [op EXCEPT ![p].file = "tmp"]
    /\ pc' = [pc EXCEPT ![p] = "write"]
    /\ UNCHANGED <<disk, event, db, marker, tsv, locks, counters, missed>>

\* What a file holds after rows were written from its start: a longer file of
\* another writer may keep its tail.
Written(old, rows) == IF old \in {Partial, rows} THEN {rows} ELSE {rows, Partial}

WriteTmp(p) ==
    /\ pc[p] = "write"
    /\ CASE op[p].file = "tmp" -> tmp' \in Written(tmp, op[p].rows) /\ UNCHANGED tsv
         [] op[p].file = "tsv" -> tsv' \in Written(tsv, op[p].rows) /\ UNCHANGED tmp
         [] OTHER -> UNCHANGED <<tmp, tsv>>
    /\ pc' = [pc EXCEPT ![p] = "publish"]
    /\ UNCHANGED <<disk, event, db, marker, locks, op, counters, missed>>

\* Where the open files are after the temporary file moved to `place`, which
\* unlinks what was there.
Moved(place) ==
    [q \in Proc |->
        CASE op[q].file = "tmp" -> [op[q] EXCEPT !.file = place]
          [] op[q].file = "tsv" /\ place = "tsv" -> [op[q] EXCEPT !.file = "gone"]
          [] OTHER -> op[q]]

\* Mutant: a rename that finds no temporary file goes unnoticed.
PublishBlindly(p) ==
    /\ pc[p] = "publish"
    /\ revision = op[p].rev
    /\ tsv' = tmp /\ tmp' = None
    /\ marker' = FALSE
    /\ op' = [Moved("tsv") EXCEPT ![p] = NoOp]
    /\ pc' = [pc EXCEPT ![p] = "idle"]
    /\ Release(p)
    /\ UNCHANGED <<disk, event, db, counters, missed>>

\* Under the writer slot of SQLite: the revision must be the one of the snapshot,
\* then the file is renamed into place and the marker removed.
Publish(p) ==
    /\ pc[p] = "publish"
    /\ revision = op[p].rev /\ tmp # None
    /\ tsv' = tmp /\ tmp' = None
    /\ marker' = FALSE
    /\ op' = [Moved("tsv") EXCEPT ![p] = NoOp]
    /\ pc' = [pc EXCEPT ![p] = "idle"]
    /\ Release(p)
    /\ UNCHANGED <<disk, event, db, counters, missed>>

\* Mutant: the marker goes with the temporary file.
DegradeUnmarked(p) ==
    /\ tmp' = None
    /\ marker' = FALSE
    /\ op' = [Moved("gone") EXCEPT ![p] = NoOp]
    /\ pc' = [pc EXCEPT ![p] = "idle"]
    /\ Release(p)
    /\ UNCHANGED <<disk, event, db, tsv, missed>>

\* Otherwise, or if writing fails, the temporary file is deleted by name and the
\* marker stays; the round has succeeded all the same.
Degrade(p) ==
    /\ tmp' = None
    /\ op' = [Moved("gone") EXCEPT ![p] = NoOp]
    /\ pc' = [pc EXCEPT ![p] = "idle"]
    /\ Release(p)
    /\ UNCHANGED <<disk, event, db, marker, tsv, missed>>

PublishRefused(p) ==
    /\ pc[p] = "publish"
    /\ revision # op[p].rev \/ tmp = None
    /\ Degrade(p)
    /\ UNCHANGED counters

ExportFails(p) ==
    /\ pc[p] \in {"write", "publish"} /\ faults < MaxFaults
    /\ Degrade(p)
    /\ faults' = faults + 1
    /\ UNCHANGED <<requests, expiries>>

-----------------------------------------------------------------------------
\* Faults.

\* A statement fails. The error goes up to the caller and the row of the attempt
\* stays as it is.
StorageError(p) ==
    /\ pc[p] \in {"next", "recheck", "begin", "scan", "check", "reconcile", "succeed",
                  "fail", "remove", "snapshot"}
    /\ faults < MaxFaults
    /\ End(p)
    /\ missed' = BrokenOff({p})
    /\ faults' = faults + 1
    /\ UNCHANGED <<disk, event, db, files, requests, expiries>>

\* A command line process dies, or the GUI with all its rounds and the messages
\* its watchers had not delivered. Locks go with the process, files stay.
Crash(ps) ==
    /\ \E p \in ps : pc[p] # "idle"
    /\ faults < MaxFaults
    /\ pc' = [p \in Proc |-> IF p \in ps THEN "idle" ELSE pc[p]]
    /\ op' = [p \in Proc |-> IF p \in ps THEN NoOp ELSE op[p]]
    /\ scan_lock' = [s \in Source |-> IF scan_lock[s] \in ps THEN None ELSE scan_lock[s]]
    /\ rescan_lock' = IF rescan_lock \in ps THEN None ELSE rescan_lock
    /\ IF ps = Gui
       THEN /\ event' = [s \in Source |-> FALSE]
            /\ missed' = [s \in Source |-> BrokenOff(ps)[s] \/ event[s]]
       ELSE missed' = BrokenOff(ps) /\ UNCHANGED event
    /\ faults' = faults + 1
    /\ UNCHANGED <<disk, db, files, requests, expiries>>

-----------------------------------------------------------------------------
World(s) == Change(s) \/ MarkDirty(s) \/ MarkLost(s) \/ GrowStale(s) \/ RetryTime(s)

User(p) ==
    \/ RequestRescan(p)
    \/ \E s \in Source : 
          \/ RequestTargeted(p, s) \/ RequestAdd(p, s)
          \/ SetRecursive(p, s) \/ RequestRemove(p, s)

Step(p) ==
    \/ AcquireRescan(p) \/ RescanBusy(p) \/ EstablishMarker(p) \/ SelectionFails(p)
    \/ NextSource(p) \/ AllDone(p) \/ AcquireSource(p) \/ SourceBusy(p)
    \/ Recheck(p) \/ BeginAttempt(p) \/ ScanComplete(p) \/ CheckConfig(p)
    \/ Reconcile(p) \/ RecordSuccess(p) \/ RecordFailure(p) \/ Remove(p)
    \/ Snapshot(p) \/ CreateTmp(p) \/ WriteTmp(p) \/ Publish(p) \/ PublishRefused(p)

Fault ==
    \/ \E p \in Proc : ScanFails(p) \/ Cancelled(p) \/ ExportFails(p) \/ StorageError(p)
    \/ Crash(Gui)
    \/ \E p \in Proc \ Gui : Crash({p})

Next ==
    \/ \E s \in Source : World(s)
    \/ \E p \in Proc : User(p) \/ Step(p)
    \/ \E p \in Proc, batch \in SUBSET Source : StartBackground(p, batch)
    \/ Fault

Spec == Init /\ [][Next]_vars

\* Every thread goes on, messages are handled, successes grow stale and backoffs
\* end; the scheduler looks for due sources every two seconds and puts each of them
\* in its next batch, which holds only if no source was removed (LibraryScheduler).
FairSpec ==
    /\ Spec
    /\ \A p \in Proc : WF_vars(Step(p))
    /\ \A s \in Source :
          /\ WF_vars(MarkDirty(s))
          /\ WF_vars(RetryTime(s)) /\ WF_vars(GrowStale(s))
          /\ SF_vars(Due(s) /\ \E p \in Gui, batch \in SUBSET Source :
                        s \in batch /\ StartBackground(p, batch))

-----------------------------------------------------------------------------
TypeOK ==
    /\ disk \in [Source -> Version] /\ event \in [Source -> BOOLEAN]
    /\ status \in [Source -> {"new", "present", "removed"}]
    /\ refresh \in [Source -> Refresh] /\ library \in [Source -> Version]
    /\ revision \in Nat
    /\ marker \in BOOLEAN /\ tmp \in Rows \cup {None} /\ tsv \in Rows
    /\ scan_lock \in [Source -> Proc \cup {None}] /\ rescan_lock \in Proc \cup {None}
    /\ pc \in [Proc -> {"idle", "rescan_lock", "marker", "next", "lock", "recheck",
                        "begin", "scan", "check", "reconcile", "succeed", "fail",
                        "remove", "snapshot", "create", "write", "publish"}]
    /\ op \in [Proc -> Op]
    /\ requests \in 0 .. MaxRequests /\ expiries \in 0 .. MaxExpiries
    /\ faults \in 0 .. MaxFaults /\ missed \in [Source -> BOOLEAN]

\* Two processes never work on the same source, in the GUI or in the command line:
\* the attempt from its begin to its record and the removal hold the scan lock.
Attempting(p) ==
    pc[p] \in {"begin", "scan", "check", "reconcile", "fail", "succeed", "remove"}

ScanExclusive ==
    \A p, q \in Proc :
        Attempting(p) /\ Attempting(q) /\ op[p].src = op[q].src => p = q

\* No change on disk is forgotten: what the library lacks is still to be reported,
\* or marked in the row, or found at the latest when the last success grows stale,
\* or about to be read or recorded by a running attempt. Only a change that no watcher
\* reported, a mark that could not be written and an attempt that was broken off
\* break this. It relates the
\* order "clear the bit, enumerate, keep the newer bit" of the round to the
\* watcher writing the same row at any time.
ChangeCovered ==
    \A s \in Present : library[s] # disk[s] =>
        \/ event[s] \/ refresh[s].dirty \/ ~refresh[s].fresh
        \/ missed[s]
        \/ \E p \in Proc :
              /\ op[p].src = s
              /\ \/ pc[p] \in {"scan", "fail"}
                 \/ pc[p] \in {"check", "reconcile"} /\ op[p].seen = disk[s]

\* While library.tsv is not what SQLite lists, library.dirty says so.
StaleMarked == tsv # library => marker

\* The same once every operation has returned: the file left behind by the last
\* one is current or marked.
QuietStaleMarked == (\A p \in Proc : pc[p] = "idle") => StaleMarked

\* Background work starts an attempt only on a source that is due when it starts:
\* not right after another process refreshed it, and not in its backoff.
BackgroundOnlyWhenDue ==
    [][\A p \in Proc : op[p].kind = "background" /\ pc[p] = "begin" /\ pc'[p] = "scan"
                            => Due(op[p].src)]_vars

\* In the end the library has what is on disk, whatever was missed or interrupted.
CatchesUp == <>[](\A s \in Present : library[s] = disk[s])
=============================================================================
