------------------------ MODULE LibraryRefreshProofs ------------------------
(***************************************************************************)
(* Safety of LibraryRefresh, for any sources, processes and bounds: types, *)
(* the scan lock, that no change is forgotten, that the library mirrors    *)
(* each source, and what library.tsv and its marker say.                   *)
(***************************************************************************)
EXTENDS LibraryPromises, TLAPS

PC == {"idle", "rescan_lock", "marker", "next", "lock", "recheck", "begin", "scan",
       "check", "reconcile", "succeed", "fail", "remove", "snapshot", "create", "write",
       "publish"}

\* What every step of a process does to the variables of processes keeps their type
\* when its new state of progress, record and locks have theirs.
LEMMA EndType ==
    ASSUME TypeOK, NEW p \in Proc, End(p)
    PROVE  /\ scan_lock' \in [Source -> Proc \cup {None}] /\ rescan_lock' \in Proc \cup {None}
           /\ pc' \in [Proc -> PC] /\ op' \in [Proc -> Op]
<1>1. NoOp \in Op
  BY Bounds DEF NoOp, Op, Rows, Version
<1>2. QED
  BY <1>1 DEF End, Release, TypeOK, PC, Holds

\* Leaving a source for the next one.
LEMMA LeaveType ==
    ASSUME TypeOK, NEW p \in Proc, Leave(p)
    PROVE  /\ scan_lock' \in [Source -> Proc \cup {None}] /\ rescan_lock' \in Proc \cup {None}
           /\ pc' \in [Proc -> PC] /\ op' \in [Proc -> Op]
<1>1. op[p] \in Op /\ 0 \in Version
  BY Bounds DEF TypeOK, Version
<1>2. [op[p] EXCEPT !.src = None, !.old = op[p].old \ {op[p].src}, !.seen = 0] \in Op
  BY <1>1 DEF Op
<1>3. QED
  BY <1>2 DEF Leave, TypeOK, PC

\* Renaming or removing the temporary file.
LEMMA MovedType ==
    ASSUME TypeOK, NEW place \in {"tsv", "gone"}
    PROVE  Moved(place) \in [Proc -> Op]
<1>1. ASSUME NEW q \in Proc PROVE Moved(place)[q] \in Op
  <2>1. op[q] \in Op
    BY DEF TypeOK
  <2>2. [op[q] EXCEPT !.file = place] \in Op /\ [op[q] EXCEPT !.file = "gone"] \in Op
    BY <2>1 DEF Op
  <2>3. Moved(place)[q] \in {op[q], [op[q] EXCEPT !.file = place], [op[q] EXCEPT !.file = "gone"]}
    BY DEF Moved
  <2>4. QED
    BY <2>1, <2>2, <2>3
<1>2. QED
  BY <1>1 DEF Moved

\* The processes and their locks, and everything else: one or the other is what an
\* action has to be looked at for.
ProcTypes ==
    /\ scan_lock \in [Source -> Proc \cup {None}] /\ rescan_lock \in Proc \cup {None}
    /\ pc \in [Proc -> PC] /\ op \in [Proc -> Op]
DataTypes ==
    /\ disk \in [Source -> Version] /\ event \in [Source -> BOOLEAN]
    /\ status \in [Source -> {"new", "present", "removed"}]
    /\ refresh \in [Source -> Refresh] /\ library \in [Source -> Version]
    /\ revision \in Nat /\ missed \in [Source -> BOOLEAN]
FileTypes == marker \in BOOLEAN /\ tmp \in Rows \cup {None} /\ tsv \in Rows
CounterTypes ==
    /\ requests \in 0 .. MaxRequests /\ expiries \in 0 .. MaxExpiries
    /\ faults \in 0 .. MaxFaults

\* TypeOK is these four.
LEMMA Parts == TypeOK <=> ProcTypes /\ DataTypes /\ FileTypes /\ CounterTypes
BY DEF TypeOK, ProcTypes, DataTypes, FileTypes, CounterTypes, PC

\* The same of the next state.
LEMMA PartsNext == ProcTypes' /\ DataTypes' /\ FileTypes' /\ CounterTypes' => TypeOK'
BY DEF TypeOK, ProcTypes, DataTypes, FileTypes, CounterTypes, PC

\* The rows that are written whole are rows of source_refresh_state.
LEMMA RowTypes == NewRow \in Refresh /\ DoneRow \in Refresh
BY DEF NewRow, DoneRow, Refresh

\* A start from a consistent database has the types.
LEMMA InitType == Init => TypeOK
<1> SUFFICES ASSUME Init PROVE TypeOK
  OBVIOUS
<1>1. NoOp \in Op
  BY Bounds DEF NoOp, Op, Rows, Version
<1>2. ProcTypes
  BY <1>1 DEF Init, ProcTypes, PC
<1>3. DataTypes
  BY RowTypes, Bounds DEF Init, DataTypes, Version
<1>4. FileTypes
  BY <1>3 DEF Init, DataTypes, FileTypes, Rows
<1>5. CounterTypes
  BY Bounds DEF Init, CounterTypes
<1>6. QED
  BY <1>2, <1>3, <1>4, <1>5, Parts

\* What a source may become on disk is bounded.
LEMMA DiskGrows ==
    ASSUME TypeOK, NEW s \in Source, disk[s] < MaxVersion
    PROVE  disk[s] + 1 \in Version
BY Bounds DEF TypeOK, Version

\* The steps of the world.
LEMMA WorldType ==
    ASSUME TypeOK, NEW s \in Source, World(s)
    PROVE  TypeOK'
<1>1. ProcTypes' /\ FileTypes'
  BY Parts DEF World, Change, MarkDirty, MarkLost, GrowStale, RetryTime, ProcTypes,
     FileTypes, files, locks
<1>2. refresh[s] \in Refresh
  BY DEF TypeOK
<1>3. /\ [refresh[s] EXCEPT !.dirty = TRUE] \in Refresh
      /\ [refresh[s] EXCEPT !.fresh = FALSE] \in Refresh
      /\ [refresh[s] EXCEPT !.backoff = FALSE] \in Refresh
  BY <1>2 DEF Refresh
<1>4. DataTypes' /\ CounterTypes'
  <2>1. CASE Change(s)
    <3>1. disk' \in [Source -> Version]
      BY <2>1, Parts, DiskGrows DEF Change, DataTypes
    <3>2. event' \in [Source -> BOOLEAN] /\ missed' \in [Source -> BOOLEAN]
      BY <2>1, Parts DEF Change, DataTypes
    <3>3. QED
      BY <2>1, <3>1, <3>2, Parts DEF Change, DataTypes, CounterTypes, db, counters
  <2>2. CASE MarkDirty(s)
    BY <2>2, <1>3, Parts DEF MarkDirty, DataTypes, CounterTypes, counters
  <2>3. CASE MarkLost(s)
    BY <2>3, Parts, Bounds DEF MarkLost, DataTypes, CounterTypes, db
  <2>4. CASE GrowStale(s)
    BY <2>4, <1>3, Parts, Bounds DEF GrowStale, DataTypes, CounterTypes
  <2>5. CASE RetryTime(s)
    BY <2>5, <1>3, Parts DEF RetryTime, DataTypes, CounterTypes, counters
  <2>6. QED
    BY <2>1, <2>2, <2>3, <2>4, <2>5 DEF World
<1>5. QED
  BY <1>1, <1>4, PartsNext

\* Who holds the lock of the source at hand.
Locked(p) ==
    \/ Attempting(p) \/ pc[p] = "recheck"
    \/ pc[p] = "marker" /\ op[p].kind = "remove"

LockInv ==
    \A p \in Proc :
        /\ Locked(p) => op[p].src \in Source /\ scan_lock[op[p].src] = p
        /\ pc[p] = "lock" => op[p].src \in Source
        /\ pc[p] = "rescan_lock" => op[p].kind = "rescan"

\* How the record of a process may change.
LEMMA Fields ==
    ASSUME NEW r \in Op
    PROVE  /\ \A k \in Kind : [r EXCEPT !.kind = k] \in Op
           /\ \A todo \in SUBSET Source : [r EXCEPT !.todo = todo] \in Op
           /\ \A k \in Kind, todo \in SUBSET Source :
                 [r EXCEPT !.kind = k, !.todo = todo] \in Op
           /\ \A k \in Kind, s \in Source : [r EXCEPT !.kind = k, !.src = s] \in Op
           /\ \A s \in Source, todo \in SUBSET Source :
                 [r EXCEPT !.todo = todo, !.src = s] \in Op
           /\ [r EXCEPT !.src = None] \in Op
           /\ \A old \in SUBSET Source : [r EXCEPT !.old = old] \in Op
           /\ \A v \in Version : [r EXCEPT !.seen = v] \in Op
           /\ \A n \in Nat, rows \in Rows : [r EXCEPT !.rev = n, !.rows = rows] \in Op
           /\ [r EXCEPT !.file = "tmp"] \in Op
BY DEF Op

\* The requests of users and of the scheduler.
LEMMA RequestType ==
    ASSUME TypeOK, NEW p \in Proc,
           \/ User(p) \/ \E batch \in SUBSET Source : StartBackground(p, batch)
    PROVE  TypeOK'
<1>1. op[p] \in Op /\ {"rescan", "targeted", "add", "recursive", "remove", "background"} \subseteq Kind
  BY DEF TypeOK, Kind
<1>2. CASE RequestRescan(p)
  <2>1. [op[p] EXCEPT !.kind = "rescan"] \in Op
    BY <1>1, Fields
  <2>2. ProcTypes'
    BY <1>2, <2>1, Parts DEF RequestRescan, ProcTypes, PC, locks
  <2>3. DataTypes' /\ FileTypes' /\ CounterTypes'
    BY <1>2, Parts, Bounds DEF RequestRescan, Requested, DataTypes, FileTypes, CounterTypes,
       db, files
  <2>4. QED
    BY <2>2, <2>3, PartsNext
<1>3. ASSUME NEW s \in Source, RequestTargeted(p, s)
      PROVE  TypeOK'
  <2>1. [op[p] EXCEPT !.kind = "targeted", !.todo = {s}] \in Op
    BY <1>1, Fields
  <2>2. ProcTypes'
    BY <1>3, <2>1, Parts DEF RequestTargeted, ProcTypes, PC, locks
  <2>3. DataTypes' /\ FileTypes' /\ CounterTypes'
    BY <1>3, Parts, Bounds DEF RequestTargeted, Requested, DataTypes, FileTypes,
       CounterTypes, db, files
  <2>4. QED
    BY <2>2, <2>3, PartsNext
<1>4. ASSUME NEW s \in Source, RequestAdd(p, s)
      PROVE  TypeOK'
  <2>1. [op[p] EXCEPT !.kind = "add", !.todo = {s}] \in Op
    BY <1>1, Fields
  <2>2. ProcTypes'
    BY <1>4, <2>1, Parts DEF RequestAdd, ProcTypes, PC, locks
  <2>3. DataTypes'
    BY <1>4, Parts, RowTypes DEF RequestAdd, DataTypes
  <2>4. FileTypes' /\ CounterTypes'
    BY <1>4, Parts, Bounds DEF RequestAdd, Requested, FileTypes, CounterTypes, files
  <2>5. QED
    BY <2>2, <2>3, <2>4, PartsNext
<1>8. ASSUME NEW s \in Source, SetRecursive(p, s)
      PROVE  TypeOK'
  <2>1. ASSUME NEW q \in Proc
        PROVE  op'[q] \in Op
    <3>1. op[q] \in Op /\ op[q].old \cup {s} \in SUBSET Source
      BY DEF TypeOK, Op
    <3>2. /\ [op[q] EXCEPT !.kind = "recursive", !.todo = {s}] \in Op
          /\ [op[q] EXCEPT !.old = op[q].old \cup {s}] \in Op
      BY <1>1, <3>1, Fields
    <3>3. QED
      BY <1>8, <3>1, <3>2 DEF SetRecursive
  <2>2. ProcTypes'
    BY <1>8, <2>1, Parts DEF SetRecursive, ProcTypes, PC, locks
  <2>3. DataTypes'
    <3>1. /\ disk[s] < MaxVersion /\ disk' = [disk EXCEPT ![s] = @ + 1]
          /\ missed' = [missed EXCEPT ![s] = TRUE] /\ revision' = revision + 1
          /\ UNCHANGED <<event, status, refresh, library>>
      BY <1>8 DEF SetRecursive
    <3>2. disk' \in [Source -> Version]
      BY <3>1, Parts, DiskGrows DEF DataTypes
    <3>3. missed' \in [Source -> BOOLEAN] /\ revision' \in Nat
      BY <3>1, Parts DEF DataTypes
    <3>4. /\ event' \in [Source -> BOOLEAN]
          /\ status' \in [Source -> {"new", "present", "removed"}]
          /\ refresh' \in [Source -> Refresh] /\ library' \in [Source -> Version]
      BY <1>8, Parts DEF SetRecursive, DataTypes
    <3>5. QED
      BY <3>2, <3>3, <3>4 DEF DataTypes
  <2>4. FileTypes' /\ CounterTypes'
    <3>1. /\ requests < MaxRequests /\ requests' = requests + 1
          /\ UNCHANGED <<expiries, faults>> /\ UNCHANGED <<marker, tmp, tsv>>
      BY <1>8 DEF SetRecursive, Requested, files
    <3>2. QED
      BY <3>1, Parts, Bounds DEF FileTypes, CounterTypes
  <2>5. QED
    BY <2>2, <2>3, <2>4, PartsNext
<1>5. ASSUME NEW s \in Source, RequestRemove(p, s)
      PROVE  TypeOK'
  <2>1. [op[p] EXCEPT !.kind = "remove", !.src = s] \in Op
    BY <1>1, Fields
  <2>2. ProcTypes'
    BY <1>5, <2>1, Parts DEF RequestRemove, ProcTypes, PC, locks
  <2>3. DataTypes' /\ FileTypes' /\ CounterTypes'
    BY <1>5, Parts, Bounds DEF RequestRemove, Requested, DataTypes, FileTypes, CounterTypes,
       db, files
  <2>4. QED
    BY <2>2, <2>3, PartsNext
<1>6. ASSUME NEW batch \in SUBSET Source, StartBackground(p, batch)
      PROVE  TypeOK'
  <2>1. [op[p] EXCEPT !.kind = "background", !.todo = batch] \in Op
    BY <1>1, Fields
  <2>2. ProcTypes'
    BY <1>6, <2>1, Parts DEF StartBackground, ProcTypes, PC, locks
  <2>3. DataTypes' /\ FileTypes' /\ CounterTypes'
    BY <1>6, Parts DEF StartBackground, DataTypes, FileTypes, CounterTypes, db, files,
       counters
  <2>4. QED
    BY <2>2, <2>3, PartsNext
<1>7. QED
  BY <1>2, <1>3, <1>4, <1>5, <1>6, <1>8 DEF User

\* The steps that change only where a process is and what it knows.
LEMMA StepType ==
    ASSUME TypeOK, LockInv, NEW p \in Proc,
           \/ AcquireRescan(p) \/ RescanBusy(p) \/ EstablishMarker(p) \/ SelectionFails(p)
           \/ NextSource(p) \/ AllDone(p) \/ AcquireSource(p) \/ SourceBusy(p) \/ Recheck(p)
           \/ ScanComplete(p) \/ Snapshot(p) \/ CreateTmp(p)
    PROVE  TypeOK'
<1>1. op[p] \in Op
  BY DEF TypeOK
<1>2. DataTypes' /\ CounterTypes'
  BY Parts DEF AcquireRescan, RescanBusy, EstablishMarker, SelectionFails, NextSource,
     AllDone, AcquireSource, SourceBusy, Recheck, ScanComplete, Snapshot, CreateTmp,
     DataTypes, CounterTypes, db, counters
<1>3. FileTypes'
  <2>1. CASE EstablishMarker(p)
    BY <2>1, Parts DEF EstablishMarker, FileTypes
  <2>2. CASE CreateTmp(p)
    BY <2>2, Parts DEF CreateTmp, FileTypes, Rows
  <2>3. CASE ~EstablishMarker(p) /\ ~CreateTmp(p)
    BY <2>3, Parts DEF AcquireRescan, RescanBusy, SelectionFails, NextSource, AllDone,
       AcquireSource, SourceBusy, Recheck, ScanComplete, Snapshot, FileTypes, files
  <2>4. QED
    BY <2>1, <2>2, <2>3
<1>4. ProcTypes'
  <2>1. CASE AcquireRescan(p) \/ AllDone(p)
    BY <2>1, Parts DEF AcquireRescan, AllDone, ProcTypes, PC, locks
  <2>2. CASE RescanBusy(p) \/ SelectionFails(p)
    BY <2>2, EndType DEF RescanBusy, SelectionFails, ProcTypes
  <2>3. CASE EstablishMarker(p)
    <3>1. Present \in SUBSET Source /\ op[p].todo \in SUBSET Source
      BY <1>1 DEF Present, Op
    <3>2. [op[p] EXCEPT !.todo = Present] \in Op /\ [op[p] EXCEPT !.todo = op[p].todo] \in Op
      BY <1>1, <3>1, Fields
    <3>3. op' \in [Proc -> Op]
      BY <2>3, <3>2, Parts DEF EstablishMarker, ProcTypes
    <3>4. QED
      BY <2>3, <3>3, Parts DEF EstablishMarker, ProcTypes, PC, locks
  <2>4. CASE NextSource(p)
    <3>1. PICK s \in op[p].todo :
             IF op[p].kind = "background" /\ status[s] # "present"
             THEN End(p)
             ELSE /\ IF op[p].kind = "background" /\ ~Due(s)
                     THEN op' = [op EXCEPT ![p].todo = @ \ {s}] /\ UNCHANGED pc
                     ELSE /\ op' = [op EXCEPT ![p].todo = @ \ {s}, ![p].src = s]
                          /\ pc' = [pc EXCEPT ![p] = "lock"]
                  /\ UNCHANGED locks
      BY <2>4 DEF NextSource
    <3>2. s \in Source /\ op[p].todo \ {s} \in SUBSET Source
      BY <1>1 DEF Op
    <3>3. /\ [op[p] EXCEPT !.todo = op[p].todo \ {s}] \in Op
          /\ [op[p] EXCEPT !.todo = op[p].todo \ {s}, !.src = s] \in Op
      BY <1>1, <3>2, Fields
    <3>4. CASE End(p)
      BY <3>4, EndType DEF ProcTypes
    <3>5. CASE ~End(p)
      BY <3>1, <3>3, <3>5, Parts DEF ProcTypes, PC, locks
    <3>6. QED
      BY <3>4, <3>5
  <2>5. CASE AcquireSource(p)
    BY <2>5, Parts DEF AcquireSource, ProcTypes, PC
  <2>6. CASE SourceBusy(p)
    <3>1. [op[p] EXCEPT !.src = None] \in Op
      BY <1>1, Fields
    <3>2. CASE End(p)
      BY <3>2, EndType DEF ProcTypes
    <3>3. CASE ~End(p)
      BY <2>6, <3>1, <3>3, Parts DEF SourceBusy, ProcTypes, PC, locks
    <3>4. QED
      BY <3>2, <3>3
  <2>7. CASE Recheck(p)
    <3>1. \/ End(p) \/ Leave(p)
          \/ pc' = [pc EXCEPT ![p] = "begin"] /\ UNCHANGED <<locks, op>>
      BY <2>7 DEF Recheck
    <3>2. CASE pc' = [pc EXCEPT ![p] = "begin"] /\ UNCHANGED <<locks, op>>
      BY <3>2, Parts DEF ProcTypes, PC, locks
    <3>3. QED
      BY <3>1, <3>2, EndType, LeaveType DEF ProcTypes
  <2>8. CASE ScanComplete(p)
    <3>1. disk[op[p].src] \in Version
      <4>1. pc[p] = "scan"
        BY <2>8 DEF ScanComplete
      <4>2. op[p].src \in Source
        BY <4>1 DEF LockInv, Locked, Attempting
      <4>3. disk \in [Source -> Version]
        BY DEF TypeOK
      <4>4. QED
        BY <4>2, <4>3
    <3>2. [op[p] EXCEPT !.seen = disk[op[p].src]] \in Op
      BY <1>1, <3>1, Fields
    <3>3. QED
      BY <2>8, <3>2, Parts DEF ScanComplete, ProcTypes, PC, locks
  <2>9. CASE Snapshot(p)
    <3>1. revision \in Nat /\ library \in Rows
      BY DEF TypeOK, Rows
    <3>2. [op[p] EXCEPT !.rev = revision, !.rows = library] \in Op
      BY <1>1, <3>1, Fields
    <3>3. QED
      BY <2>9, <3>2, Parts DEF Snapshot, ProcTypes, PC, locks
  <2>10. CASE CreateTmp(p)
    <3>1. [op[p] EXCEPT !.file = "tmp"] \in Op
      BY <1>1, Fields
    <3>2. QED
      BY <2>10, <3>1, Parts DEF CreateTmp, ProcTypes, PC, locks
  <2>11. QED
    BY <2>1, <2>2, <2>3, <2>4, <2>5, <2>6, <2>7, <2>8, <2>9, <2>10
<1>5. QED
  BY <1>2, <1>3, <1>4, PartsNext

\* The source at hand of a process that works on one.
LEMMA AtHand ==
    ASSUME LockInv, NEW p \in Proc, Locked(p)
    PROVE  op[p].src \in Source
BY DEF LockInv

\* The rows of the source at hand in SQLite.
LEMMA AttemptType ==
    ASSUME TypeOK, LockInv, NEW p \in Proc,
           \/ BeginAttempt(p) \/ ScanFails(p) \/ RecordFailure(p) \/ Cancelled(p)
           \/ CheckConfig(p) \/ Reconcile(p) \/ RecordSuccess(p) \/ Remove(p)
    PROVE  TypeOK'
<1> DEFINE s == op[p].src
<1>1. s \in Source /\ op[p] \in Op
  <2>1. Locked(p)
    BY DEF Locked, Attempting, BeginAttempt, ScanFails, RecordFailure, Cancelled,
       CheckConfig, Reconcile, RecordSuccess, Remove
  <2>2. QED
    BY <2>1, AtHand DEF TypeOK
<1>2. FileTypes'
  BY Parts DEF BeginAttempt, ScanFails, RecordFailure, Cancelled, CheckConfig, Reconcile,
     RecordSuccess, Remove, FileTypes, files
<1>3. CounterTypes'
  <2>1. /\ UNCHANGED <<requests, expiries>>
        /\ \/ faults' = faults
           \/ faults < MaxFaults /\ faults' = faults + 1
    BY DEF BeginAttempt, ScanFails, RecordFailure, Cancelled, CheckConfig, Reconcile,
       RecordSuccess, Remove, counters
  <2>2. QED
    BY <2>1, Parts, Bounds DEF CounterTypes
<1>4. ProcTypes'
  <2>1. CASE End(p)
    BY <2>1, EndType DEF ProcTypes
  <2>2. CASE Leave(p)
    BY <2>2, LeaveType DEF ProcTypes
  <2>3. CASE ~End(p) /\ ~Leave(p)
    <3>1. /\ UNCHANGED <<scan_lock, rescan_lock, op>>
          /\ \E to \in PC : pc' = [pc EXCEPT ![p] = to]
      BY <2>3 DEF BeginAttempt, ScanFails, RecordFailure, Cancelled, CheckConfig, Reconcile,
         RecordSuccess, Remove, locks, PC
    <3>2. QED
      BY <3>1, Parts DEF ProcTypes
  <2>4. QED
    BY <2>1, <2>2, <2>3
<1>5. DataTypes'
  <2>1. disk' = disk /\ event' = event
    BY DEF BeginAttempt, ScanFails, RecordFailure, Cancelled, CheckConfig, Reconcile,
       RecordSuccess, Remove
  <2>2. refresh' \in [Source -> Refresh]
    <3>1. refresh[s] \in Refresh
      BY <1>1 DEF TypeOK
    <3>2. /\ \A b \in BOOLEAN : [refresh[s] EXCEPT !.dirty = b] \in Refresh
          /\ \A b, c \in BOOLEAN : /\ [refresh[s] EXCEPT !.dirty = b, !.backoff = c] \in Refresh
                                  /\ [refresh[s] EXCEPT !.fresh = b, !.backoff = c] \in Refresh
          /\ \A a \in {"available", "offline", "unknown"} :
                [refresh[s] EXCEPT !.avail = a] \in Refresh
      BY <3>1 DEF Refresh
    <3>3. \/ refresh' = refresh
          \/ \E r \in Refresh : refresh' = [refresh EXCEPT ![s] = r]
      <4>1. CASE BeginAttempt(p)
        BY <4>1, <3>2 DEF BeginAttempt
      <4>2. CASE ScanFails(p)
        BY <4>2, <3>2 DEF ScanFails
      <4>3. CASE RecordFailure(p)
        BY <4>3, <3>2 DEF RecordFailure
      <4>4. CASE Cancelled(p)
        BY <4>4, <3>2 DEF Cancelled
      <4>5. CASE CheckConfig(p) \/ Reconcile(p)
        BY <4>5, <3>2 DEF CheckConfig, Reconcile, db
      <4>6. CASE RecordSuccess(p)
        BY <4>6, <3>2 DEF RecordSuccess
      <4>7. CASE Remove(p)
        BY <4>7, RowTypes DEF Remove, db
      <4>8. QED
        BY <4>1, <4>2, <4>3, <4>4, <4>5, <4>6, <4>7
    <3>4. QED
      BY <3>3, Parts DEF DataTypes
  <2>3. status' \in [Source -> {"new", "present", "removed"}]
    <3>1. status' = status \/ status' = [status EXCEPT ![s] = "removed"]
      BY DEF BeginAttempt, ScanFails, RecordFailure, Cancelled, CheckConfig, Reconcile,
         RecordSuccess, Remove, db
    <3>2. QED
      BY <3>1, Parts DEF DataTypes
  <2>4. library' \in [Source -> Version]
    <3>1. op[p].seen \in Version /\ 0 \in Version
      BY <1>1, Bounds DEF Op, Version
    <3>2. \/ library' = library
          \/ \E v \in Version : library' = [library EXCEPT ![s] = v]
      BY <3>1 DEF BeginAttempt, ScanFails, RecordFailure, Cancelled, CheckConfig, Reconcile,
         RecordSuccess, Remove, db
    <3>3. QED
      BY <3>2, Parts DEF DataTypes
  <2>5. revision' \in Nat
    <3>1. revision' \in {revision, revision + 1}
      BY DEF BeginAttempt, ScanFails, RecordFailure, Cancelled, CheckConfig, Reconcile,
         RecordSuccess, Remove, db
    <3>2. revision \in Nat
      BY Parts DEF DataTypes
    <3>3. QED
      BY <3>1, <3>2
  <2>6. missed' \in [Source -> BOOLEAN]
    BY Parts DEF BeginAttempt, ScanFails, RecordFailure, Cancelled, CheckConfig, Reconcile,
       RecordSuccess, Remove, DataTypes, db, BrokenOff, Interrupted
  <2>7. QED
    BY <2>1, <2>2, <2>3, <2>4, <2>5, <2>6, Parts DEF DataTypes
<1>6. QED
  BY <1>2, <1>3, <1>4, <1>5, PartsNext

\* The export of library.tsv.
LEMMA ExportType ==
    ASSUME TypeOK, NEW p \in Proc,
           WriteTmp(p) \/ Publish(p) \/ PublishRefused(p) \/ ExportFails(p)
    PROVE  TypeOK'
<1>1. op[p].rows \in Rows /\ Partial \in Rows /\ NoOp \in Op
  BY Bounds DEF TypeOK, Op, NoOp, Rows, Version
<1>2. DataTypes' /\ CounterTypes'
  BY Parts, Bounds DEF WriteTmp, Publish, PublishRefused, ExportFails, Degrade, DataTypes,
     CounterTypes, db, counters
<1>3. CASE WriteTmp(p)
  <2>1. \A old : Written(old, op[p].rows) \subseteq Rows
    BY <1>1 DEF Written
  <2>2. FileTypes'
    BY <1>3, <2>1, Parts DEF WriteTmp, FileTypes
  <2>3. ProcTypes'
    BY <1>3, Parts DEF WriteTmp, ProcTypes, PC, locks
  <2>4. QED
    BY <1>2, <2>2, <2>3, PartsNext
<1>4. CASE ~WriteTmp(p)
  <2>1. FileTypes'
    BY <1>4, Parts DEF Publish, PublishRefused, ExportFails, Degrade, FileTypes
  <2>2. \E place \in {"tsv", "gone"} : op' = [Moved(place) EXCEPT ![p] = NoOp]
    BY <1>4 DEF Publish, PublishRefused, ExportFails, Degrade
  <2>3. op' \in [Proc -> Op]
    BY <1>1, <2>2, MovedType
  <2>4. ProcTypes'
    BY <1>4, <2>3, Parts DEF Publish, PublishRefused, ExportFails, Degrade, Release, Holds,
       ProcTypes, PC
  <2>5. QED
    BY <1>2, <2>1, <2>4, PartsNext
<1>5. QED
  BY <1>3, <1>4

\* Errors that leave the operation, and crashes.
LEMMA FaultType ==
    ASSUME TypeOK,
           (\E p \in Proc : StorageError(p)) \/ (\E ps \in SUBSET Proc : Crash(ps))
    PROVE  TypeOK'
<1>1. FileTypes'
  BY Parts DEF StorageError, Crash, FileTypes, files
<1>2. CounterTypes'
  <2>1. faults < MaxFaults /\ faults' = faults + 1 /\ UNCHANGED <<requests, expiries>>
    BY DEF StorageError, Crash
  <2>2. QED
    BY <2>1, Parts, Bounds DEF CounterTypes
<1>3. DataTypes'
  <2>1. UNCHANGED <<disk, status, refresh, library, revision>>
    BY DEF StorageError, Crash, db
  <2>2. event' \in [Source -> BOOLEAN]
    <3>1. event' = event \/ event' = [s \in Source |-> FALSE]
      BY Zenon DEF StorageError, Crash
    <3>2. event \in [Source -> BOOLEAN]
      BY DEF TypeOK
    <3>3. QED
      BY <3>1, <3>2
  <2>3. missed' \in [Source -> BOOLEAN]
    <3>1. missed \in [Source -> BOOLEAN] /\ event \in [Source -> BOOLEAN]
      BY DEF TypeOK
    <3>2. \A ps : BrokenOff(ps) \in [Source -> BOOLEAN]
      BY <3>1, Zenon DEF BrokenOff
    <3>3. \/ \E ps : missed' = BrokenOff(ps)
          \/ \E ps : missed' = [s \in Source |-> BrokenOff(ps)[s] \/ event[s]]
      BY Zenon DEF StorageError, Crash
    <3>4. QED
      BY <3>1, <3>2, <3>3
  <2>4. QED
    BY <2>1, <2>2, <2>3, Parts DEF DataTypes
<1>4. ProcTypes'
  <2>1. ASSUME NEW p \in Proc, StorageError(p)
        PROVE  ProcTypes'
    BY <2>1, EndType DEF StorageError, ProcTypes
  <2>2. ASSUME NEW ps \in SUBSET Proc, Crash(ps)
        PROVE  ProcTypes'
    <3>1. NoOp \in Op
      BY Bounds DEF NoOp, Op, Rows, Version
    <3>2. QED
      BY <2>2, <3>1, Parts DEF Crash, ProcTypes, PC
  <2>3. QED
    BY <2>1, <2>2
<1>5. QED
  BY <1>1, <1>2, <1>3, <1>4, PartsNext

\* Every step keeps the types while the locks are as LockInv says.
LEMMA NextType == TypeOK /\ LockInv /\ [Next]_vars => TypeOK'
<1> SUFFICES ASSUME TypeOK, LockInv, [Next]_vars PROVE TypeOK'
  OBVIOUS
<1>1. CASE UNCHANGED vars
  BY <1>1 DEF vars, db, files, locks, counters, TypeOK
<1>2. CASE \E s \in Source : World(s)
  BY <1>2, WorldType
<1>3. ASSUME NEW p \in Proc, User(p) \/ \E batch \in SUBSET Source : StartBackground(p, batch)
      PROVE  TypeOK'
  BY <1>3, RequestType
<1>4. ASSUME NEW p \in Proc, Step(p)
      PROVE  TypeOK'
  BY <1>4, StepType, AttemptType, ExportType DEF Step
<1>5. CASE Fault
  BY <1>5, AttemptType, ExportType, FaultType, Bounds DEF Fault
<1>6. QED
  BY <1>1, <1>2, <1>3, <1>4, <1>5 DEF Next

-----------------------------------------------------------------------------
(* The scan lock.                                                          *)

\* What process p may do, on behalf of a user, on its own, or failing.
Moves(p) ==
    \/ User(p) \/ Step(p) \/ \E batch \in SUBSET Source : StartBackground(p, batch)
    \/ ScanFails(p) \/ Cancelled(p) \/ ExportFails(p) \/ StorageError(p)

\* What a move of p leaves of the others: their place, their operation and their locks.
Others(p) ==
    /\ \A q \in Proc \ {p} : /\ pc'[q] = pc[q] /\ op'[q].src = op[q].src
                             /\ op'[q].kind = op[q].kind /\ op'[q].seen = op[q].seen
    /\ \A s \in Source : scan_lock[s] \notin {p, None} => scan_lock'[s] = scan_lock[s]

\* The lock that an iteration over a source drops is its own.
LEMMA LeaveOthers ==
    ASSUME TypeOK, LockInv, NEW p \in Proc, Locked(p), Leave(p)
    PROVE  Others(p)
BY DEF LockInv, Leave, Others, TypeOK

\* Nor does the end of an operation touch the others.
LEMMA EndOthers ==
    ASSUME TypeOK, NEW p \in Proc, End(p)
    PROVE  Others(p)
BY DEF End, Release, Holds, Others, TypeOK

\* A rename or a removal of the temporary file changes where files are, no more.
LEMMA MovedOthers ==
    ASSUME TypeOK, NEW place, NEW q \in Proc
    PROVE  /\ Moved(place)[q].src = op[q].src /\ Moved(place)[q].kind = op[q].kind
           /\ Moved(place)[q].seen = op[q].seen
BY DEF Moved, TypeOK, Op

\* The end of an export.
LEMMA ExportOthers ==
    ASSUME TypeOK, NEW p \in Proc, Publish(p) \/ PublishRefused(p) \/ ExportFails(p)
    PROVE  Others(p)
<1>1. /\ pc' = [pc EXCEPT ![p] = "idle"] /\ Release(p)
      /\ \E place \in {"tsv", "gone"} : op' = [Moved(place) EXCEPT ![p] = NoOp]
  BY DEF Publish, PublishRefused, ExportFails, Degrade
<1>2. ASSUME NEW q \in Proc \ {p}
      PROVE  /\ op'[q].src = op[q].src /\ op'[q].kind = op[q].kind
             /\ op'[q].seen = op[q].seen
  <2>1. PICK place \in {"tsv", "gone"} : op' = [Moved(place) EXCEPT ![p] = NoOp]
    BY <1>1
  <2>2. Moved(place) \in [Proc -> Op]
    BY MovedType
  <2>3. op'[q] = Moved(place)[q]
    BY <2>1, <2>2
  <2>4. QED
    BY <2>3, MovedOthers
<1>3. QED
  BY <1>1, <1>2 DEF Others, Release, Holds, TypeOK

\* A request.
LEMMA UserOthers ==
    ASSUME TypeOK, NEW p \in Proc,
           User(p) \/ \E batch \in SUBSET Source : StartBackground(p, batch)
    PROVE  Others(p)
<1>1. UNCHANGED scan_lock
  BY DEF User, RequestRescan, RequestTargeted, RequestAdd, SetRecursive, RequestRemove,
     StartBackground, locks
<1>2. ASSUME NEW q \in Proc \ {p}
      PROVE  /\ pc'[q] = pc[q] /\ op'[q].src = op[q].src
             /\ op'[q].kind = op[q].kind /\ op'[q].seen = op[q].seen
  <2>1. ASSUME NEW s \in Source, SetRecursive(p, s)
        PROVE  /\ pc'[q] = pc[q] /\ op'[q].src = op[q].src
               /\ op'[q].kind = op[q].kind /\ op'[q].seen = op[q].seen
    <3>1. pc'[q] = pc[q] /\ op[q] \in Op
      BY <2>1 DEF SetRecursive, TypeOK
    <3>2. op'[q] = op[q] \/ op'[q] = [op[q] EXCEPT !.old = op[q].old \cup {s}]
      BY <2>1 DEF SetRecursive
    <3>3. QED
      BY <3>1, <3>2 DEF Op
  <2>2. CASE ~\E s \in Source : SetRecursive(p, s)
    BY <2>2 DEF User, RequestRescan, RequestTargeted, RequestAdd, RequestRemove,
       StartBackground, TypeOK
  <2>3. QED
    BY <2>1, <2>2
<1>3. QED
  BY <1>1, <1>2 DEF Others

\* No move of a process touches the place, the operation or the locks of another one.
LEMMA MovesKeepOthers ==
    ASSUME TypeOK, LockInv, NEW p \in Proc, Moves(p)
    PROVE  Others(p)
<1>1. CASE User(p) \/ \E batch \in SUBSET Source : StartBackground(p, batch)
  BY <1>1, UserOthers
<1>2. CASE Publish(p) \/ PublishRefused(p) \/ ExportFails(p)
  BY <1>2, ExportOthers
<1>3. CASE End(p)
  BY <1>3, EndOthers
<1>4. CASE AcquireSource(p)
  BY <1>4 DEF AcquireSource, Others, TypeOK
<1>5. CASE Recheck(p) \/ RecordSuccess(p) \/ RecordFailure(p)
  <2>1. Locked(p)
    BY <1>5 DEF Recheck, RecordSuccess, RecordFailure, Locked, Attempting
  <2>2. CASE Leave(p)
    BY <2>1, <2>2, LeaveOthers
  <2>3. CASE ~Leave(p) /\ ~End(p)
    BY <1>5, <2>3 DEF Recheck, RecordSuccess, RecordFailure, Others, locks, TypeOK
  <2>4. QED
    BY <2>2, <2>3, EndOthers
<1>6. CASE \/ AcquireRescan(p) \/ RescanBusy(p) \/ EstablishMarker(p) \/ SelectionFails(p)
           \/ AllDone(p) \/ SourceBusy(p) \/ BeginAttempt(p)
  BY <1>6, EndOthers DEF AcquireRescan, RescanBusy, EstablishMarker, SelectionFails,
     AllDone, SourceBusy, BeginAttempt, Others, locks, TypeOK
<1>7. CASE NextSource(p)
  BY <1>7, EndOthers DEF NextSource, Others, locks, TypeOK
<1>8. CASE \/ ScanComplete(p) \/ CheckConfig(p) \/ Reconcile(p) \/ Remove(p)
           \/ Snapshot(p) \/ CreateTmp(p) \/ WriteTmp(p) \/ ScanFails(p)
           \/ Cancelled(p) \/ StorageError(p)
  BY <1>8, EndOthers DEF ScanComplete, CheckConfig, Reconcile, Remove, Snapshot, CreateTmp,
     WriteTmp, ScanFails, Cancelled, StorageError, Others, locks, TypeOK
<1>9. QED
  BY <1>1, <1>2, <1>4, <1>5, <1>6, <1>7, <1>8 DEF Moves, Step

\* LockInv for one process.
LockedOwn(p) ==
    /\ Locked(p) => op[p].src \in Source /\ scan_lock[op[p].src] = p
    /\ pc[p] = "lock" => op[p].src \in Source
    /\ pc[p] = "rescan_lock" => op[p].kind = "rescan"

\* Others keep theirs.
LEMMA OthersLocked ==
    ASSUME TypeOK, LockInv, NEW p \in Proc, Others(p), NEW q \in Proc \ {p}
    PROVE  LockedOwn(q)'
<1>1. /\ pc'[q] = pc[q] /\ op'[q].src = op[q].src /\ op'[q].kind = op[q].kind
  BY DEF Others
<1>2. Locked(q)' = Locked(q)
  BY <1>1 DEF Locked, Attempting
<1>3. Locked(q) => scan_lock'[op[q].src] = q
  BY Bounds DEF LockInv, Others
<1>4. QED
  BY <1>1, <1>2, <1>3 DEF LockInv, LockedOwn

\* A process that is done with its operation holds nothing.
LEMMA IdleLocked ==
    ASSUME NEW p \in Proc, pc'[p] \in {"idle", "next", "snapshot", "create", "write", "publish"}
    PROVE  LockedOwn(p)'
BY DEF LockedOwn, Locked, Attempting

\* So does a process that moves.
LEMMA MovesLocked ==
    ASSUME TypeOK, LockInv, NEW p \in Proc, Moves(p)
    PROVE  LockedOwn(p)'
<1>1. pc \in [Proc -> PC] /\ op \in [Proc -> Op] /\ op[p] \in Op
  BY DEF TypeOK, PC
<1>2. CASE End(p) \/ Leave(p)
  BY <1>1, <1>2, IdleLocked DEF End, Leave
<1>3. CASE User(p) \/ \E batch \in SUBSET Source : StartBackground(p, batch)
  <2>1. CASE \E s \in Source : SetRecursive(p, s)
    <3>1. PICK s \in Source : SetRecursive(p, s)
      BY <2>1
    <3>2. /\ pc' = [pc EXCEPT ![p] = "marker"]
          /\ op'[p] = [op[p] EXCEPT !.kind = "recursive", !.todo = {s}]
      BY <3>1 DEF SetRecursive
    <3>3. pc'[p] = "marker" /\ op'[p].kind = "recursive"
      BY <1>1, <3>2 DEF Op
    <3>4. QED
      BY <3>3 DEF LockedOwn, Locked, Attempting
  <2>2. CASE \E s \in Source : RequestRemove(p, s)
    <3>1. pc'[p] = "lock" /\ op'[p].src \in Source
      BY <1>1, <2>2 DEF RequestRemove, Op
    <3>2. QED
      BY <3>1 DEF LockedOwn, Locked, Attempting
  <2>3. CASE RequestRescan(p)
    <3>1. pc'[p] = "rescan_lock" /\ op'[p].kind = "rescan"
      BY <1>1, <2>3 DEF RequestRescan, Op
    <3>2. QED
      BY <3>1 DEF LockedOwn, Locked, Attempting
  <2>4. CASE \/ \E s \in Source : RequestTargeted(p, s) \/ RequestAdd(p, s)
             \/ \E batch \in SUBSET Source : StartBackground(p, batch)
    <3>1. pc'[p] = "marker" /\ op'[p].kind \in {"targeted", "add", "background"}
      BY <1>1, <2>4 DEF RequestTargeted, RequestAdd, StartBackground, Op
    <3>2. QED
      BY <3>1 DEF LockedOwn, Locked, Attempting
  <2>5. QED
    BY <1>3, <2>1, <2>2, <2>3, <2>4 DEF User
<1>4. CASE AcquireSource(p)
  <2>1. op[p].src \in Source /\ op' = op /\ scan_lock'[op[p].src] = p
    BY <1>4 DEF AcquireSource, LockInv, TypeOK
  <2>2. pc'[p] \in {"recheck", "marker", "begin"}
    BY <1>1, <1>4 DEF AcquireSource
  <2>3. QED
    BY <2>1, <2>2 DEF LockedOwn
<1>5. CASE AcquireRescan(p)
  <2>1. pc'[p] = "marker" /\ op'[p].kind = "rescan"
    BY <1>1, <1>5 DEF AcquireRescan, LockInv
  <2>2. QED
    BY <2>1 DEF LockedOwn, Locked, Attempting
<1>6. CASE EstablishMarker(p)
  <2>1. CASE op[p].kind = "remove"
    <3>1. Locked(p) /\ op' = op /\ scan_lock' = scan_lock /\ pc'[p] = "remove"
      BY <1>1, <1>6, <2>1 DEF EstablishMarker, Locked, locks
    <3>2. QED
      BY <3>1 DEF LockInv, LockedOwn
  <2>2. CASE op[p].kind # "remove"
    BY <1>1, <1>6, <2>2, IdleLocked DEF EstablishMarker
  <2>3. QED
    BY <2>1, <2>2
<1>7. CASE NextSource(p)
  <2>1. op[p].todo \subseteq Source
    BY <1>1 DEF Op
  <2>2. End(p) \/ pc'[p] = "next" \/ (pc'[p] = "lock" /\ op'[p].src \in Source)
    <3>1. CASE pc' = pc
      BY <1>7, <3>1 DEF NextSource
    <3>2. CASE ~End(p) /\ pc' # pc
      <4>1. PICK s \in op[p].todo : /\ op' = [op EXCEPT ![p].todo = @ \ {s}, ![p].src = s]
                                    /\ pc' = [pc EXCEPT ![p] = "lock"]
        BY <1>7, <3>2 DEF NextSource
      <4>2. QED
        BY <1>1, <2>1, <4>1 DEF Op
    <3>3. QED
      BY <3>1, <3>2
  <2>3. QED
    BY <1>2, <2>2, IdleLocked DEF LockedOwn, Locked, Attempting
<1>8. CASE \/ AllDone(p) \/ SourceBusy(p) \/ Snapshot(p) \/ CreateTmp(p) \/ WriteTmp(p)
           \/ Publish(p) \/ PublishRefused(p) \/ ExportFails(p) \/ Remove(p)
  <2>1. End(p) \/ pc'[p] \in {"next", "snapshot", "create", "write", "publish", "idle"}
    BY <1>1, <1>8 DEF AllDone, SourceBusy, Snapshot, CreateTmp, WriteTmp, Publish,
       PublishRefused, ExportFails, Degrade, Remove
  <2>2. QED
    BY <1>2, <2>1, IdleLocked
<1>9. CASE \/ Recheck(p) \/ BeginAttempt(p) \/ ScanComplete(p) \/ ScanFails(p)
           \/ CheckConfig(p) \/ Reconcile(p)
  <2>1. Locked(p) /\ op[p].src \in Source /\ scan_lock[op[p].src] = p
    BY <1>9 DEF Recheck, BeginAttempt, ScanComplete, CheckConfig, Reconcile, ScanFails,
       Locked, Attempting, LockInv
  <2>2. CASE ~End(p) /\ ~Leave(p)
    <3>1. scan_lock' = scan_lock /\ op'[p].src = op[p].src
      BY <1>1, <1>9, <2>2 DEF Recheck, BeginAttempt, ScanComplete, CheckConfig, Reconcile,
         ScanFails, locks, Op
    <3>2. pc'[p] \in {"begin", "scan", "check", "reconcile", "succeed", "fail"}
      BY <1>1, <1>9, <2>2 DEF Recheck, BeginAttempt, ScanComplete, CheckConfig, Reconcile,
         ScanFails
    <3>3. QED
      BY <2>1, <3>1, <3>2 DEF LockedOwn
  <2>3. QED
    BY <1>2, <2>2
<1>10. CASE \/ RescanBusy(p) \/ SelectionFails(p) \/ RecordSuccess(p) \/ RecordFailure(p)
            \/ Cancelled(p) \/ StorageError(p)
  BY <1>2, <1>10 DEF RescanBusy, SelectionFails, RecordSuccess, RecordFailure, Cancelled,
     StorageError
<1>11. QED
  BY <1>3, <1>4, <1>5, <1>6, <1>7, <1>8, <1>9, <1>10 DEF Moves, Step

\* Crashes release what the processes that die hold, and nothing else.
LEMMA CrashLocked ==
    ASSUME TypeOK, LockInv, NEW ps \in SUBSET Proc, Crash(ps)
    PROVE  LockInv'
<1> SUFFICES ASSUME NEW q \in Proc PROVE LockedOwn(q)'
  BY DEF LockInv, LockedOwn
<1>1. CASE q \in ps
  BY <1>1, IdleLocked DEF Crash
<1>2. CASE q \notin ps
  <2>1. pc'[q] = pc[q] /\ op'[q] = op[q]
    BY <1>2 DEF Crash
  <2>2. Locked(q)' = Locked(q)
    BY <2>1 DEF Locked, Attempting
  <2>3. \A s \in Source : scan_lock[s] = q => scan_lock'[s] = q
    BY <1>2 DEF Crash
  <2>4. QED
    BY <2>1, <2>2, <2>3 DEF LockInv, LockedOwn
<1>3. QED
  BY <1>1, <1>2

\* Nothing is locked at the start.
LEMMA InitLock == Init => LockInv
BY DEF Init, LockInv, Locked, Attempting

\* Every step is one of the world, a move of a process, or a crash.
LEMMA Steps ==
    ASSUME [Next]_vars
    PROVE  \/ UNCHANGED vars
           \/ \E s \in Source : World(s)
           \/ \E p \in Proc : Moves(p)
           \/ \E ps \in SUBSET Proc : Crash(ps)
BY Bounds DEF Next, Fault, Moves

\* LockInv is inductive under the types.
LEMMA LockStep == TypeOK /\ LockInv /\ [Next]_vars => LockInv'
<1> SUFFICES ASSUME TypeOK, LockInv, [Next]_vars PROVE LockInv'
  OBVIOUS
<1>1. CASE UNCHANGED vars \/ \E s \in Source : World(s)
  <2>1. UNCHANGED <<scan_lock, pc, op>>
    BY <1>1 DEF vars, locks, World, Change, MarkDirty, MarkLost, GrowStale, RetryTime
  <2>2. QED
    BY <2>1 DEF LockInv, Locked, Attempting
<1>2. ASSUME NEW p \in Proc, Moves(p)
      PROVE  LockInv'
  BY <1>2, MovesLocked, MovesKeepOthers, OthersLocked DEF LockInv, LockedOwn
<1>3. QED
  BY <1>1, <1>2, Steps, CrashLocked

\* Types and locks in every reachable state.
LEMMA TypesAndLocks == Spec => [](TypeOK /\ LockInv)
<1>1. Init => TypeOK /\ LockInv
  BY InitType, InitLock
<1>2. TypeOK /\ LockInv /\ [Next]_vars => TypeOK' /\ LockInv'
  BY NextType, LockStep
<1>3. QED
  BY <1>1, <1>2, PTL DEF Spec

\* Type correctness of every reachable state.
THEOREM TypeCorrect == Spec => []TypeOK
BY TypesAndLocks, PTL

\* Two processes never attempt the same source: the scan lock excludes rounds of the
\* GUI and of the command line, and removals, whatever fails in between.
THEOREM ScansExclude == Spec => []ScanExclusive
<1>1. TypeOK /\ LockInv => ScanExclusive
  BY DEF LockInv, Locked, ScanExclusive, Attempting
<1>2. QED
  BY <1>1, TypesAndLocks, PTL

-----------------------------------------------------------------------------
(* No change is forgotten.                                                 *)

\* Something in the system says that the library may be behind.
Signal(s) == event[s] \/ refresh[s].dirty \/ missed[s]

\* A running attempt that is still to deal with what is on disk.
Pending(p, s) ==
    /\ op[p].src = s
    /\ \/ pc[p] \in {"scan", "fail"}
       \/ pc[p] \in {"check", "reconcile"} /\ op[p].seen = disk[s]

\* ChangeCovered for one source, and what a scan or a written snapshot that is behind
\* the disk leaves behind: without the last conjunct a success could hide it.
CoverOf(s) ==
    s \in Present =>
        /\ library[s] # disk[s] =>
              Signal(s) \/ ~refresh[s].fresh \/ \E p \in Proc : Pending(p, s)
        /\ \A p \in Proc : op[p].src = s =>
              /\ pc[p] \in {"check", "reconcile"} => op[p].seen = disk[s] \/ Signal(s)
              /\ pc[p] = "succeed" => library[s] = disk[s] \/ Signal(s)

CoverInv == \A s \in Source : CoverOf(s)

\* CoverInv is stronger than the property.
LEMMA CoverImplies == CoverInv => ChangeCovered
BY DEF CoverInv, CoverOf, ChangeCovered, Signal, Pending, Present

\* A step that leaves the source alone, or raises a signal, keeps it covered.
LEMMA CoverKept ==
    ASSUME NEW s \in Source, CoverOf(s),
           \/ Signal(s)'
           \/ /\ s \in Present' => s \in Present
              /\ disk'[s] = disk[s] /\ library'[s] = library[s]
              /\ Signal(s) => Signal(s)'
              /\ refresh'[s].fresh => refresh[s].fresh
              /\ \A p \in Proc : Interrupted(p) /\ op[p].src = s =>
                    pc'[p] = pc[p] /\ op'[p].src = s /\ op'[p].seen = op[p].seen
              /\ \A p \in Proc : pc'[p] \in {"check", "reconcile", "succeed"} /\ op'[p].src = s =>
                    pc'[p] = pc[p] /\ op[p].src = s /\ op'[p].seen = op[p].seen
    PROVE  CoverOf(s)'
<1>1. CASE Signal(s)'
  BY <1>1 DEF CoverOf
<1>2. CASE ~Signal(s)'
  <2>1. SUFFICES ASSUME s \in Present'
                 PROVE  CoverOf(s)'
    BY DEF CoverOf
  <2>2. ~Signal(s) /\ s \in Present
    BY <1>2, <2>1
  <2>3. ASSUME library'[s] # disk'[s], refresh'[s].fresh
        PROVE  \E p \in Proc : Pending(p, s)'
    <3>1. PICK p \in Proc : Pending(p, s)
      BY <1>2, <2>2, <2>3 DEF CoverOf
    <3>2. Interrupted(p) /\ op[p].src = s
      BY <3>1 DEF Pending, Interrupted
    <3>3. Pending(p, s)'
      BY <1>2, <3>1, <3>2 DEF Pending
    <3>4. QED
      BY <3>3
  <2>4. ASSUME NEW p \in Proc, op'[p].src = s
        PROVE  /\ pc'[p] \in {"check", "reconcile"} => op'[p].seen = disk'[s]
               /\ pc'[p] = "succeed" => library'[s] = disk'[s]
    BY <1>2, <2>2, <2>4 DEF CoverOf
  <2>5. QED
    BY <2>3, <2>4 DEF CoverOf
<1>3. QED
  BY <1>1, <1>2

\* The world reports what it changes, or it is on record that it did not.
LEMMA WorldCovers ==
    ASSUME TypeOK, NEW s \in Source, CoverOf(s), NEW t \in Source, World(t)
    PROVE  CoverOf(s)'
<1>1. UNCHANGED <<pc, op, status, library>>
  BY DEF World, Change, MarkDirty, MarkLost, GrowStale, RetryTime, db
<1>2. s \in Present' <=> s \in Present
  BY <1>1 DEF Present
<1>3. refresh[t] \in Refresh
  BY DEF TypeOK
<1>4. CASE s # t
  <2>1. /\ disk'[s] = disk[s] /\ event'[s] = event[s] /\ refresh'[s] = refresh[s]
        /\ missed'[s] = missed[s]
    BY <1>4 DEF World, Change, MarkDirty, MarkLost, GrowStale, RetryTime, db, TypeOK
  <2>2. QED
    BY <1>1, <1>2, <2>1, CoverKept DEF Signal
<1>5. CASE s = t /\ Change(t)
  <2>1. Signal(s)'
    BY <1>5 DEF Change, Signal, TypeOK
  <2>2. QED
    BY <2>1, CoverKept
<1>6. CASE s = t /\ MarkLost(t)
  <2>1. Signal(s)'
    BY <1>6 DEF MarkLost, Signal, TypeOK
  <2>2. QED
    BY <2>1, CoverKept
<1>7. CASE s = t /\ MarkDirty(t)
  <2>1. CASE s \in Present
    <3>1. Signal(s)'
      BY <1>3, <1>7, <2>1 DEF MarkDirty, Present, Signal, TypeOK, Refresh
    <3>2. QED
      BY <3>1, CoverKept
  <2>2. CASE s \notin Present
    BY <1>2, <2>2 DEF CoverOf
  <2>3. QED
    BY <2>1, <2>2
<1>8. CASE s = t /\ (GrowStale(t) \/ RetryTime(t))
  <2>1. /\ disk'[s] = disk[s] /\ event'[s] = event[s] /\ missed'[s] = missed[s]
        /\ refresh'[s].dirty = refresh[s].dirty
        /\ refresh'[s].fresh => refresh[s].fresh
    <3>1. refresh \in [Source -> Refresh] /\ refresh[s] \in Refresh
      BY DEF TypeOK
    <3>2. CASE GrowStale(t)
      BY <1>8, <3>1, <3>2 DEF GrowStale, Refresh
    <3>3. CASE RetryTime(t)
      BY <1>8, <3>1, <3>3 DEF RetryTime, Refresh
    <3>4. QED
      BY <1>8, <3>2, <3>3
  <2>2. QED
    BY <1>1, <1>2, <2>1, CoverKept DEF Signal
<1>9. QED
  BY <1>4, <1>5, <1>6, <1>7, <1>8 DEF World

\* Crashes lose events and attempts, and that is on record.
LEMMA CrashCovers ==
    ASSUME TypeOK, NEW s \in Source, CoverOf(s), NEW ps \in SUBSET Proc, Crash(ps)
    PROVE  CoverOf(s)'
<1>1. UNCHANGED <<disk, status, library, refresh>>
  BY DEF Crash, db
<1>2. s \in Present' <=> s \in Present
  BY <1>1 DEF Present
<1>3. \A p \in Proc \ ps : pc'[p] = pc[p] /\ op'[p] = op[p]
  BY DEF Crash
<1>4. \A p \in ps : pc'[p] = "idle"
  BY DEF Crash
<1>5. missed'[s] <=> \/ missed[s] \/ \E p \in ps : Interrupted(p) /\ op[p].src = s
                     \/ ps = Gui /\ event[s]
  BY Zenon DEF Crash, BrokenOff
<1>6. Signal(s) => Signal(s)'
  BY <1>1, <1>5 DEF Signal, Crash
<1>7. CASE \E p \in ps : Interrupted(p) /\ op[p].src = s
  BY <1>5, <1>7, CoverKept DEF Signal
<1>8. CASE ~\E p \in ps : Interrupted(p) /\ op[p].src = s
  BY <1>1, <1>2, <1>3, <1>4, <1>6, <1>8, CoverKept
<1>9. QED
  BY <1>7, <1>8

\* The process at work on a source is the only one.
LEMMA OneAttempt ==
    ASSUME LockInv, NEW p \in Proc, NEW q \in Proc, Locked(p), Locked(q), op[p].src = op[q].src
    PROVE  p = q
BY DEF LockInv

\* The steps of an attempt, for the source they work on.
LEMMA AttemptCovers ==
    ASSUME TypeOK, LockInv, NEW p \in Proc, Others(p), NEW s \in Source, CoverOf(s), op[p].src = s,
           \/ BeginAttempt(p) \/ ScanComplete(p) \/ ScanFails(p) \/ RecordFailure(p)
           \/ Cancelled(p) \/ CheckConfig(p) \/ Reconcile(p) \/ RecordSuccess(p)
    PROVE  CoverOf(s)'
<1>1. /\ pc \in [Proc -> PC] /\ op \in [Proc -> Op] /\ op[p] \in Op /\ refresh[s] \in Refresh
      /\ UNCHANGED <<disk, event, status>> /\ s \in Source /\ Locked(p)
  BY DEF TypeOK, PC, BeginAttempt, ScanComplete, ScanFails, RecordFailure, Cancelled,
     CheckConfig, Reconcile, RecordSuccess, db, Locked, Attempting
<1>2. s \in Present' <=> s \in Present
  BY <1>1 DEF Present
<1>3. \A q \in Proc \ {p} : Attempting(q) => op[q].src # s
  BY <1>1, OneAttempt DEF Locked
<1>4. ASSUME NEW q \in Proc \ {p}
      PROVE  /\ Interrupted(q) => op[q].src # s
             /\ pc'[q] \in {"check", "reconcile", "succeed"} => op'[q].src # s
  BY <1>3 DEF Others, Interrupted, Attempting
<1>5. CASE RecordFailure(p) \/ Cancelled(p)
  <2>1. refresh'[s].dirty
    BY <1>1, <1>5 DEF RecordFailure, Cancelled, TypeOK, Refresh
  <2>2. QED
    BY <2>1, CoverKept DEF Signal
<1>6. CASE BeginAttempt(p) \/ CheckConfig(p) \/ Reconcile(p) \/ ScanFails(p) \/ ScanComplete(p)
  <2>1. CASE s \notin Present
    BY <1>2, <2>1 DEF CoverOf
  <2>2. CASE s \in Present /\ Reconcile(p)
    <3>1. /\ library'[s] = op[p].seen /\ pc'[p] = "succeed" /\ op' = op
          /\ Signal(s)' = Signal(s)
      BY <1>1, <2>2 DEF Reconcile, Present, Signal, TypeOK, Refresh
    <3>2. op[p].seen = disk[s] \/ Signal(s)
      BY <2>2 DEF Reconcile, CoverOf
    <3>3. QED
      BY <1>1, <1>2, <1>4, <3>1, <3>2 DEF CoverOf
  <2>3. CASE s \in Present /\ CheckConfig(p)
    <3>1. CASE s \in op[p].old
      <4>1. missed'[s]
        BY <1>1, <2>3, <3>1 DEF CheckConfig, BrokenOff, Interrupted
      <4>2. QED
        BY <4>1, CoverKept DEF Signal
    <3>2. CASE s \notin op[p].old
      <4>1. /\ pc'[p] = "reconcile" /\ op' = op /\ UNCHANGED <<library, refresh>>
            /\ Signal(s)' = Signal(s)
        BY <1>1, <2>3, <3>2 DEF CheckConfig, Present, Signal, db
      <4>2. pc[p] = "check" /\ (op[p].seen = disk[s] \/ Signal(s))
        BY <2>3 DEF CheckConfig, CoverOf
      <4>3. CASE Signal(s)
        BY <4>1, <4>3, CoverKept
      <4>4. CASE op[p].seen = disk[s]
        <5>1. Pending(p, s)'
          BY <1>1, <4>1, <4>4 DEF Pending
        <5>2. QED
          BY <1>1, <1>4, <4>1, <4>4, <5>1 DEF CoverOf
      <4>5. QED
        BY <4>2, <4>3, <4>4
    <3>3. QED
      BY <3>1, <3>2
  <2>4. CASE s \in Present /\ ~CheckConfig(p) /\ ~Reconcile(p)
    <3>1. /\ op'[p].src = s
          /\ \/ pc'[p] \in {"scan", "fail"}
             \/ pc'[p] = "check" /\ op'[p].seen = disk[s]
      <4>1. CASE ScanComplete(p)
        <5>1. pc'[p] = "check" /\ op'[p] = [op[p] EXCEPT !.seen = disk[s]]
          BY <1>1, <4>1 DEF ScanComplete
        <5>2. QED
          BY <1>1, <5>1 DEF Op
      <4>2. CASE BeginAttempt(p)
        BY <1>1, <2>4, <4>2 DEF BeginAttempt, Present
      <4>3. CASE ScanFails(p)
        BY <1>1, <4>3 DEF ScanFails
      <4>4. QED
        BY <1>6, <2>4, <4>1, <4>2, <4>3
    <3>2. Pending(p, s)'
      BY <1>1, <3>1 DEF Pending
    <3>3. QED
      BY <1>1, <1>4, <3>1, <3>2 DEF CoverOf
  <2>5. QED
    BY <2>1, <2>2, <2>3, <2>4
<1>7. CASE RecordSuccess(p)
  <2>1. /\ library' = library /\ pc'[p] = "next" /\ missed' = missed
        /\ refresh'[s].dirty = refresh[s].dirty
    BY <1>1, <1>7 DEF RecordSuccess, Leave, TypeOK, Refresh
  <2>2. s \in Present => library[s] = disk[s] \/ Signal(s)
    BY <1>7 DEF RecordSuccess, CoverOf
  <2>3. QED
    BY <1>1, <1>2, <1>4, <2>1, <2>2 DEF CoverOf, Signal
<1>8. QED
  BY <1>5, <1>6, <1>7

\* ... and for any other source.
LEMMA AttemptApart ==
    ASSUME TypeOK, NEW p \in Proc, Others(p), NEW s \in Source, CoverOf(s), s # op[p].src,
           op[p].src \in Source,
           \/ BeginAttempt(p) \/ ScanComplete(p) \/ ScanFails(p) \/ RecordFailure(p)
           \/ Cancelled(p) \/ CheckConfig(p) \/ Reconcile(p) \/ RecordSuccess(p)
    PROVE  CoverOf(s)'
<1>1. UNCHANGED <<disk, event, status>>
  BY DEF BeginAttempt, ScanComplete, ScanFails, RecordFailure, Cancelled, CheckConfig,
     Reconcile, RecordSuccess, db
<1>2. library'[s] = library[s] /\ refresh'[s] = refresh[s]
  BY DEF TypeOK, BeginAttempt, ScanComplete, ScanFails, RecordFailure, Cancelled,
     CheckConfig, Reconcile, RecordSuccess, db
<1>3. missed[s] => missed'[s]
  BY Zenon DEF TypeOK, BeginAttempt, ScanComplete, ScanFails, RecordFailure, Cancelled,
     CheckConfig, Reconcile, RecordSuccess, BrokenOff
<1>4. op'[p].src # s
  <2>1. op \in [Proc -> Op] /\ op[p] \in Op /\ s # None
    BY Bounds DEF TypeOK
  <2>2. CASE End(p) \/ Leave(p)
    BY <2>1, <2>2 DEF Op, End, Leave, NoOp
  <2>3. CASE ScanComplete(p)
    BY <2>1, <2>3 DEF Op, ScanComplete
  <2>4. CASE ~(End(p) \/ Leave(p) \/ ScanComplete(p))
    <3>1. op' = op
      BY <2>4 DEF BeginAttempt, ScanFails, RecordFailure, Cancelled, CheckConfig, Reconcile,
         RecordSuccess
    <3>2. QED
      BY <3>1
  <2>5. QED
    BY <2>2, <2>3, <2>4
<1>5. QED
  BY <1>1, <1>2, <1>3, <1>4, CoverKept DEF Others, Signal, Present

\* What else a process does raises a signal for the source, leaves it alone, or ends an
\* attempt with a mark of it.
LEMMA UserCovers ==
    ASSUME TypeOK, NEW p \in Proc, Others(p), NEW s \in Source, CoverOf(s),
           User(p) \/ \E batch \in SUBSET Source : StartBackground(p, batch)
    PROVE  CoverOf(s)'
<1>1. pc[p] = "idle" /\ pc'[p] \in {"marker", "lock", "rescan_lock"}
  BY DEF User, RequestRescan, RequestTargeted, RequestAdd, SetRecursive, RequestRemove,
     StartBackground, Requested, TypeOK
<1>2. ASSUME NEW t \in Source, RequestAdd(p, t)
      PROVE  CoverOf(s)'
  <2>1. CASE s = t
    <3>1. refresh'[s].dirty
      BY <1>2, <2>1 DEF RequestAdd, NewRow, TypeOK
    <3>2. QED
      BY <3>1, CoverKept DEF Signal
  <2>2. CASE s # t
    <3>1. /\ UNCHANGED <<disk, event, missed, library>> /\ refresh'[s] = refresh[s]
          /\ status'[s] = status[s]
      BY <1>2, <2>2 DEF RequestAdd, TypeOK
    <3>2. QED
      BY <1>1, <3>1, CoverKept DEF Others, Signal, Present, Interrupted
  <2>3. QED
    BY <2>1, <2>2
<1>3. ASSUME NEW t \in Source, SetRecursive(p, t)
      PROVE  CoverOf(s)'
  <2>1. CASE s = t
    <3>1. missed'[s]
      BY <1>3, <2>1 DEF SetRecursive, TypeOK
    <3>2. QED
      BY <3>1, CoverKept DEF Signal
  <2>2. CASE s # t
    <3>1. /\ UNCHANGED <<event, status, refresh, library>> /\ disk'[s] = disk[s]
          /\ missed'[s] = missed[s]
      BY <1>3, <2>2 DEF SetRecursive, TypeOK
    <3>2. QED
      BY <1>1, <3>1, CoverKept DEF Others, Signal, Present, Interrupted
  <2>3. QED
    BY <2>1, <2>2
<1>4. CASE ~\E t \in Source : RequestAdd(p, t) \/ SetRecursive(p, t)
  <2>1. UNCHANGED <<disk, event, missed, library, refresh, status>>
    BY <1>4 DEF User, RequestRescan, RequestTargeted, RequestRemove, StartBackground, db
  <2>2. QED
    BY <1>1, <2>1, CoverKept DEF Others, Signal, Present, Interrupted
<1>5. QED
  BY <1>2, <1>3, <1>4

\* Steps outside an attempt.
LEMMA RestCovers ==
    ASSUME TypeOK, NEW p \in Proc, Others(p), NEW s \in Source, CoverOf(s),
           \/ AcquireRescan(p) \/ RescanBusy(p) \/ EstablishMarker(p) \/ SelectionFails(p)
           \/ NextSource(p) \/ AllDone(p) \/ AcquireSource(p) \/ SourceBusy(p) \/ Recheck(p)
           \/ Snapshot(p) \/ CreateTmp(p) \/ WriteTmp(p) \/ Publish(p) \/ PublishRefused(p)
           \/ ExportFails(p)
    PROVE  CoverOf(s)'
<1>1. UNCHANGED <<disk, event, missed, library, refresh, status>>
  BY DEF AcquireRescan, RescanBusy, EstablishMarker, SelectionFails, NextSource, AllDone,
     AcquireSource, SourceBusy, Recheck, Snapshot, CreateTmp, WriteTmp, Publish,
     PublishRefused, ExportFails, Degrade, db
<1>2. ~Interrupted(p)
  BY DEF AcquireRescan, RescanBusy, EstablishMarker, SelectionFails, NextSource, AllDone,
     AcquireSource, SourceBusy, Recheck, Snapshot, CreateTmp, WriteTmp, Publish,
     PublishRefused, ExportFails, Interrupted
<1>3. pc'[p] \notin {"check", "reconcile", "succeed"}
  BY DEF AcquireRescan, RescanBusy, EstablishMarker, SelectionFails, NextSource, AllDone,
     AcquireSource, SourceBusy, Recheck, Snapshot, CreateTmp, WriteTmp, Publish,
     PublishRefused, ExportFails, Degrade, End, Leave, TypeOK
<1>4. QED
  BY <1>1, <1>2, <1>3, CoverKept DEF Others, Signal, Present

\* Removal, and the errors of the database.
LEMMA RemoveCovers ==
    ASSUME TypeOK, NEW p \in Proc, Others(p), NEW s \in Source, CoverOf(s),
           Remove(p) \/ StorageError(p)
    PROVE  CoverOf(s)'
<1>1. CASE Remove(p)
  <2>1. pc'[p] \in {"idle", "snapshot"} /\ ~Interrupted(p)
    BY <1>1 DEF Remove, End, TypeOK, Interrupted
  <2>2. s \in Present' => /\ UNCHANGED <<disk, event, missed>> /\ library'[s] = library[s]
                          /\ refresh'[s] = refresh[s] /\ s \in Present
    BY <1>1 DEF Remove, TypeOK, Present, db
  <2>3. CASE s \in Present'
    BY <2>1, <2>2, <2>3, CoverKept DEF Others, Signal
  <2>4. QED
    BY <2>3 DEF CoverOf
<1>2. CASE StorageError(p)
  <2>1. UNCHANGED <<disk, event, library, refresh, status>> /\ pc'[p] = "idle"
    BY <1>2 DEF StorageError, End, TypeOK, db
  <2>2. missed'[s] <=> missed[s] \/ (Interrupted(p) /\ op[p].src = s)
    BY <1>2, Zenon DEF StorageError, BrokenOff
  <2>3. CASE Interrupted(p) /\ op[p].src = s
    BY <2>2, <2>3, CoverKept DEF Signal
  <2>4. CASE ~(Interrupted(p) /\ op[p].src = s)
    BY <2>1, <2>2, <2>4, CoverKept DEF Others, Signal, Present
  <2>5. QED
    BY <2>3, <2>4
<1>3. QED
  BY <1>1, <1>2

\* Every step keeps every source covered.
LEMMA CoverStep == TypeOK /\ LockInv /\ CoverInv /\ [Next]_vars => CoverInv'
<1> SUFFICES ASSUME TypeOK, LockInv, CoverInv, [Next]_vars, NEW s \in Source
             PROVE  CoverOf(s)'
  BY DEF CoverInv
<1>1. CoverOf(s)
  BY DEF CoverInv
<1>2. CASE UNCHANGED vars
  BY <1>1, <1>2, CoverKept DEF vars, db, Signal, Present
<1>3. ASSUME NEW t \in Source, World(t)
      PROVE  CoverOf(s)'
  BY <1>1, <1>3, WorldCovers
<1>4. ASSUME NEW ps \in SUBSET Proc, Crash(ps)
      PROVE  CoverOf(s)'
  BY <1>1, <1>4, CrashCovers
<1>5. ASSUME NEW p \in Proc, Moves(p)
      PROVE  CoverOf(s)'
  <2>1. Others(p)
    BY <1>5, MovesKeepOthers
  <2>2. CASE \/ BeginAttempt(p) \/ ScanComplete(p) \/ ScanFails(p) \/ RecordFailure(p)
             \/ Cancelled(p) \/ CheckConfig(p) \/ Reconcile(p) \/ RecordSuccess(p)
    <3>1. op[p].src \in Source
      <4>1. Locked(p)
        BY <2>2 DEF BeginAttempt, ScanComplete, ScanFails, RecordFailure, Cancelled,
           CheckConfig, Reconcile, RecordSuccess, Locked, Attempting
      <4>2. QED
        BY <4>1, AtHand
    <3>2. CASE op[p].src = s
      BY <1>1, <2>1, <2>2, <3>2, AttemptCovers
    <3>3. CASE op[p].src # s
      BY <1>1, <2>1, <2>2, <3>1, <3>3, AttemptApart
    <3>4. QED
      BY <3>2, <3>3
  <2>3. CASE User(p) \/ \E batch \in SUBSET Source : StartBackground(p, batch)
    BY <1>1, <2>1, <2>3, UserCovers
  <2>4. CASE Remove(p) \/ StorageError(p)
    BY <1>1, <2>1, <2>4, RemoveCovers
  <2>5. QED
    BY <1>1, <1>5, <2>1, <2>2, <2>3, <2>4, RestCovers DEF Moves, Step
<1>6. QED
  BY <1>2, <1>3, <1>4, <1>5, Steps

\* The library is current at the start, and unknown sources are not in it.
LEMMA InitCover == Init => CoverInv
BY DEF Init, CoverInv, CoverOf, Signal, DoneRow, NewRow, Present

\* No change on disk is forgotten, in any interleaving of watchers, rounds, removals,
\* failures and crashes: what the library lacks is reported, marked, found when the
\* last success grows stale, or in the hands of a running attempt.
THEOREM ChangesCovered == Spec => []ChangeCovered
<1>1. Init => CoverInv
  BY InitCover
<1>2. TypeOK /\ LockInv /\ CoverInv /\ [Next]_vars => CoverInv'
  BY CoverStep
<1>3. CoverInv => ChangeCovered
  BY CoverImplies
<1>4. QED
  BY <1>1, <1>2, <1>3, TypesAndLocks, PTL DEF Spec

-----------------------------------------------------------------------------
(* Scans replace older ones only, and background work starts when due.     *)

\* A scan that is not yet written is at least as new as the library.
NewerInv ==
    /\ \A s \in Source : library[s] <= disk[s]
    /\ \A p \in Proc : pc[p] \in {"check", "reconcile"} =>
          library[op[p].src] <= op[p].seen /\ op[p].seen <= disk[op[p].src]

\* Files change, they do not change back.
LEMMA DiskStep ==
    ASSUME TypeOK, [Next]_vars, NEW s \in Source
    PROVE  disk'[s] \in Nat /\ disk[s] <= disk'[s]
<1>1. disk[s] \in Nat
  BY Bounds DEF TypeOK, Version
<1>2. ASSUME NEW t \in Source, disk' = [disk EXCEPT ![t] = disk[t] + 1]
      PROVE  disk'[s] \in Nat /\ disk[s] <= disk'[s]
  BY <1>1, <1>2 DEF TypeOK
<1>3. CASE \E t \in Source : World(t)
  BY <1>1, <1>2, <1>3 DEF World, Change, MarkDirty, MarkLost, GrowStale, RetryTime
<1>4. CASE UNCHANGED vars \/ \E ps \in SUBSET Proc : Crash(ps)
  BY <1>1, <1>4 DEF vars, Crash
<1>5. ASSUME NEW p \in Proc, Moves(p)
      PROVE  disk'[s] \in Nat /\ disk[s] <= disk'[s]
  <2>1. CASE User(p) \/ \E batch \in SUBSET Source : StartBackground(p, batch)
    <3>1. disk' = disk \/ \E t \in Source : disk' = [disk EXCEPT ![t] = disk[t] + 1]
      BY <2>1 DEF User, RequestRescan, RequestTargeted, RequestAdd, SetRecursive,
         RequestRemove, StartBackground
    <3>2. QED
      BY <1>1, <1>2, <3>1
  <2>2. CASE Step(p) \/ ScanFails(p) \/ Cancelled(p) \/ ExportFails(p) \/ StorageError(p)
    <3>1. disk' = disk
      BY <2>2 DEF Step, AcquireRescan, RescanBusy, EstablishMarker, SelectionFails,
         NextSource, AllDone, AcquireSource, SourceBusy, Recheck, BeginAttempt,
         ScanComplete, CheckConfig, Reconcile, RecordSuccess, RecordFailure, Remove,
         Snapshot, CreateTmp, WriteTmp, Publish, PublishRefused, ScanFails, Cancelled,
         ExportFails, StorageError, Degrade
    <3>2. QED
      BY <1>1, <3>1
  <2>3. QED
    BY <1>5, <2>1, <2>2 DEF Moves
<1>6. QED
  BY <1>3, <1>4, <1>5, Steps

\* What SQLite lists for a source changes with a reconciliation or a removal only.
LEMMA LibraryStep ==
    ASSUME TypeOK, [Next]_vars
    PROVE  library' = library \/ \E p \in Proc : Reconcile(p) \/ Remove(p)
<1>1. CASE \/ UNCHANGED vars
           \/ \E t \in Source : World(t)
           \/ \E ps \in SUBSET Proc : Crash(ps)
  BY <1>1 DEF vars, db, World, Change, MarkDirty, MarkLost, GrowStale, RetryTime, Crash
<1>2. ASSUME NEW p \in Proc, Moves(p), ~Reconcile(p), ~Remove(p)
      PROVE  library' = library
  <2>1. CASE User(p) \/ \E batch \in SUBSET Source : StartBackground(p, batch)
    BY <2>1 DEF User, RequestRescan, RequestTargeted, RequestAdd, SetRecursive,
       RequestRemove, StartBackground, db
  <2>2. CASE Step(p) \/ ScanFails(p) \/ Cancelled(p) \/ ExportFails(p) \/ StorageError(p)
    BY <1>2, <2>2 DEF Step, AcquireRescan, RescanBusy, EstablishMarker, SelectionFails,
       NextSource, AllDone, AcquireSource, SourceBusy, Recheck, BeginAttempt, ScanComplete,
       CheckConfig, RecordSuccess, RecordFailure, Snapshot, CreateTmp, WriteTmp, Publish,
       PublishRefused, ScanFails, Cancelled, ExportFails, StorageError, Degrade, db
  <2>3. QED
    BY <1>2, <2>1, <2>2 DEF Moves
<1>3. QED
  BY <1>1, <1>2, Steps

\* A process comes to check and reconcile with what it has just read, and stays with it.
LEMMA SeenStep ==
    ASSUME TypeOK, LockInv, [Next]_vars, NEW q \in Proc, pc'[q] \in {"check", "reconcile"}
    PROVE  \/ ScanComplete(q)
           \/ /\ pc[q] \in {"check", "reconcile"}
              /\ op'[q].src = op[q].src /\ op'[q].seen = op[q].seen
<1>1. CASE \/ UNCHANGED vars
           \/ \E t \in Source : World(t)
           \/ \E ps \in SUBSET Proc : Crash(ps)
  BY <1>1 DEF vars, World, Change, MarkDirty, MarkLost, GrowStale, RetryTime, Crash
<1>2. ASSUME NEW p \in Proc, Moves(p), p # q
      PROVE  /\ pc[q] \in {"check", "reconcile"}
             /\ op'[q].src = op[q].src /\ op'[q].seen = op[q].seen
  BY <1>2, MovesKeepOthers DEF Others
<1>3. CASE Moves(q) /\ ~ScanComplete(q) /\ ~CheckConfig(q)
  <2>1. pc'[q] \notin {"check", "reconcile"}
    <3>1. pc \in [Proc -> PC]
      BY DEF TypeOK, PC
    <3>2. CASE User(q) \/ \E batch \in SUBSET Source : StartBackground(q, batch)
      BY <3>1, <3>2 DEF User, RequestRescan, RequestTargeted, RequestAdd, SetRecursive,
         RequestRemove, StartBackground
    <3>3. CASE Step(q) \/ ScanFails(q) \/ Cancelled(q) \/ ExportFails(q) \/ StorageError(q)
      BY <1>3, <3>1, <3>3 DEF Step, AcquireRescan, RescanBusy, EstablishMarker,
         SelectionFails, NextSource, AllDone, AcquireSource, SourceBusy, Recheck,
         BeginAttempt, Reconcile, RecordSuccess, RecordFailure, Remove, Snapshot, CreateTmp,
         WriteTmp, Publish, PublishRefused, ScanFails, Cancelled, ExportFails, StorageError,
         Degrade, End, Leave
    <3>4. QED
      BY <1>3, <3>2, <3>3 DEF Moves
  <2>2. QED
    BY <2>1
<1>4. CASE CheckConfig(q)
  <2>1. pc[q] = "check" /\ pc \in [Proc -> PC]
    BY <1>4 DEF CheckConfig, TypeOK, PC
  <2>2. op' = op
    BY <1>4, <2>1 DEF CheckConfig, End
  <2>3. QED
    BY <2>1, <2>2
<1>5. QED
  BY <1>1, <1>2, <1>3, <1>4, Steps

\* What a reconciliation writes is newer than what it replaces.
LEMMA ReconcileNewer ==
    ASSUME TypeOK, LockInv, NewerInv, NEW p \in Proc, Reconcile(p), NEW s \in Source
    PROVE  /\ library[s] <= library'[s] /\ library'[s] <= disk[s]
           /\ s # op[p].src => library'[s] = library[s]
<1>1. op[p].src \in Source
  BY DEF Reconcile, LockInv, Locked, Attempting
<1>2. \/ library' = library
      \/ library' = [library EXCEPT ![op[p].src] = op[p].seen]
  BY DEF Reconcile
<1>3. library \in [Source -> Nat] /\ library[op[p].src] <= op[p].seen /\ op[p].seen <= disk[op[p].src]
  BY DEF TypeOK, Version, NewerInv, Reconcile
<1>4. QED
  BY <1>1, <1>2, <1>3 DEF NewerInv

\* No other process is then about to write an older scan over it.
LEMMA ReconcileAlone ==
    ASSUME TypeOK, LockInv, NEW p \in Proc, Reconcile(p), NEW q \in Proc,
           pc'[q] \in {"check", "reconcile"}, pc[q] \in {"check", "reconcile"}
    PROVE  op[q].src # op[p].src
<1>1. pc'[p] \notin {"check", "reconcile"}
  BY DEF Reconcile, End, TypeOK
<1>2. Locked(p) /\ Locked(q)
  BY DEF Reconcile, Locked, Attempting
<1>3. QED
  BY <1>1, <1>2, OneAttempt

\* A removal forgets the version together with the source.
LEMMA RemoveForgets ==
    ASSUME TypeOK, NEW p \in Proc, Remove(p), NEW s \in Source
    PROVE  \/ library'[s] = library[s]
           \/ library'[s] = 0 /\ status'[s] = "removed"
BY DEF Remove, TypeOK, db

\* Every step keeps it.
LEMMA NewerStep == TypeOK /\ LockInv /\ NewerInv /\ [Next]_vars => NewerInv'
<1> SUFFICES ASSUME TypeOK, LockInv, NewerInv, [Next]_vars PROVE NewerInv'
  OBVIOUS
<1>1. /\ library \in [Source -> Nat] /\ disk \in [Source -> Nat]
      /\ \A q \in Proc : op[q].seen \in Nat
  BY DEF TypeOK, Op, Version
<1>2. ASSUME NEW s \in Source
      PROVE  library'[s] <= disk'[s]
  <2>1. library[s] <= disk[s] /\ disk[s] <= disk'[s] /\ disk'[s] \in Nat
    BY DiskStep DEF NewerInv
  <2>2. library'[s] \in Nat /\ library'[s] <= disk[s]
    <3>1. ASSUME NEW p \in Proc, Reconcile(p)
          PROVE  library'[s] \in Nat /\ library'[s] <= disk[s]
      <4>1. library' \in [Source -> Version]
        BY NextType DEF TypeOK
      <4>2. QED
        BY <3>1, <4>1, ReconcileNewer DEF Version
    <3>2. ASSUME NEW p \in Proc, Remove(p)
          PROVE  library'[s] \in Nat /\ library'[s] <= disk[s]
      BY <1>1, <2>1, <3>2, RemoveForgets
    <3>3. QED
      BY <1>1, <2>1, <3>1, <3>2, LibraryStep
  <2>3. QED
    BY <1>1, <2>1, <2>2
<1>3. ASSUME NEW q \in Proc, pc'[q] \in {"check", "reconcile"}
      PROVE  library'[op'[q].src] <= op'[q].seen /\ op'[q].seen <= disk'[op'[q].src]
  <2>1. CASE ScanComplete(q)
    <3>1. Locked(q) /\ op[q].src \in Source
      BY <2>1 DEF ScanComplete, Locked, Attempting, LockInv
    <3>2. /\ op'[q].src = op[q].src /\ op'[q].seen = disk[op[q].src]
          /\ library' = library /\ disk' = disk
      BY <2>1 DEF ScanComplete, TypeOK, Op, db
    <3>3. QED
      BY <1>1, <3>1, <3>2 DEF NewerInv
  <2>2. CASE /\ pc[q] \in {"check", "reconcile"}
             /\ op'[q].src = op[q].src /\ op'[q].seen = op[q].seen
    <3> DEFINE s == op[q].src
    <3>1. s \in Source /\ library[s] <= op[q].seen /\ op[q].seen <= disk[s]
      BY <2>2 DEF NewerInv, LockInv, Locked, Attempting
    <3>2. disk[s] <= disk'[s] /\ disk'[s] \in Nat
      BY <3>1, DiskStep
    <3>3. library'[s] <= op[q].seen
      <4>1. ASSUME NEW p \in Proc, Reconcile(p)
            PROVE  library'[s] = library[s]
        BY <1>3, <2>2, <3>1, <4>1, ReconcileNewer, ReconcileAlone
      <4>2. ASSUME NEW p \in Proc, Remove(p)
            PROVE  library'[s] = library[s] \/ library'[s] = 0
        BY <3>1, <4>2, RemoveForgets
      <4>3. QED
        BY <1>1, <3>1, <4>1, <4>2, LibraryStep
    <3>4. QED
      BY <1>1, <2>2, <3>1, <3>2, <3>3
  <2>3. QED
    BY <1>3, <2>1, <2>2, SeenStep
<1>4. QED
  BY <1>2, <1>3 DEF NewerInv

\* Nothing was scanned at the start.
LEMMA InitNewer == Init => NewerInv
BY DEF Init, NewerInv

\* So it holds in every reachable state.
LEMMA NewerAlways == Spec => []NewerInv
<1>1. Init => NewerInv
  BY InitNewer
<1>2. TypeOK /\ LockInv /\ NewerInv /\ [Next]_vars => NewerInv'
  BY NewerStep
<1>3. QED
  BY <1>1, <1>2, TypesAndLocks, PTL DEF Spec

\* Between the second look at a source and the attempt, the source stays due.
DueInv ==
    \A p \in Proc : pc[p] = "begin" /\ op[p].kind = "background" => Due(op[p].src)

\* Deadlines and messages make a due source more due.
LEMMA WorldDue ==
    ASSUME TypeOK, NEW s \in Source, Due(s), NEW t \in Source, World(t)
    PROVE  Due(s)'
<1>1. refresh[t] \in Refresh
  BY DEF TypeOK
<1>2. CASE refresh'[s] = refresh[s]
  BY <1>2 DEF Due
<1>3. CASE refresh'[s] # refresh[s]
  <2>1. MarkDirty(t) \/ GrowStale(t) \/ RetryTime(t)
    BY <1>3 DEF World, Change, MarkLost, db
  <2>2. CASE s # t
    BY <1>3, <2>1, <2>2 DEF MarkDirty, GrowStale, RetryTime, TypeOK
  <2>3. CASE s = t
    BY <1>1, <1>3, <2>1, <2>3 DEF MarkDirty, GrowStale, RetryTime, Due, TypeOK, Refresh
  <2>4. QED
    BY <2>2, <2>3
<1>4. QED
  BY <1>2, <1>3

\* Only the holder of its lock writes the row of a configured source.
LEMMA MoveDue ==
    ASSUME TypeOK, LockInv, NEW p \in Proc, Moves(p), NEW q \in Proc \ {p}, Locked(q),
           Due(op[q].src)
    PROVE  /\ refresh'[op[q].src] = refresh[op[q].src] \/ refresh'[op[q].src] = NewRow
<1> DEFINE s == op[q].src
<1>1. s \in Source
  BY AtHand
<1>2. CASE User(p) \/ \E batch \in SUBSET Source : StartBackground(p, batch)
  BY <1>1, <1>2 DEF User, RequestRescan, RequestTargeted, RequestAdd, SetRecursive,
     RequestRemove, StartBackground, TypeOK, db
<1>3. CASE \/ BeginAttempt(p) \/ ScanFails(p) \/ RecordFailure(p) \/ Cancelled(p)
           \/ CheckConfig(p) \/ Reconcile(p) \/ RecordSuccess(p) \/ Remove(p)
  <2>1. Locked(p)
    BY <1>3 DEF BeginAttempt, ScanFails, RecordFailure, Cancelled, CheckConfig, Reconcile,
       RecordSuccess, Remove, Locked, Attempting
  <2>2. op[p].src # s
    BY <2>1, OneAttempt
  <2>3. QED
    BY <1>1, <1>3, <2>2 DEF BeginAttempt, ScanFails, RecordFailure, Cancelled, CheckConfig,
       Reconcile, RecordSuccess, Remove, TypeOK, db
<1>4. CASE \/ AcquireRescan(p) \/ RescanBusy(p) \/ EstablishMarker(p) \/ SelectionFails(p)
           \/ NextSource(p) \/ AllDone(p) \/ AcquireSource(p) \/ SourceBusy(p) \/ Recheck(p)
           \/ Snapshot(p) \/ CreateTmp(p) \/ WriteTmp(p) \/ Publish(p) \/ PublishRefused(p)
           \/ ExportFails(p) \/ StorageError(p) \/ ScanComplete(p)
  BY <1>4 DEF AcquireRescan, RescanBusy, EstablishMarker, SelectionFails, NextSource, AllDone,
     AcquireSource, SourceBusy, Recheck, Snapshot, CreateTmp, WriteTmp, Publish,
     PublishRefused, ExportFails, StorageError, ScanComplete, Degrade, db
<1>5. QED
  BY <1>2, <1>3, <1>4 DEF Moves, Step

\* A background round comes to an attempt through the second look only.
LEMMA OwnDue ==
    ASSUME TypeOK, NEW p \in Proc, Moves(p), pc'[p] = "begin", op'[p].kind = "background"
    PROVE  Due(op[p].src)'
<1>1. pc \in [Proc -> PC] /\ op \in [Proc -> Op]
  BY DEF TypeOK, PC
<1>2. CASE User(p) \/ \E batch \in SUBSET Source : StartBackground(p, batch)
  BY <1>1, <1>2 DEF User, RequestRescan, RequestTargeted, RequestAdd, SetRecursive,
     RequestRemove, StartBackground
<1>3. CASE AcquireSource(p)
  BY <1>1, <1>3 DEF AcquireSource
<1>4. CASE Recheck(p)
  <2>1. Due(op[p].src) /\ op' = op /\ refresh' = refresh
    BY <1>1, <1>4 DEF Recheck, End, Leave, db, locks
  <2>2. QED
    BY <2>1 DEF Due
<1>5. CASE Moves(p) /\ ~AcquireSource(p) /\ ~Recheck(p)
  <2>1. CASE Step(p) \/ ScanFails(p) \/ Cancelled(p) \/ ExportFails(p) \/ StorageError(p)
    BY <1>1, <1>5, <2>1 DEF Step, AcquireRescan, RescanBusy, EstablishMarker,
       SelectionFails, NextSource, AllDone, SourceBusy, BeginAttempt, ScanComplete,
       CheckConfig, Reconcile, RecordSuccess, RecordFailure, Remove, Snapshot, CreateTmp,
       WriteTmp, Publish, PublishRefused, ScanFails, Cancelled, ExportFails, StorageError,
       Degrade, End, Leave
  <2>2. QED
    BY <1>2, <1>5, <2>1 DEF Moves
<1>6. QED
  BY <1>3, <1>4, <1>5

\* Every step keeps it.
LEMMA DueStep == TypeOK /\ LockInv /\ DueInv /\ [Next]_vars => DueInv'
<1> SUFFICES ASSUME TypeOK, LockInv, DueInv, [Next]_vars, NEW q \in Proc,
                    pc'[q] = "begin", op'[q].kind = "background"
             PROVE  Due(op[q].src)'
  BY DEF DueInv, Due
<1>1. CASE UNCHANGED vars
  BY <1>1 DEF vars, db, DueInv, Due
<1>2. ASSUME NEW t \in Source, World(t)
      PROVE  Due(op[q].src)'
  <2>1. pc' = pc /\ op' = op
    BY <1>2 DEF World, Change, MarkDirty, MarkLost, GrowStale, RetryTime
  <2>2. Due(op[q].src) /\ op[q].src \in Source
    BY <2>1 DEF DueInv, LockInv, Locked, Attempting
  <2>3. QED
    BY <1>2, <2>1, <2>2, WorldDue
<1>3. ASSUME NEW ps \in SUBSET Proc, Crash(ps)
      PROVE  Due(op[q].src)'
  <2>1. pc'[q] = pc[q] /\ op'[q] = op[q] /\ refresh' = refresh
    BY <1>3 DEF Crash, db
  <2>2. QED
    BY <2>1 DEF DueInv, Due
<1>4. ASSUME NEW p \in Proc \ {q}, Moves(p)
      PROVE  Due(op[q].src)'
  <2>1. pc[q] = "begin" /\ op'[q].src = op[q].src /\ op[q].kind = "background"
    BY <1>4, MovesKeepOthers DEF Others
  <2>2. Due(op[q].src) /\ Locked(q)
    BY <2>1 DEF DueInv, Locked, Attempting
  <2>3. refresh'[op[q].src] = refresh[op[q].src] \/ refresh'[op[q].src] = NewRow
    BY <1>4, <2>2, MoveDue
  <2>4. QED
    BY <2>1, <2>2, <2>3 DEF Due, NewRow
<1>5. CASE Moves(q)
  BY <1>5, OwnDue
<1>6. QED
  BY <1>1, <1>2, <1>3, <1>4, <1>5, Steps

\* Background work leaves alone what another process has just refreshed, and what is to
\* be retried later.
THEOREM BackgroundWhenDue == Spec => BackgroundOnlyWhenDue
<1>1. Init => DueInv
  BY DEF Init, DueInv
<1>2. TypeOK /\ LockInv /\ DueInv /\ [Next]_vars => DueInv'
  BY DueStep
<1>3. DueInv => [\A p \in Proc : op[p].kind = "background" /\ pc[p] = "begin" /\ pc'[p] = "scan"
                                    => Due(op[p].src)]_vars
  BY DEF DueInv
<1>4. QED
  BY <1>1, <1>2, <1>3, TypesAndLocks, PTL DEF Spec, BackgroundOnlyWhenDue

-----------------------------------------------------------------------------
(* The mirror of each source.                                              *)

\* What happens to one source in a step.
LEMMA SourceStep ==
    ASSUME TypeOK, LockInv, NewerInv, [Next]_vars, NEW s \in Source
    PROVE  [Mirror(s)!MirrorNext]_<<disk[s], library[s], status[s]>>
<1>1. /\ disk \in [Source -> Nat] /\ library \in [Source -> Nat]
      /\ DOMAIN status = Source
  BY DEF TypeOK, Version
<1>2. CASE UNCHANGED <<disk[s], library[s], status[s]>>
  BY <1>2
<1>3. ASSUME NEW t \in Source, disk' = [disk EXCEPT ![t] = disk[t] + 1],
             UNCHANGED <<library, status>>
      PROVE  [Mirror(s)!MirrorNext]_<<disk[s], library[s], status[s]>>
  <2>1. CASE s = t
    <3>1. disk'[s] = disk[s] + 1 /\ library'[s] = library[s] /\ status'[s] = status[s]
      BY <1>1, <1>3, <2>1
    <3>2. QED
      BY <3>1 DEF Mirror!MirrorNext, Mirror!FilesChange
  <2>2. CASE s # t
    BY <1>1, <1>3, <2>2
  <2>3. QED
    BY <2>1, <2>2
<1>4. CASE \/ UNCHANGED vars
           \/ \E t \in Source : World(t)
           \/ \E ps \in SUBSET Proc : Crash(ps)
  <2>1. \/ UNCHANGED <<disk, library, status>>
        \/ \E t \in Source : /\ disk' = [disk EXCEPT ![t] = disk[t] + 1]
                             /\ UNCHANGED <<library, status>>
    BY <1>4 DEF vars, db, World, Change, MarkDirty, MarkLost, GrowStale, RetryTime, Crash
  <2>2. QED
    BY <1>2, <1>3, <2>1
<1>5. ASSUME NEW p \in Proc, Moves(p)
      PROVE  [Mirror(s)!MirrorNext]_<<disk[s], library[s], status[s]>>
  <2>1. ASSUME NEW t \in Source, RequestAdd(p, t)
        PROVE  [Mirror(s)!MirrorNext]_<<disk[s], library[s], status[s]>>
    <3>1. CASE s = t
      <4>1. /\ status[s] = "new" /\ status'[s] = "present" /\ disk'[s] = disk[s]
            /\ library'[s] = library[s]
        BY <1>1, <2>1, <3>1 DEF RequestAdd
      <4>2. QED
        BY <4>1 DEF Mirror!MirrorNext, Mirror!Add
    <3>2. CASE s # t
      BY <1>1, <2>1, <3>2 DEF RequestAdd
    <3>3. QED
      BY <3>1, <3>2
  <2>2. ASSUME NEW t \in Source, SetRecursive(p, t)
        PROVE  [Mirror(s)!MirrorNext]_<<disk[s], library[s], status[s]>>
    BY <1>3, <2>2 DEF SetRecursive
  <2>3. CASE Reconcile(p)
    <3>1. disk'[s] = disk[s] /\ status'[s] = status[s]
      BY <2>3 DEF Reconcile
    <3>2. CASE library'[s] = library[s]
      BY <3>1, <3>2
    <3>3. CASE library'[s] # library[s]
      <4>1. s = op[p].src /\ library[s] <= library'[s] /\ library'[s] <= disk[s]
        BY <2>3, <3>3, ReconcileNewer
      <4>2. status[s] = "present"
        BY <2>3, <3>3, <4>1 DEF Reconcile
      <4>3. library'[s] \in Nat
        BY NextType DEF TypeOK, Version
      <4>4. library'[s] \in library[s] .. disk[s]
        BY <1>1, <4>1, <4>3
      <4>5. QED
        BY <3>1, <4>2, <4>4 DEF Mirror!MirrorNext, Mirror!Refreshed
    <3>4. QED
      BY <3>2, <3>3
  <2>4. CASE Remove(p)
    <3>1. disk' = disk
      BY <2>4 DEF Remove
    <3>2. CASE op[p].src = s /\ status[s] = "present"
      <4>1. status'[s] = "removed" /\ library'[s] = 0
        BY <1>1, <2>4, <3>2 DEF Remove
      <4>2. QED
        BY <3>1, <3>2, <4>1 DEF Mirror!MirrorNext, Mirror!Forget
    <3>3. CASE ~(op[p].src = s /\ status[s] = "present")
      BY <1>1, <2>4, <3>1, <3>3 DEF Remove, db
    <3>4. QED
      BY <3>2, <3>3
  <2>5. CASE /\ ~\E t \in Source : RequestAdd(p, t) \/ SetRecursive(p, t)
             /\ ~Reconcile(p) /\ ~Remove(p)
    <3>1. UNCHANGED <<disk, library, status>>
      BY <1>5, <2>5 DEF Moves, User, RequestRescan, RequestTargeted, RequestRemove,
         StartBackground, Step, AcquireRescan, RescanBusy, EstablishMarker, SelectionFails,
         NextSource, AllDone, AcquireSource, SourceBusy, Recheck, BeginAttempt, ScanComplete,
         CheckConfig, RecordSuccess, RecordFailure, Snapshot, CreateTmp, WriteTmp, Publish,
         PublishRefused, ScanFails, Cancelled, ExportFails, StorageError, Degrade, db
    <3>2. QED
      BY <3>1
  <2>6. QED
    BY <1>5, <2>1, <2>2, <2>3, <2>4, <2>5
<1>6. QED
  BY <1>4, <1>5, Steps

\* The library mirrors every source: it lists versions that the files had, never an older
\* one after a newer one, and nothing of a source that is not configured. Rounds of any
\* number of processes, removals, errors and crashes are steps of SourceMirror or none.
THEOREM RefreshMirrors == Spec => \A s \in Source : Mirror(s)!MirrorSpec
<1> SUFFICES ASSUME NEW s \in Source PROVE Spec => Mirror(s)!MirrorSpec
  OBVIOUS
<1>1. Init => Mirror(s)!MirrorInit
  BY DEF Init, Mirror!MirrorInit
<1>2. TypeOK /\ LockInv /\ NewerInv /\ [Next]_vars
        => [Mirror(s)!MirrorNext]_<<disk[s], library[s], status[s]>>
  BY SourceStep
<1>3. QED
  BY <1>1, <1>2, TypesAndLocks, NewerAlways, PTL DEF Spec, Mirror!MirrorSpec,
     Mirror!mirrorVars

\* The same as the action property that the run checks.
THEOREM StepsMirrored == Spec => SourcesMirrored
<1>1. TypeOK /\ LockInv /\ NewerInv /\ [Next]_vars
        => [\A s \in Source : [Mirror(s)!MirrorNext]_<<disk[s], library[s], status[s]>>]_vars
  BY SourceStep
<1>2. QED
  BY <1>1, TypesAndLocks, NewerAlways, PTL DEF Spec, SourcesMirrored

-----------------------------------------------------------------------------
(* The exported snapshot.                                                  *)

\* An operation that is under way is of a kind that may be requested, and a full
\* rescan holds the rescan lock.
OwnKind(p) ==
    /\ pc[p] # "idle" => op[p].kind \in Kinds
    /\ (pc[p] = "marker" \/ Underway(p)) /\ op[p].kind = "rescan" => rescan_lock = p

KindInv == \A p \in Proc : OwnKind(p)

\* What an operation may rely on that has library.tsv to itself: its marker, its rows,
\* and the temporary file.
Exports(p) ==
    /\ Underway(p) => marker
    /\ pc[p] \in {"create", "write", "publish"} => op[p].rows = library
    /\ op[p].file = IF pc[p] \in {"write", "publish"} THEN "tmp" ELSE "none"
    /\ pc[p] = "write" => tmp = Partial
    /\ pc[p] = "publish" => tmp = op[p].rows

Alone == \A p, q \in Proc : Underway(p) /\ Underway(q) => p = q

AloneInv == StaleMarked /\ Alone /\ \A p \in Proc : Exports(p)

\* A process that is done has nothing open and owes nothing.
LEMMA IdleExports ==
    ASSUME NEW p \in Proc, pc'[p] = "idle", op'[p] = NoOp
    PROVE  OwnKind(p)' /\ Exports(p)'
BY DEF OwnKind, Exports, Underway, NoOp

\* The kind of an operation and the rescan lock of others, through the move of a process.
LEMMA MoveRescan ==
    ASSUME TypeOK, NEW p \in Proc, Moves(p), NEW q \in Proc \ {p}, rescan_lock = q
    PROVE  rescan_lock' = q
<1>1. CASE User(p) \/ \E batch \in SUBSET Source : StartBackground(p, batch)
  BY <1>1 DEF User, RequestRescan, RequestTargeted, RequestAdd, SetRecursive, RequestRemove,
     StartBackground, locks
<1>2. CASE Step(p) \/ ScanFails(p) \/ Cancelled(p) \/ ExportFails(p) \/ StorageError(p)
  BY <1>2, Bounds DEF Step, AcquireRescan, RescanBusy, EstablishMarker, SelectionFails,
     NextSource, AllDone, AcquireSource, SourceBusy, Recheck, BeginAttempt, ScanComplete,
     CheckConfig, Reconcile, RecordSuccess, RecordFailure, Remove, Snapshot, CreateTmp,
     WriteTmp, Publish, PublishRefused, ScanFails, Cancelled, ExportFails, StorageError,
     Degrade, End, Leave, Release, locks
<1>3. QED
  BY <1>1, <1>2 DEF Moves

\* An operation that goes on keeps its kind and the rescan lock.
LEMMA KindKept ==
    ASSUME NEW p \in Proc, OwnKind(p), pc[p] # "idle", op'[p].kind = op[p].kind,
           rescan_lock' = rescan_lock,
           pc[p] = "marker" \/ Underway(p) \/ op[p].kind # "rescan"
    PROVE  OwnKind(p)'
BY DEF OwnKind

\* A move of a process that ends its operation.
Ends(p) == pc'[p] = "idle" /\ op'[p] = NoOp

\* An operation that returns is over.
LEMMA EndEnds ==
    ASSUME TypeOK, NEW p \in Proc, End(p)
    PROVE  Ends(p)
BY DEF End, Ends, TypeOK

\* So is one whose export was published or given up.
LEMMA ExportEnds ==
    ASSUME TypeOK, NEW p \in Proc, Publish(p) \/ PublishRefused(p) \/ ExportFails(p)
    PROVE  Ends(p)
<1>1. /\ pc' = [pc EXCEPT ![p] = "idle"]
      /\ \E place \in {"tsv", "gone"} : op' = [Moved(place) EXCEPT ![p] = NoOp]
  BY DEF Publish, PublishRefused, ExportFails, Degrade
<1>2. QED
  BY <1>1, MovedType DEF Ends, TypeOK

\* Every move is a request, the acquisition of a lock, the marker, a step of an operation
\* that is under way, or the end of one.
Goes(p) ==
    \/ NextSource(p) \/ AllDone(p) \/ SourceBusy(p) \/ Recheck(p) \/ BeginAttempt(p)
    \/ ScanComplete(p) \/ ScanFails(p) \/ CheckConfig(p) \/ Reconcile(p) \/ RecordSuccess(p)
    \/ RecordFailure(p) \/ Remove(p) \/ Snapshot(p) \/ CreateTmp(p) \/ WriteTmp(p)

\* A move that does not end an operation is one of these.
LEMMA MoveCases ==
    ASSUME TypeOK, NEW p \in Proc, Moves(p), ~Ends(p)
    PROVE  \/ User(p) \/ \E batch \in SUBSET Source : StartBackground(p, batch)
           \/ AcquireRescan(p) \/ AcquireSource(p) \/ EstablishMarker(p)
           \/ Goes(p) /\ ~End(p)
BY EndEnds, ExportEnds DEF Moves, Step, Goes, RescanBusy, SelectionFails, Cancelled,
   StorageError

\* What a step of an operation under way leaves of its record.
LEMMA GoesOn ==
    ASSUME TypeOK, NEW p \in Proc, Goes(p), ~End(p)
    PROVE  /\ Underway(p) /\ UNCHANGED <<rescan_lock, marker>>
           /\ op'[p].kind = op[p].kind
           /\ ~Snapshot(p) => op'[p].rows = op[p].rows
           /\ ~CreateTmp(p) => op'[p].file = op[p].file
<1>1. op \in [Proc -> Op] /\ op[p] \in Op
  BY DEF TypeOK
<1>2. CASE WriteTmp(p)
  BY <1>2 DEF WriteTmp, Underway, locks
<1>3. CASE ~WriteTmp(p)
  <2>1. CASE SourceBusy(p)
    <3>1. op[p].kind = "background" /\ pc[p] = "lock" /\ op'[p] = [op[p] EXCEPT !.src = None]
      BY <1>1, <2>1 DEF SourceBusy
    <3>2. QED
      BY <1>1, <2>1, <3>1 DEF SourceBusy, Underway, locks, files, Op
  <2>2. CASE NextSource(p)
    <3>1. PICK s \in op[p].todo : \/ op' = [op EXCEPT ![p].todo = @ \ {s}]
                                 \/ op' = [op EXCEPT ![p].todo = @ \ {s}, ![p].src = s]
      BY <2>2 DEF NextSource
    <3>2. op'[p].kind = op[p].kind /\ op'[p].rows = op[p].rows /\ op'[p].file = op[p].file
      <4>1. \/ op'[p] = [op[p] EXCEPT !.todo = @ \ {s}]
            \/ op'[p] = [op[p] EXCEPT !.todo = @ \ {s}, !.src = s]
        BY <1>1, <3>1
      <4>2. QED
        BY <1>1, <4>1 DEF Op
    <3>3. pc[p] = "next" /\ UNCHANGED <<rescan_lock, marker>>
      BY <2>2 DEF NextSource, locks, files
    <3>4. QED
      BY <3>2, <3>3 DEF Underway
  <2>3. CASE Recheck(p) \/ RecordSuccess(p) \/ RecordFailure(p)
    <3>1. op' = op \/ Leave(p)
      BY <2>3 DEF Recheck, RecordSuccess, RecordFailure
    <3>2. op'[p].kind = op[p].kind /\ op'[p].rows = op[p].rows /\ op'[p].file = op[p].file
      BY <1>1, <3>1 DEF Leave, Op
    <3>3. QED
      BY <2>3, <3>2 DEF Recheck, RecordSuccess, RecordFailure, Leave, Underway, locks, files
  <2>4. CASE \/ AllDone(p) \/ BeginAttempt(p) \/ ScanFails(p) \/ CheckConfig(p)
             \/ Reconcile(p) \/ Remove(p)
    BY <1>1, <2>4 DEF AllDone, BeginAttempt, ScanFails, CheckConfig, Reconcile, Remove,
       Underway, locks, files
  <2>5. CASE ScanComplete(p)
    <3>1. op'[p] = [op[p] EXCEPT !.seen = disk[op[p].src]]
      BY <1>1, <2>5 DEF ScanComplete
    <3>2. QED
      BY <1>1, <2>5, <3>1 DEF ScanComplete, Underway, locks, files, Op
  <2>6. CASE Snapshot(p)
    <3>1. op'[p] = [op[p] EXCEPT !.rev = revision, !.rows = library]
      BY <1>1, <2>6 DEF Snapshot
    <3>2. QED
      BY <1>1, <2>6, <3>1 DEF Snapshot, Underway, locks, files, Op
  <2>7. CASE CreateTmp(p)
    <3>1. op'[p] = [op[p] EXCEPT !.file = "tmp"]
      BY <1>1, <2>7 DEF CreateTmp
    <3>2. QED
      BY <1>1, <2>7, <3>1 DEF CreateTmp, Underway, locks, Op
  <2>8. QED
    BY <1>3, <2>1, <2>2, <2>3, <2>4, <2>5, <2>6, <2>7 DEF Goes
<1>4. QED
  BY <1>2, <1>3

\* What a request leaves of the record of its process.
LEMMA Asks ==
    ASSUME TypeOK, NEW p \in Proc,
           User(p) \/ \E batch \in SUBSET Source : StartBackground(p, batch)
    PROVE  /\ pc[p] = "idle" /\ UNCHANGED <<rescan_lock, library, files>>
           /\ op'[p].kind \in Kinds /\ op'[p].file = op[p].file
           /\ \/ pc'[p] = "rescan_lock"
              \/ pc'[p] = "marker" /\ op'[p].kind # "rescan"
              \/ pc'[p] = "lock" /\ op'[p].kind = "remove"
<1>1. op \in [Proc -> Op] /\ op[p] \in Op /\ pc \in [Proc -> PC]
  BY DEF TypeOK, PC
<1>2. CASE RequestRescan(p)
  <2>1. op'[p] = [op[p] EXCEPT !.kind = "rescan"]
    BY <1>1, <1>2 DEF RequestRescan
  <2>2. QED
    BY <1>1, <1>2, <2>1 DEF RequestRescan, Requested, locks, db, Op
<1>3. ASSUME NEW s \in Source, RequestTargeted(p, s) \/ RequestAdd(p, s) \/ SetRecursive(p, s)
      PROVE  /\ pc[p] = "idle" /\ UNCHANGED <<rescan_lock, library, files>>
             /\ op'[p].kind \in Kinds /\ op'[p].file = op[p].file
             /\ pc'[p] = "marker" /\ op'[p].kind # "rescan"
  <2>1. \E k \in Kinds \ {"rescan"} : op'[p] = [op[p] EXCEPT !.kind = k, !.todo = {s}]
    <3>1. CASE RequestTargeted(p, s)
      <4>1. op'[p] = [op[p] EXCEPT !.kind = "targeted", !.todo = {s}] /\ "targeted" \in Kinds
        BY <1>1, <3>1 DEF RequestTargeted, Requested
      <4>2. QED
        BY <4>1
    <3>2. CASE RequestAdd(p, s)
      BY <1>1, <3>2 DEF RequestAdd, Requested
    <3>3. CASE SetRecursive(p, s)
      BY <1>1, <3>3 DEF SetRecursive, Requested
    <3>4. QED
      BY <1>3, <3>1, <3>2, <3>3
  <2>2. op'[p].kind \in Kinds \ {"rescan"} /\ op'[p].file = op[p].file
    BY <1>1, <2>1 DEF Op
  <2>3. pc[p] = "idle" /\ pc'[p] = "marker"
    BY <1>1, <1>3 DEF RequestTargeted, RequestAdd, SetRecursive, Requested
  <2>4. UNCHANGED <<rescan_lock, library, files>>
    BY <1>3 DEF RequestTargeted, RequestAdd, SetRecursive, locks, db
  <2>5. QED
    BY <2>2, <2>3, <2>4
<1>4. ASSUME NEW s \in Source, RequestRemove(p, s)
      PROVE  /\ pc[p] = "idle" /\ UNCHANGED <<rescan_lock, library, files>>
             /\ op'[p].kind \in Kinds /\ op'[p].file = op[p].file
             /\ pc'[p] = "lock" /\ op'[p].kind = "remove"
  <2>1. op'[p] = [op[p] EXCEPT !.kind = "remove", !.src = s]
    BY <1>1, <1>4 DEF RequestRemove
  <2>2. QED
    BY <1>1, <1>4, <2>1 DEF RequestRemove, Requested, locks, db, Op
<1>5. ASSUME NEW batch \in SUBSET Source, StartBackground(p, batch)
      PROVE  /\ pc[p] = "idle" /\ UNCHANGED <<rescan_lock, library, files>>
             /\ op'[p].kind \in Kinds /\ op'[p].file = op[p].file
             /\ pc'[p] = "marker" /\ op'[p].kind # "rescan"
  <2>1. op'[p] = [op[p] EXCEPT !.kind = "background", !.todo = batch]
    BY <1>1, <1>5 DEF StartBackground
  <2>2. QED
    BY <1>1, <1>5, <2>1 DEF StartBackground, locks, db, Op
<1>6. QED
  BY <1>2, <1>3, <1>4, <1>5 DEF User

\* A move keeps the kind and the lock of its process.
LEMMA OwnKindMoves ==
    ASSUME TypeOK, NEW p \in Proc, OwnKind(p), LockInv, Moves(p)
    PROVE  OwnKind(p)'
<1>1. pc \in [Proc -> PC] /\ op \in [Proc -> Op]
  BY DEF TypeOK, PC
<1>2. CASE Ends(p)
  BY <1>2, IdleExports DEF Ends
<1>3. CASE User(p) \/ \E batch \in SUBSET Source : StartBackground(p, batch)
  BY <1>3, Asks DEF OwnKind, Underway
<1>4. CASE AcquireRescan(p)
  BY <1>1, <1>4 DEF AcquireRescan, OwnKind
<1>5. CASE AcquireSource(p)
  <2>1. pc[p] = "lock" /\ op' = op /\ rescan_lock' = rescan_lock
    BY <1>5 DEF AcquireSource
  <2>2. QED
    BY <2>1, KindKept DEF Underway
<1>6. CASE EstablishMarker(p)
  <2>1. pc[p] = "marker" /\ op'[p].kind = op[p].kind /\ rescan_lock' = rescan_lock
    BY <1>1, <1>6 DEF EstablishMarker, locks, Op
  <2>2. QED
    BY <2>1, KindKept
<1>7. CASE Goes(p) /\ ~End(p)
  <2>1. pc[p] # "idle"
    BY <1>7, GoesOn DEF Underway
  <2>2. QED
    BY <1>7, <2>1, GoesOn, KindKept
<1>8. QED
  BY <1>2, <1>3, <1>4, <1>5, <1>6, <1>7, MoveCases

\* Kinds and rescan locks are as KindInv says in every reachable state: full rescans
\* exclude each other.
LEMMA KindStep == TypeOK /\ LockInv /\ KindInv /\ [Next]_vars => KindInv'
<1> SUFFICES ASSUME TypeOK, LockInv, KindInv, [Next]_vars, NEW q \in Proc
             PROVE  OwnKind(q)'
  BY DEF KindInv
<1>0. OwnKind(q)
  BY DEF KindInv
<1>1. CASE UNCHANGED vars \/ \E s \in Source : World(s)
  <2>1. UNCHANGED <<rescan_lock, pc, op>>
    BY <1>1 DEF vars, locks, World, Change, MarkDirty, MarkLost, GrowStale, RetryTime
  <2>2. QED
    BY <1>0, <2>1 DEF OwnKind, Underway
<1>2. ASSUME NEW p \in Proc \ {q}, Moves(p)
      PROVE  OwnKind(q)'
  <2>1. pc'[q] = pc[q] /\ op'[q].kind = op[q].kind
    BY <1>2, MovesKeepOthers DEF Others
  <2>2. rescan_lock = q => rescan_lock' = q
    BY <1>2, MoveRescan
  <2>3. QED
    BY <1>0, <2>1, <2>2 DEF OwnKind, Underway
<1>3. CASE Moves(q)
  BY <1>0, <1>3, OwnKindMoves
<1>4. ASSUME NEW ps \in SUBSET Proc, Crash(ps)
      PROVE  OwnKind(q)'
  <2>1. CASE q \in ps
    BY <1>4, <2>1, IdleExports DEF Crash
  <2>2. CASE q \notin ps
    <3>1. pc'[q] = pc[q] /\ op'[q] = op[q] /\ (rescan_lock = q => rescan_lock' = q)
      BY <1>4, <2>2 DEF Crash
    <3>2. QED
      BY <1>0, <3>1 DEF OwnKind, Underway
  <2>3. QED
    BY <2>1, <2>2
<1>5. QED
  BY <1>1, <1>2, <1>3, <1>4, Steps

\* So it holds in every reachable state.
LEMMA KindAlways == Spec => []KindInv
<1>1. Init => KindInv
  BY DEF Init, KindInv, OwnKind, Underway
<1>2. TypeOK /\ LockInv /\ KindInv /\ [Next]_vars => KindInv'
  BY KindStep
<1>3. QED
  BY <1>1, <1>2, TypesAndLocks, PTL DEF Spec

\* A move of a process that is not under way does not touch the snapshot, and moves of
\* one that is leave files alone that others do not have open.
LEMMA OutsideMove ==
    ASSUME TypeOK, NEW p \in Proc, Moves(p), ~Underway(p)
    PROVE  /\ library' = library /\ tmp' = tmp /\ tsv' = tsv
           /\ (marker => marker')
           /\ Underway(p)' => marker'
           /\ pc'[p] \notin {"create", "write", "publish"}
           /\ op'[p].file \in {op[p].file, "none"}
           /\ \A q \in Proc \ {p} : op'[q].rows = op[q].rows /\ op'[q].file = op[q].file
<1>1. pc \in [Proc -> PC] /\ op \in [Proc -> Op] /\ op[p] \in Op
  BY DEF TypeOK, PC
<1>2. CASE User(p) \/ \E batch \in SUBSET Source : StartBackground(p, batch)
  <2>1. ASSUME NEW q \in Proc \ {p}
        PROVE  op'[q].rows = op[q].rows /\ op'[q].file = op[q].file
    <3>1. op[q] \in Op
      BY <1>1
    <3>2. op'[q] = op[q] \/ \E s \in Source : op'[q] = [op[q] EXCEPT !.old = op[q].old \cup {s}]
      <4>1. ASSUME NEW s \in Source, SetRecursive(p, s)
            PROVE  op'[q] = op[q] \/ op'[q] = [op[q] EXCEPT !.old = op[q].old \cup {s}]
        BY <4>1 DEF SetRecursive
      <4>2. CASE ~\E s \in Source : SetRecursive(p, s)
        BY <1>1, <1>2, <4>2 DEF User, RequestRescan, RequestTargeted, RequestAdd,
           RequestRemove, StartBackground
      <4>3. QED
        BY <4>1, <4>2
    <3>3. QED
      BY <3>1, <3>2 DEF Op
  <2>2. ~Underway(p)'
    BY <1>2, Asks DEF Underway
  <2>3. QED
    BY <1>2, <2>1, <2>2, Asks DEF files, Underway
<1>3. CASE AcquireRescan(p) \/ AcquireSource(p)
  <2>1. pc'[p] \in {"marker", "recheck", "begin"} /\ op' = op
    BY <1>1, <1>3 DEF AcquireRescan, AcquireSource
  <2>2. AcquireSource(p) => pc'[p] = "marker"
    BY <1>1 DEF AcquireSource, Underway
  <2>3. ~Underway(p)'
    BY <1>1, <1>3, <2>2 DEF AcquireRescan, Underway
  <2>4. QED
    BY <1>3, <2>1, <2>3 DEF AcquireRescan, AcquireSource, db, files
<1>4. CASE EstablishMarker(p)
  <2>1. marker' /\ UNCHANGED <<library, tmp, tsv>> /\ pc'[p] \in {"remove", "next"}
    BY <1>1, <1>4 DEF EstablishMarker, db
  <2>2. op' = op \/ op' = [op EXCEPT ![p].todo = Present] \/ op' = [op EXCEPT ![p].todo = op[p].todo]
    BY <1>4 DEF EstablishMarker
  <2>3. op'[p].file = op[p].file
    BY <1>1, <2>2 DEF Op
  <2>4. QED
    BY <1>1, <2>1, <2>2, <2>3
<1>5. CASE End(p)
  <2>1. RescanBusy(p) \/ SelectionFails(p) \/ SourceBusy(p)
    <3>1. pc[p] \notin {"next", "recheck", "begin", "scan", "check", "reconcile", "succeed",
                       "fail", "remove", "snapshot", "create", "write", "publish"}
      BY DEF Underway
    <3>2. ~(User(p) \/ \E batch \in SUBSET Source : StartBackground(p, batch))
      BY <1>1, <1>5, Asks DEF End
    <3>3. ~AcquireRescan(p) /\ ~AcquireSource(p) /\ ~EstablishMarker(p)
      BY <1>1, <1>5 DEF End, AcquireRescan, AcquireSource, EstablishMarker
    <3>4. QED
      BY <3>1, <3>2, <3>3 DEF Moves, Step, NextSource, AllDone, Recheck, BeginAttempt,
         ScanComplete, CheckConfig, Reconcile, RecordSuccess, RecordFailure, Remove,
         Snapshot, CreateTmp, WriteTmp, Publish, PublishRefused, ScanFails, Cancelled,
         ExportFails, StorageError
  <2>2. UNCHANGED <<library, files>>
    BY <2>1 DEF RescanBusy, SelectionFails, SourceBusy, db
  <2>3. QED
    BY <1>1, <1>5, <2>2 DEF End, NoOp, files, Underway
<1>6. QED
  <2>1. ~Publish(p) /\ ~PublishRefused(p) /\ ~ExportFails(p)
    BY DEF Publish, PublishRefused, ExportFails, Underway
  <2>2. CASE ~End(p) /\ ~Ends(p)
    BY <1>2, <1>3, <1>4, <2>2, MoveCases, GoesOn
  <2>3. CASE Ends(p) /\ ~End(p)
    <3>1. User(p) \/ (\E batch \in SUBSET Source : StartBackground(p, batch))
          \/ AcquireRescan(p) \/ AcquireSource(p) \/ EstablishMarker(p) \/ Goes(p)
      BY <2>1, <2>3 DEF Moves, Step, Goes, RescanBusy, SelectionFails, Cancelled, StorageError
    <3>2. QED
      BY <1>2, <1>3, <1>4, <2>3, <3>1, GoesOn
  <2>4. QED
    BY <1>5, <2>2, <2>3

\* A process that has nothing open does not come to have it by the move of another one.
LEMMA NothingOpen ==
    ASSUME TypeOK, NEW p \in Proc, Moves(p), NEW q \in Proc \ {p}, op[q].file = "none"
    PROVE  op'[q].file = "none"
<1>1. op[q] \in Op
  BY DEF TypeOK
<1>2. CASE ~Underway(p)
  BY <1>2, OutsideMove
<1>3. CASE Underway(p)
  <2>1. CASE Publish(p) \/ PublishRefused(p) \/ ExportFails(p)
    <3>1. PICK place \in {"tsv", "gone"} : op' = [Moved(place) EXCEPT ![p] = NoOp]
      BY <2>1 DEF Publish, PublishRefused, ExportFails, Degrade
    <3>2. op'[q] = Moved(place)[q]
      BY <3>1, MovedType
    <3>3. QED
      BY <3>2 DEF Moved
  <2>2. CASE ~Publish(p) /\ ~PublishRefused(p) /\ ~ExportFails(p)
    <3>1. ~(User(p) \/ \E batch \in SUBSET Source : StartBackground(p, batch))
      BY <1>3, Asks DEF Underway
    <3>2. op'[q] = op[q]
      BY <2>2, <3>1 DEF Moves, Step, AcquireRescan, RescanBusy, EstablishMarker,
         SelectionFails, NextSource, AllDone, AcquireSource, SourceBusy, Recheck,
         BeginAttempt, ScanComplete, CheckConfig, Reconcile, RecordSuccess, RecordFailure,
         Remove, Snapshot, CreateTmp, WriteTmp, ScanFails, Cancelled, StorageError, End,
         Leave, TypeOK
    <3>3. QED
      BY <3>2
  <2>3. QED
    BY <2>1, <2>2
<1>4. QED
  BY <1>2, <1>3

\* Before its export an operation has its marker only.
LEMMA EarlyExports ==
    ASSUME NEW p \in Proc, pc'[p] \notin {"create", "write", "publish"},
           op'[p].file = "none", Underway(p)' => marker'
    PROVE  Exports(p)'
BY DEF Exports

\* The operation that has library.tsv to itself keeps what it relies on.
LEMMA ExportsMove ==
    ASSUME TypeOK, NEW p \in Proc, Moves(p), Exports(p)
    PROVE  Exports(p)'
<1>1. pc \in [Proc -> PC] /\ op \in [Proc -> Op] /\ op[p] \in Op
  BY DEF TypeOK, PC
<1>2. CASE Ends(p)
  BY <1>2, IdleExports DEF Ends
<1>3. CASE ~Underway(p)
  <2>1. op[p].file = "none"
    BY <1>3 DEF Exports, Underway
  <2>2. QED
    BY <1>3, <2>1, OutsideMove, EarlyExports
<1>4. CASE Underway(p) /\ ~Ends(p)
  <2>1. marker
    BY <1>4 DEF Exports
  <2>2. CASE AcquireSource(p)
    <3>1. marker' /\ op' = op /\ op[p].file = "none"
      BY <2>1, <2>2 DEF AcquireSource, files, Exports
    <3>2. pc'[p] \in {"recheck", "begin", "marker"}
      BY <1>1, <2>2 DEF AcquireSource
    <3>3. QED
      BY <3>1, <3>2, EarlyExports
  <2>3. CASE Goes(p) /\ ~End(p)
    <3>1. marker'
      BY <2>1, <2>3, GoesOn
    <3>2. CASE Snapshot(p)
      <4>1. pc[p] = "snapshot" /\ pc'[p] = "create" /\ library' = library
        BY <1>1, <3>2 DEF Snapshot, db
      <4>2. op'[p].rows = library
        <5>1. op'[p] = [op[p] EXCEPT !.rev = revision, !.rows = library]
          BY <1>1, <3>2 DEF Snapshot
        <5>2. QED
          BY <1>1, <5>1 DEF Op
      <4>3. op'[p].file = "none"
        BY <2>3, <3>2, <4>1, GoesOn DEF Exports, Snapshot, CreateTmp
      <4>4. QED
        BY <3>1, <4>1, <4>2, <4>3 DEF Exports
    <3>3. CASE CreateTmp(p)
      <4>1. pc[p] = "create" /\ pc'[p] = "write" /\ library' = library /\ tmp' = Partial
        BY <1>1, <3>3 DEF CreateTmp, db
      <4>2. op'[p].rows = library /\ op'[p].file = "tmp"
        <5>1. op'[p] = [op[p] EXCEPT !.file = "tmp"]
          BY <1>1, <3>3 DEF CreateTmp
        <5>2. QED
          BY <1>1, <4>1, <5>1 DEF Op, Exports
      <4>3. QED
        BY <3>1, <4>1, <4>2 DEF Exports
    <3>4. CASE WriteTmp(p)
      <4>1. /\ pc[p] = "write" /\ pc'[p] = "publish" /\ library' = library /\ op' = op
            /\ op[p].file = "tmp" /\ tmp = Partial /\ op[p].rows = library
        BY <1>1, <3>4 DEF WriteTmp, db, Exports
      <4>2. tmp' \in Written(Partial, op[p].rows)
        BY <3>4, <4>1 DEF WriteTmp
      <4>3. tmp' = op[p].rows
        BY <4>2 DEF Written
      <4>4. QED
        BY <3>1, <4>1, <4>3 DEF Exports
    <3>5. CASE ~Snapshot(p) /\ ~CreateTmp(p) /\ ~WriteTmp(p)
      <4>1. /\ pc'[p] \notin {"create", "write", "publish"}
            /\ pc[p] \notin {"create", "write", "publish"}
        BY <1>1, <2>3, <3>5 DEF Goes, NextSource, AllDone, SourceBusy, Recheck,
           BeginAttempt, ScanComplete, ScanFails, CheckConfig, Reconcile, RecordSuccess,
           RecordFailure, Remove, Leave
      <4>2. op'[p].file = "none"
        BY <2>3, <3>5, <4>1, GoesOn DEF Exports
      <4>3. QED
        BY <3>1, <4>1, <4>2, EarlyExports
    <3>6. QED
      BY <3>2, <3>3, <3>4, <3>5
  <2>4. CASE EstablishMarker(p) \/ AcquireRescan(p)
    BY <1>4, <2>4 DEF EstablishMarker, AcquireRescan, Underway
  <2>5. CASE User(p) \/ \E batch \in SUBSET Source : StartBackground(p, batch)
    BY <1>4, <2>5, Asks DEF Underway
  <2>6. QED
    BY <1>4, <2>2, <2>3, <2>4, <2>5, MoveCases
<1>5. QED
  BY <1>2, <1>3, <1>4

\* The marker goes with a publication of the current rows only.
LEMMA MarkerMove ==
    ASSUME TypeOK, NEW p \in Proc, Moves(p), Exports(p), StaleMarked
    PROVE  StaleMarked'
<1>1. CASE ~Underway(p)
  <2>1. tsv' = tsv /\ library' = library /\ (marker => marker')
    BY <1>1, OutsideMove
  <2>2. QED
    BY <2>1 DEF StaleMarked
<1>2. CASE Underway(p) /\ ~Publish(p)
  <2>1. marker
    BY <1>2 DEF Exports
  <2>2. marker' = marker \/ marker'
    <3>1. CASE User(p) \/ \E batch \in SUBSET Source : StartBackground(p, batch)
      BY <3>1, Asks DEF files
    <3>2. CASE Step(p) \/ ScanFails(p) \/ Cancelled(p) \/ ExportFails(p) \/ StorageError(p)
      BY <1>2, <3>2 DEF Step, AcquireRescan, RescanBusy, EstablishMarker, SelectionFails,
         NextSource, AllDone, AcquireSource, SourceBusy, Recheck, BeginAttempt,
         ScanComplete, CheckConfig, Reconcile, RecordSuccess, RecordFailure, Remove,
         Snapshot, CreateTmp, WriteTmp, PublishRefused, ScanFails, Cancelled, ExportFails,
         StorageError, Degrade, files
    <3>3. QED
      BY <3>1, <3>2 DEF Moves
  <2>3. QED
    BY <2>1, <2>2 DEF StaleMarked
<1>3. CASE Publish(p)
  BY <1>3 DEF Publish, Exports, StaleMarked, db
<1>4. QED
  BY <1>1, <1>2, <1>3

\* An operation that is not alone any more is an overlap, but for two full rescans.
LEMMA AloneNext ==
    ASSUME KindInv', ~Overlap'
    PROVE  Alone'
BY DEF KindInv, OwnKind, Overlap, Alone

\* A step after which no operations run into each other keeps the invariant.
LEMMA AloneStep ==
    ASSUME TypeOK, LockInv, KindInv, AloneInv, [Next]_vars, ~Overlap'
    PROVE  AloneInv'
<1>1. Alone'
  BY KindStep, AloneNext
<1>2. CASE UNCHANGED vars \/ \E s \in Source : World(s)
  <2>1. UNCHANGED <<library, files, pc, op>>
    BY <1>2 DEF vars, db, World, Change, MarkDirty, MarkLost, GrowStale, RetryTime
  <2>2. QED
    BY <1>1, <2>1 DEF AloneInv, StaleMarked, Exports, Underway, files
<1>3. ASSUME NEW p \in Proc, Moves(p)
      PROVE  AloneInv'
  <2>1. StaleMarked' /\ Exports(p)'
    BY <1>3, ExportsMove, MarkerMove DEF AloneInv
  <2>2. ASSUME NEW q \in Proc \ {p}
        PROVE  Exports(q)'
    <3>1. pc'[q] = pc[q] /\ op'[q].kind = op[q].kind /\ Exports(q)
      BY <1>3, MovesKeepOthers DEF Others, AloneInv
    <3>2. CASE Underway(q)
      <4>1. ~Underway(p)
        BY <3>2 DEF AloneInv, Alone
      <4>2. /\ tmp' = tmp /\ library' = library /\ (marker => marker')
            /\ op'[q].rows = op[q].rows /\ op'[q].file = op[q].file
        BY <1>3, <4>1, OutsideMove
      <4>3. QED
        BY <3>1, <3>2, <4>2 DEF Exports
    <3>3. CASE ~Underway(q)
      <4>1. pc[q] \notin {"create", "write", "publish"} /\ op[q].file = "none"
        BY <3>1, <3>3 DEF Underway, Exports
      <4>2. op'[q].file = "none" /\ ~Underway(q)'
        BY <1>3, <3>1, <3>3, <4>1, NothingOpen DEF Underway
      <4>3. QED
        BY <3>1, <4>1, <4>2, EarlyExports
    <3>4. QED
      BY <3>2, <3>3
  <2>3. QED
    BY <1>1, <2>1, <2>2 DEF AloneInv
<1>4. ASSUME NEW ps \in SUBSET Proc, Crash(ps)
      PROVE  AloneInv'
  <2>1. UNCHANGED <<library, marker, tmp, tsv>>
    BY <1>4 DEF Crash, db, files
  <2>2. ASSUME NEW q \in Proc
        PROVE  Exports(q)'
    <3>1. CASE q \in ps
      BY <1>4, <3>1, IdleExports DEF Crash
    <3>2. CASE q \notin ps
      <4>1. pc'[q] = pc[q] /\ op'[q] = op[q] /\ Exports(q)
        BY <1>4, <3>2 DEF Crash, AloneInv
      <4>2. QED
        BY <2>1, <4>1 DEF Exports, Underway
    <3>3. QED
      BY <3>1, <3>2
  <2>3. QED
    BY <1>1, <2>1, <2>2 DEF AloneInv, StaleMarked
<1>5. QED
  BY <1>2, <1>3, <1>4, Steps

\* At the start library.tsv is what SQLite lists.
LEMMA InitAlone == Init => AloneInv
BY DEF Init, AloneInv, StaleMarked, Alone, Exports, Underway, NoOp

\* As long as no operation ran into another one, library.tsv is what SQLite lists or
\* library.dirty says that it is not: whatever fails and crashes in between. Full rescans
\* never do, those of other processes included.
THEOREM AloneIsMarked == SnapshotSpec => []AloneStaleMarked
<1>1. SnapshotSpec => Spec
  <2>1. SnapshotInit => Init
    BY DEF SnapshotInit
  <2>2. [SnapshotNext]_snapshotVars => [Next]_vars
    BY DEF SnapshotNext, snapshotVars
  <2>3. QED
    BY <2>1, <2>2, PTL DEF SnapshotSpec, Spec
<1>2. SnapshotInit => (~overlapped => AloneInv)
  BY InitAlone DEF SnapshotInit
<1>3. TypeOK /\ LockInv /\ KindInv /\ (~overlapped => AloneInv) /\ [SnapshotNext]_snapshotVars
        => (~overlapped => AloneInv)'
  <2> SUFFICES ASSUME TypeOK, LockInv, KindInv, ~overlapped => AloneInv,
                      [SnapshotNext]_snapshotVars, ~overlapped'
               PROVE  AloneInv'
    OBVIOUS
  <2>1. CASE SnapshotNext
    <3>1. ~overlapped /\ ~Overlap' /\ [Next]_vars
      BY <2>1 DEF SnapshotNext, NoteOverlap
    <3>2. QED
      BY <3>1, AloneStep
  <2>2. CASE UNCHANGED snapshotVars
    <3>1. UNCHANGED <<pc, op, library, marker, tmp, tsv>> /\ AloneInv
      BY <2>2 DEF snapshotVars, vars, db, files
    <3>2. QED
      BY <3>1 DEF AloneInv, StaleMarked, Alone, Exports, Underway
  <2>3. QED
    BY <2>1, <2>2
<1>4. (~overlapped => AloneInv) => AloneStaleMarked
  BY DEF AloneStaleMarked, AloneInv
<1>5. QED
  BY <1>1, <1>2, <1>3, <1>4, TypesAndLocks, KindAlways, PTL DEF SnapshotSpec

\* So where nothing but full rescans is requested, the snapshot is current or marked for
\* good.
THEOREM RescansAreMarked ==
    ASSUME Kinds \subseteq {"rescan"}
    PROVE  Spec => []StaleMarked
<1>1. KindInv' => ~Overlap'
  BY DEF KindInv, OwnKind, Overlap, Underway
<1>2. TypeOK /\ LockInv /\ KindInv /\ AloneInv /\ [Next]_vars => AloneInv'
  BY <1>1, KindStep, AloneStep
<1>3. AloneInv => StaleMarked
  BY DEF AloneInv
<1>4. QED
  BY <1>2, <1>3, InitAlone, TypesAndLocks, KindAlways, PTL DEF Spec

\* An export knows the rows of its revision: as long as the revision of the database is
\* that of its snapshot, so are the rows.
RowsOfRevision(p) ==
    /\ op[p].rev <= revision
    /\ pc[p] \in {"create", "write", "publish"} /\ op[p].rev = revision => op[p].rows = library

\* Every commit that changes what is listed bumps the revision.
LEMMA RevisionStep ==
    ASSUME TypeOK, [Next]_vars
    PROVE  /\ revision \in Nat /\ revision' \in Nat /\ revision <= revision'
           /\ library' # library => revision < revision'
<1>1. revision \in Nat
  BY DEF TypeOK
<1>2. CASE \/ UNCHANGED vars
           \/ \E s \in Source : World(s)
           \/ \E ps \in SUBSET Proc : Crash(ps)
  BY <1>1, <1>2 DEF vars, db, World, Change, MarkDirty, MarkLost, GrowStale, RetryTime, Crash
<1>3. ASSUME NEW p \in Proc, Moves(p)
      PROVE  revision' = revision + 1 \/ (revision' = revision /\ library' = library)
  <2>1. CASE User(p) \/ \E batch \in SUBSET Source : StartBackground(p, batch)
    BY <2>1 DEF User, RequestRescan, RequestTargeted, RequestAdd, SetRecursive, RequestRemove,
       StartBackground, db
  <2>2. CASE Step(p) \/ ScanFails(p) \/ Cancelled(p) \/ ExportFails(p) \/ StorageError(p)
    BY <2>2 DEF Step, AcquireRescan, RescanBusy, EstablishMarker, SelectionFails,
       NextSource, AllDone, AcquireSource, SourceBusy, Recheck, BeginAttempt, ScanComplete,
       CheckConfig, Reconcile, RecordSuccess, RecordFailure, Remove, Snapshot, CreateTmp,
       WriteTmp, Publish, PublishRefused, ScanFails, Cancelled, ExportFails, StorageError,
       Degrade, db
  <2>3. QED
    BY <1>3, <2>1, <2>2 DEF Moves
<1>4. QED
  BY <1>1, <1>2, <1>3, Steps

\* The snapshot of a process is its own.
LEMMA SnapshotOfOthers ==
    ASSUME TypeOK, NEW p \in Proc, Moves(p), NEW q \in Proc \ {p}
    PROVE  op'[q].rev = op[q].rev /\ op'[q].rows = op[q].rows
<1>1. op[q] \in Op
  BY DEF TypeOK
<1>2. CASE Publish(p) \/ PublishRefused(p) \/ ExportFails(p)
  <2>1. PICK place \in {"tsv", "gone"} : op' = [Moved(place) EXCEPT ![p] = NoOp]
    BY <1>2 DEF Publish, PublishRefused, ExportFails, Degrade
  <2>2. op'[q] = Moved(place)[q]
    BY <2>1, MovedType
  <2>3. QED
    BY <1>1, <2>2 DEF Moved, Op
<1>3. ASSUME NEW s \in Source, SetRecursive(p, s)
      PROVE  op'[q].rev = op[q].rev /\ op'[q].rows = op[q].rows
  <2>1. op'[q] = op[q] \/ op'[q] = [op[q] EXCEPT !.old = op[q].old \cup {s}]
    BY <1>3 DEF SetRecursive
  <2>2. QED
    BY <1>1, <2>1 DEF Op
<1>4. CASE /\ ~Publish(p) /\ ~PublishRefused(p) /\ ~ExportFails(p)
           /\ ~\E s \in Source : SetRecursive(p, s)
  <2>1. op'[q] = op[q]
    BY <1>4 DEF Moves, User, RequestRescan, RequestTargeted, RequestAdd, RequestRemove,
       StartBackground, Step, AcquireRescan, RescanBusy, EstablishMarker, SelectionFails,
       NextSource, AllDone, AcquireSource, SourceBusy, Recheck, BeginAttempt, ScanComplete,
       CheckConfig, Reconcile, RecordSuccess, RecordFailure, Remove, Snapshot, CreateTmp,
       WriteTmp, ScanFails, Cancelled, StorageError, End, Leave, TypeOK
  <2>2. QED
    BY <2>1
<1>5. QED
  BY <1>2, <1>3, <1>4

\* A process takes its snapshot, keeps it for the export, or is not exporting.
LEMMA SnapshotOwn ==
    ASSUME TypeOK, NEW p \in Proc, Moves(p)
    PROVE  \/ Snapshot(p)
           \/ op'[p].rev \in {op[p].rev, 0} /\ pc'[p] \notin {"create", "write", "publish"}
           \/ /\ pc[p] \in {"create", "write"}
              /\ op'[p].rev = op[p].rev /\ op'[p].rows = op[p].rows
<1>1. pc \in [Proc -> PC] /\ op \in [Proc -> Op] /\ op[p] \in Op
  BY DEF TypeOK, PC
<1>2. CASE Ends(p)
  BY <1>2 DEF Ends, NoOp
<1>3. CASE User(p) \/ \E batch \in SUBSET Source : StartBackground(p, batch)
  <2>1. op'[p].rev = op[p].rev
    <3>1. ASSUME NEW s \in Source, SetRecursive(p, s)
          PROVE  op'[p].rev = op[p].rev
      <4>1. op'[p] = [op[p] EXCEPT !.kind = "recursive", !.todo = {s}]
        BY <3>1 DEF SetRecursive
      <4>2. QED
        BY <1>1, <4>1 DEF Op
    <3>2. CASE ~\E s \in Source : SetRecursive(p, s)
      BY <1>1, <1>3, <3>2 DEF User, RequestRescan, RequestTargeted, RequestAdd, RequestRemove,
         StartBackground, Op
    <3>3. QED
      BY <3>1, <3>2
  <2>2. QED
    BY <1>3, <2>1, Asks
<1>4. CASE AcquireRescan(p) \/ AcquireSource(p)
  BY <1>1, <1>4 DEF AcquireRescan, AcquireSource
<1>5. CASE EstablishMarker(p)
  BY <1>1, <1>5 DEF EstablishMarker, Op
<1>6. CASE Goes(p) /\ ~End(p)
  <2>1. CASE CreateTmp(p) \/ WriteTmp(p)
    BY <1>1, <2>1 DEF CreateTmp, WriteTmp, Op
  <2>2. CASE ~CreateTmp(p) /\ ~WriteTmp(p) /\ ~Snapshot(p)
    <3>1. pc'[p] \notin {"create", "write", "publish"}
      BY <1>1, <1>6, <2>2 DEF Goes, NextSource, AllDone, SourceBusy, Recheck, BeginAttempt,
         ScanComplete, ScanFails, CheckConfig, Reconcile, RecordSuccess, RecordFailure,
         Remove, Leave
    <3>2. op'[p].rev = op[p].rev
      <4>1. CASE NextSource(p)
        <5>1. \/ op' = op
              \/ \E s \in op[p].todo : \/ op' = [op EXCEPT ![p].todo = @ \ {s}]
                                       \/ op' = [op EXCEPT ![p].todo = @ \ {s}, ![p].src = s]
          BY <1>6, <4>1 DEF NextSource
        <5>2. \/ op'[p] = op[p]
              \/ \E s \in op[p].todo : \/ op'[p] = [op[p] EXCEPT !.todo = op[p].todo \ {s}]
                                       \/ op'[p] = [op[p] EXCEPT !.todo = op[p].todo \ {s}, !.src = s]
          BY <1>1, <5>1
        <5>3. QED
          BY <1>1, <5>2 DEF Op
      <4>2. CASE op' = op \/ op' = [op EXCEPT ![p].src = None] \/ Leave(p)
        BY <1>1, <4>2 DEF Leave, Op
      <4>3. CASE ScanComplete(p)
        BY <1>1, <4>3 DEF ScanComplete, Op
      <4>4. QED
        BY <1>6, <2>2, <4>1, <4>2, <4>3 DEF Goes, AllDone, SourceBusy, Recheck, BeginAttempt,
           ScanFails, CheckConfig, Reconcile, RecordSuccess, RecordFailure, Remove, locks
    <3>3. QED
      BY <3>1, <3>2
  <2>3. QED
    BY <2>1, <2>2
<1>7. QED
  BY <1>2, <1>3, <1>4, <1>5, <1>6, MoveCases

RevInv == \A p \in Proc : RowsOfRevision(p)

\* So it stays.
LEMMA RevStep == TypeOK /\ LockInv /\ RevInv /\ [Next]_vars => RevInv'
<1> SUFFICES ASSUME TypeOK, LockInv, RevInv, [Next]_vars, NEW q \in Proc
             PROVE  RowsOfRevision(q)'
  BY DEF RevInv
<1>1. /\ revision \in Nat /\ revision' \in Nat /\ revision <= revision'
      /\ library' # library => revision < revision'
  BY RevisionStep
<1>2. RowsOfRevision(q) /\ op[q].rev \in Nat
  BY DEF RevInv, TypeOK, Op
<1>3. ASSUME op'[q].rev = op[q].rev, op'[q].rows = op[q].rows,
             pc'[q] \in {"create", "write", "publish"} => pc[q] \in {"create", "write", "publish"}
      PROVE  RowsOfRevision(q)'
  BY <1>1, <1>2, <1>3 DEF RowsOfRevision
<1>4. ASSUME op'[q].rev \in {op[q].rev, 0}, pc'[q] \notin {"create", "write", "publish"}
      PROVE  RowsOfRevision(q)'
  BY <1>1, <1>2, <1>4 DEF RowsOfRevision
<1>5. CASE UNCHANGED vars \/ \E s \in Source : World(s)
  <2>1. pc' = pc /\ op' = op
    BY <1>5 DEF vars, World, Change, MarkDirty, MarkLost, GrowStale, RetryTime
  <2>2. QED
    BY <1>3, <2>1
<1>6. ASSUME NEW p \in Proc \ {q}, Moves(p)
      PROVE  RowsOfRevision(q)'
  <2>1. op'[q].rev = op[q].rev /\ op'[q].rows = op[q].rows
    BY <1>6, SnapshotOfOthers
  <2>2. pc'[q] = pc[q]
    BY <1>6, MovesKeepOthers DEF Others
  <2>3. QED
    BY <1>3, <2>1, <2>2
<1>7. CASE Moves(q)
  <2>1. CASE Snapshot(q)
    <3>1. /\ op'[q] = [op[q] EXCEPT !.rev = revision, !.rows = library]
          /\ library' = library /\ revision' = revision
      BY <2>1 DEF Snapshot, TypeOK, db
    <3>2. op'[q].rev = revision /\ op'[q].rows = library
      BY <3>1 DEF TypeOK, Op
    <3>3. QED
      BY <1>1, <3>1, <3>2 DEF RowsOfRevision
  <2>2. CASE ~Snapshot(q)
    BY <1>3, <1>4, <1>7, <2>2, SnapshotOwn
  <2>3. QED
    BY <2>1, <2>2
<1>8. ASSUME NEW ps \in SUBSET Proc, Crash(ps)
      PROVE  RowsOfRevision(q)'
  <2>1. CASE q \in ps
    <3>1. op'[q].rev = 0 /\ pc'[q] = "idle"
      BY <1>8, <2>1 DEF Crash, NoOp
    <3>2. QED
      BY <1>4, <3>1
  <2>2. CASE q \notin ps
    BY <1>3, <1>8, <2>2 DEF Crash
  <2>3. QED
    BY <2>1, <2>2
<1>9. QED
  BY <1>5, <1>6, <1>7, <1>8, Steps

\* A process publishes only while its snapshot is still what SQLite lists, whoever else
\* committed, published or failed since it was taken. (What the temporary file holds by
\* then is another matter: see QuietStaleMarked.)
THEOREM CurrentIsPublished == Spec => [][\A p \in Proc : Publish(p) => op[p].rows = library]_vars
<1>1. Init => RevInv
  <2>1. Init => \A p \in Proc : op[p].rev = 0 /\ pc[p] = "idle" /\ revision = 1
    BY DEF Init, NoOp
  <2>2. QED
    BY <2>1 DEF RevInv, RowsOfRevision
<1>2. TypeOK /\ LockInv /\ RevInv /\ [Next]_vars => RevInv'
  BY RevStep
<1>3. RevInv => [\A p \in Proc : Publish(p) => op[p].rows = library]_vars
  BY DEF RevInv, RowsOfRevision, Publish
<1>4. QED
  BY <1>1, <1>2, <1>3, TypesAndLocks, PTL DEF Spec
=============================================================================
