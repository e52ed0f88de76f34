------------------------- MODULE LibraryServiceProofs -------------------------
(***************************************************************************)
(* Proofs about DatabaseFile and LibraryService: no connection outlives    *)
(* its file; the files are the one library that SharedLibrary describes;   *)
(* pages show the revision they are kept for; loads that are shared have a *)
(* leader; and pages that are out of date are noticed.                     *)
(***************************************************************************)
EXTENDS LibraryService, SequenceTheorems, FiniteSetTheorems, TLAPS

-----------------------------------------------------------------------------
\* The database file and its connections.

\* Every step of the service that touches the database.
FileStep ==
    \/ \E t \in Client : TakeIdle(t) \/ OpenFresh(t) \/ ReturnLease(t)
    \/ \E p \in Process :
          InvalidateConnections(p) /\ UNCHANGED <<copies, exclusive, lease, task>>
    \/ LocalCommit
    \/ /\ exclusive = {}
       /\ copies' = [copies EXCEPT ![Current] = @ + 1]
       /\ UNCHANGED <<exclusive, cacheGen, idle, lease, task>>
    \/ /\ exclusive = {}
       /\ idle' = [idle EXCEPT ![GuiProcess] = StorageCall]
       /\ UNCHANGED <<copies, exclusive, cacheGen, lease, task>>
    \/ \E m \in Maintainer :
          \/ Stage(m) \/ LockDatabase(m) \/ LockTimesOut(m)
          \/ PublishDatabase(m) \/ AbandonMaintenance(m)

\* Connections are of the file that is there; nobody is connected while it is being
\* replaced; and who replaces it has the lock and knows the revision it replaces.
FileInv ==
    /\ ConnectionsCurrent
    /\ exclusive # {} => ~SharedLocked
    /\ \A m \in exclusive : exclusive = {m} /\ task[m].pc = "locked"
    /\ \A m \in Maintainer : task[m].pc = "locked" => m \in exclusive /\ task[m].seen = Revision

LEMMA FileStepOnly == LibraryNext => FileStep \/ UNCHANGED database
<1>. SUFFICES ASSUME LibraryNext PROVE FileStep \/ UNCHANGED database
  OBVIOUS
<1>1. ASSUME NEW t \in Client, ReaderStep(t) PROVE FileStep \/ UNCHANGED database
  BY <1>1 DEF ReaderStep, Open, OpenFails, OpenTimesOut, Join, Load, LoadFails, Land, Close, FileStep, database
<1>2. ASSUME NEW t \in Client, NEW q \in Query, Ask(t, q) PROVE UNCHANGED database
  BY <1>2 DEF Ask
<1>3. CASE LocalWrite
  BY <1>3 DEF LocalWrite, FileStep
<1>4. CASE ExternalWrite
  BY <1>4 DEF ExternalWrite, FileStep
<1>5. CASE BuildIndex
  BY <1>5 DEF BuildIndex, FileStep
<1>6. CASE LocalInvalidate \/ RoundPublished \/ ObserverTick \/ Observe \/ ObserveFails
  BY <1>6 DEF LocalInvalidate, RoundPublished, ObserverTick, Observe, ObserveFails
<1>7. ASSUME NEW m \in Pauser, PauseStep(m) PROVE FileStep \/ UNCHANGED database
  BY <1>7, GuiAssumption DEF PauseStep, FileStep, service
<1>8. ASSUME NEW m \in Maintainer, MaintenanceStep(m) \/ MaintenanceFails(m) PROVE FileStep
  BY <1>8 DEF MaintenanceStep, MaintenanceFails, FileStep
<1>. QED
  BY <1>1, <1>2, <1>3, <1>4, <1>5, <1>6, <1>7, <1>8 DEF LibraryNext

\* The revision of a well-typed database is a number.
LEMMA RevisionType == DatabaseTypeOK => Current \in Nat \ {0} /\ Revision \in Nat
<1>. SUFFICES ASSUME DatabaseTypeOK PROVE Current \in Nat \ {0} /\ Revision \in Nat
  OBVIOUS
<1>1. copies \in Seq(Nat) /\ copies # <<>>
  BY DEF DatabaseTypeOK
<1>2. Len(copies) \in Nat /\ Len(copies) # 0
  BY <1>1, LenProperties, EmptySeq
<1>3. copies[Len(copies)] \in Nat
  BY <1>1, <1>2, ElementOfSeq
<1>. QED
  BY <1>2, <1>3 DEF Current, Revision

\* A commit through the file that is there.
LEMMA CommitType ==
    ASSUME DatabaseTypeOK, copies' = [copies EXCEPT ![Current] = @ + 1]
    PROVE  /\ copies' \in Seq(Nat) /\ copies' # <<>>
           /\ Current' = Current /\ Revision' = Revision + 1
<1>. /\ copies \in Seq(Nat) /\ copies # <<>>
     /\ Current \in 1 .. Len(copies) /\ Revision \in Nat /\ Revision + 1 \in Nat
  BY RevisionType DEF DatabaseTypeOK, Current
<1>0. copies' = [copies EXCEPT ![Current] = Revision + 1]
  BY DEF Revision
<1>1. /\ copies' \in Seq(Nat)
      /\ Len(copies') = Len(copies)
      /\ \A j \in 1 .. Len(copies) : copies'[j] = IF j = Current THEN Revision + 1 ELSE copies[j]
  BY <1>0, ExceptSeq DEF Current
<1>2. copies' # <<>>
  BY <1>1, EmptySeq, LenProperties, RevisionType DEF Current
<1>. QED
  BY <1>1, <1>2 DEF Current, Revision

\* The file is replaced.
LEMMA PublishType ==
    ASSUME DatabaseTypeOK, FileInv, NEW m \in Maintainer, PublishDatabase(m)
    PROVE  /\ copies' \in Seq(Nat) /\ copies' # <<>>
           /\ Current' = Current + 1 /\ Revision' \in Nat /\ Revision' > Revision
<1>1. task[m].seen = Revision
  BY DEF PublishDatabase, Advance, FileInv
<1>2. PICK c \in Candidate : copies' = Append(copies, NextRevision(m, c))
  BY DEF PublishDatabase
<1>3. NextRevision(m, c) \in Nat /\ NextRevision(m, c) > Revision
  BY <1>1, RevisionType, CandidateAssumption DEF NextRevision, LargerOf
<1>4. copies \in Seq(Nat)
  BY DEF DatabaseTypeOK
<1>5. /\ copies' \in Seq(Nat) /\ copies' # <<>>
      /\ Len(copies') = Len(copies) + 1
      /\ copies'[Len(copies) + 1] = NextRevision(m, c)
  BY <1>2, <1>3, <1>4, AppendProperties
<1>. QED
  BY <1>3, <1>5 DEF Current, Revision

-----------------------------------------------------------------------------
\* The types and the invariant of the database, step by step.

\* Connections that are opened, used again, returned or invalidated.
LEMMA ConnectionStep ==
    ASSUME DatabaseTypeOK, FileInv, UNCHANGED <<copies, exclusive>>,
           idle' \in [Process -> SUBSET Connection], lease' \in [Client -> SUBSET Connection],
           cacheGen' \in [Process -> Nat],
           task' \in [Maintainer -> [pc : {"new", "lock", "locked", "over"}, seen : Nat]],
           \A m \in Maintainer : task[m].pc = "locked" \/ task'[m].pc = "locked" => task'[m] = task[m],
           \A p \in Process : \A c \in idle'[p] : c.file = Current,
           \A t \in Client : \A c \in lease'[t] : c.file = Current,
           exclusive # {} => ~SharedLocked'
    PROVE  DatabaseTypeOK' /\ FileInv'
<1>1. DatabaseTypeOK'
  BY DEF DatabaseTypeOK
<1>2. Current' = Current /\ Revision' = Revision
  BY DEF Current, Revision
<1>3. ConnectionsCurrent'
  BY <1>2 DEF ConnectionsCurrent
<1>4. exclusive \subseteq Maintainer
  BY DEF DatabaseTypeOK
<1>5. \A m \in exclusive' : exclusive' = {m} /\ task'[m].pc = "locked"
  BY <1>4 DEF FileInv
<1>6. \A m \in Maintainer : task'[m].pc = "locked" => m \in exclusive' /\ task'[m].seen = Revision'
  BY <1>2 DEF FileInv
<1>. QED
  BY <1>1, <1>3, <1>5, <1>6 DEF FileInv

\* A commit, with or without a connection of its own that stays open.
LEMMA CommitStep ==
    ASSUME DatabaseTypeOK, FileInv, exclusive = {}, copies' = [copies EXCEPT ![Current] = @ + 1],
           UNCHANGED <<exclusive, cacheGen, lease, task>>,
           idle' \in [Process -> SUBSET Connection],
           \A p \in Process : \A c \in idle'[p] : c.file = Current
    PROVE  DatabaseTypeOK' /\ FileInv'
<1>1. /\ copies' \in Seq(Nat) /\ copies' # <<>>
      /\ Current' = Current /\ Revision' = Revision + 1
  BY CommitType
<1>2. DatabaseTypeOK'
  BY <1>1 DEF DatabaseTypeOK
<1>3. ConnectionsCurrent'
  BY <1>1 DEF ConnectionsCurrent, FileInv
<1>4. \A m \in Maintainer : task'[m].pc # "locked"
  BY DEF FileInv
<1>. QED
  BY <1>2, <1>3, <1>4 DEF FileInv

\* What a call of the storage connects to is the file that is there.
LEMMA StorageCallType ==
    ASSUME DatabaseTypeOK, FileInv
    PROVE  StorageCall \in SUBSET Connection /\ \A c \in StorageCall : c.file = Current
<1>1. GuiProcess \in Process
  BY GuiAssumption
<1>2. idle[GuiProcess] \in SUBSET Connection /\ cacheGen[GuiProcess] \in Nat
  BY <1>1 DEF DatabaseTypeOK
<1>3. \A c \in idle[GuiProcess] : c.file = Current
  BY <1>1 DEF FileInv, ConnectionsCurrent
<1>4. Current \in Nat
  BY RevisionType
<1>. QED
  BY <1>2, <1>3, <1>4 DEF StorageCall, Connection

LEMMA FileStepInv ==
    ASSUME DatabaseTypeOK, FileInv, FileStep
    PROVE  DatabaseTypeOK' /\ FileInv'
<1>. USE DEF DatabaseTypeOK
<1>0. /\ Current \in Nat /\ GuiProcess \in Process
      /\ ConnectionsCurrent
  BY RevisionType, GuiAssumption DEF FileInv
<1>1. ASSUME NEW t \in Client, TakeIdle(t) PROVE DatabaseTypeOK' /\ FileInv'
  <2>. DEFINE p == ProcessOf[t]
  <2>1. p \in Process
    BY ProcessesAssumption
  <2>2. PICK c \in idle[p] : TRUE
    BY <1>1 DEF TakeIdle
  <2>3. exclusive = {}
    BY <2>1, <2>2 DEF FileInv, SharedLocked
  <2>4. /\ lease' \in [Client -> SUBSET Connection]
        /\ idle' \in [Process -> SUBSET Connection]
    BY <1>1, <2>1 DEF TakeIdle
  <2>5. /\ \A q \in Process : \A d \in idle'[q] : d.file = Current
        /\ \A u \in Client : \A d \in lease'[u] : d.file = Current
    BY <1>0, <1>1, <2>1 DEF TakeIdle, ConnectionsCurrent
  <2>. QED
    BY <1>1, <2>3, <2>4, <2>5, ConnectionStep DEF TakeIdle
<1>2. ASSUME NEW t \in Client, OpenFresh(t) PROVE DatabaseTypeOK' /\ FileInv'
  <2>. DEFINE p == ProcessOf[t]
  <2>1. p \in Process /\ cacheGen[p] \in Nat
    BY ProcessesAssumption
  <2>2. [gen |-> cacheGen[p], file |-> Current] \in Connection
    BY <1>0, <2>1 DEF Connection
  <2>4. /\ lease' \in [Client -> SUBSET Connection]
        /\ idle' \in [Process -> SUBSET Connection]
    BY <1>2, <2>1, <2>2 DEF OpenFresh
  <2>5. /\ \A q \in Process : \A d \in idle'[q] : d.file = Current
        /\ \A u \in Client : \A d \in lease'[u] : d.file = Current
    BY <1>0, <1>2, <2>1 DEF OpenFresh, ConnectionsCurrent
  <2>. QED
    BY <1>2, <2>4, <2>5, ConnectionStep DEF OpenFresh
<1>3. ASSUME NEW t \in Client, ReturnLease(t) PROVE DatabaseTypeOK' /\ FileInv'
  <2>. DEFINE p == ProcessOf[t]
  <2>1. p \in Process
    BY ProcessesAssumption
  <2>2. Returned(t) \in SUBSET Connection /\ \A c \in Returned(t) : c.file = Current
    BY <1>0, <2>1 DEF Returned, ConnectionsCurrent
  <2>3. ~SharedLocked => Returned(t) = {}
    BY <2>1 DEF SharedLocked, Returned
  <2>4. /\ lease' \in [Client -> SUBSET Connection]
        /\ idle' \in [Process -> SUBSET Connection]
    BY <1>3, <2>1, <2>2 DEF ReturnLease
  <2>5. /\ \A q \in Process : \A d \in idle'[q] : d.file = Current
        /\ \A u \in Client : \A d \in lease'[u] : d.file = Current
    BY <1>0, <1>3, <2>1, <2>2 DEF ReturnLease, ConnectionsCurrent
  <2>6. ~SharedLocked => ~SharedLocked'
    BY <1>3, <2>1, <2>3 DEF ReturnLease, SharedLocked
  <2>. QED
    BY <1>3, <2>4, <2>5, <2>6, ConnectionStep DEF ReturnLease, FileInv
<1>4. ASSUME NEW p \in Process, InvalidateConnections(p), UNCHANGED <<copies, exclusive, lease>>,
             task' \in [Maintainer -> [pc : {"new", "lock", "locked", "over"}, seen : Nat]],
             \A m \in Maintainer : task[m].pc = "locked" \/ task'[m].pc = "locked" => task'[m] = task[m]
      PROVE  DatabaseTypeOK' /\ FileInv'
  <2>1. /\ idle' \in [Process -> SUBSET Connection] /\ cacheGen' \in [Process -> Nat]
        /\ \A q \in Process : idle'[q] \subseteq idle[q]
    BY <1>4 DEF InvalidateConnections
  <2>2. ~SharedLocked => ~SharedLocked'
    BY <1>4, <2>1 DEF SharedLocked
  <2>. QED
    BY <1>0, <1>4, <2>1, <2>2, ConnectionStep DEF FileInv, ConnectionsCurrent
<1>5. CASE LocalCommit
  <2>1. PICK c \in StorageCall : copies' = CommittedOn(c)
    BY <1>5 DEF LocalCommit
  <2>2. copies' = [copies EXCEPT ![Current] = @ + 1]
    BY <2>1, StorageCallType DEF CommittedOn
  <2>3. /\ idle' \in [Process -> SUBSET Connection]
        /\ \A p \in Process : \A d \in idle'[p] : d.file = Current
    BY <1>0, <1>5, StorageCallType DEF LocalCommit, ConnectionsCurrent
  <2>. QED
    BY <1>5, <2>2, <2>3, CommitStep DEF LocalCommit
<1>6. CASE /\ exclusive = {}
           /\ copies' = [copies EXCEPT ![Current] = @ + 1]
           /\ UNCHANGED <<exclusive, cacheGen, idle, lease, task>>
  BY <1>0, <1>6, CommitStep DEF ConnectionsCurrent
<1>7. CASE /\ exclusive = {}
           /\ idle' = [idle EXCEPT ![GuiProcess] = StorageCall]
           /\ UNCHANGED <<copies, exclusive, cacheGen, lease, task>>
  <2>1. /\ idle' \in [Process -> SUBSET Connection]
        /\ \A p \in Process : \A d \in idle'[p] : d.file = Current
    BY <1>0, <1>7, StorageCallType DEF ConnectionsCurrent
  <2>. QED
    BY <1>0, <1>7, <2>1, ConnectionStep DEF ConnectionsCurrent
<1>8. ASSUME NEW m \in Maintainer, Stage(m) PROVE DatabaseTypeOK' /\ FileInv'
  <2>1. /\ task' = [task EXCEPT ![m].pc = "lock"] /\ task[m].pc = "new"
        /\ InvalidateConnections(ProcessOf[m]) /\ UNCHANGED <<copies, exclusive, lease>>
    BY <1>8 DEF Stage, Advance
  <2>2. /\ task' \in [Maintainer -> [pc : {"new", "lock", "locked", "over"}, seen : Nat]]
        /\ \A n \in Maintainer : task[n].pc = "locked" \/ task'[n].pc = "locked" => task'[n] = task[n]
    BY <2>1
  <2>. QED
    BY <1>4, <2>1, <2>2, ProcessesAssumption
<1>9. ASSUME NEW m \in Maintainer, LockDatabase(m) PROVE DatabaseTypeOK' /\ FileInv'
  <2>1. /\ task[m].pc = "lock" /\ task' = [task EXCEPT ![m] = [pc |-> "locked", seen |-> Revision]]
        /\ exclusive = {} /\ ~SharedLocked /\ exclusive' = {m}
        /\ UNCHANGED <<copies, cacheGen, idle, lease>>
    BY <1>9 DEF LockDatabase, Unlocked
  <2>2. /\ task' \in [Maintainer -> [pc : {"new", "lock", "locked", "over"}, seen : Nat]]
        /\ task'[m].pc = "locked" /\ task'[m].seen = Revision
        /\ \A n \in Maintainer \ {m} : task'[n] = task[n]
    BY <2>1, RevisionType
  <2>3. \A n \in Maintainer : task[n].pc # "locked"
    BY <2>1 DEF FileInv
  <2>4. DatabaseTypeOK' /\ ConnectionsCurrent' /\ Revision' = Revision /\ ~SharedLocked'
    BY <1>0, <2>1, <2>2 DEF ConnectionsCurrent, Revision, Current, SharedLocked
  <2>. QED
    BY <2>1, <2>2, <2>3, <2>4 DEF FileInv
<1>10. ASSUME NEW m \in Maintainer, LockTimesOut(m) PROVE DatabaseTypeOK' /\ FileInv'
  <2>1. /\ task' = [task EXCEPT ![m].pc = "over"] /\ task[m].pc = "lock"
        /\ UNCHANGED <<copies, exclusive, cacheGen, idle, lease>>
    BY <1>10 DEF LockTimesOut, Advance
  <2>2. /\ task' \in [Maintainer -> [pc : {"new", "lock", "locked", "over"}, seen : Nat]]
        /\ \A n \in Maintainer : task[n].pc = "locked" \/ task'[n].pc = "locked" => task'[n] = task[n]
    BY <2>1
  <2>3. ~SharedLocked => ~SharedLocked'
    BY <2>1 DEF SharedLocked
  <2>. QED
    BY <1>0, <2>1, <2>2, <2>3, ConnectionStep DEF ConnectionsCurrent, FileInv
<1>11. ASSUME NEW m \in Maintainer, PublishDatabase(m) PROVE DatabaseTypeOK' /\ FileInv'
  <2>1. /\ task' = [task EXCEPT ![m].pc = "over"] /\ task[m].pc = "locked"
        /\ exclusive' = {} /\ UNCHANGED <<cacheGen, idle, lease>>
    BY <1>11 DEF PublishDatabase, Advance
  <2>2. exclusive = {m} /\ ~SharedLocked
    BY <2>1 DEF FileInv
  <2>3. task' \in [Maintainer -> [pc : {"new", "lock", "locked", "over"}, seen : Nat]]
    BY <2>1
  <2>4. DatabaseTypeOK'
    BY <1>11, <2>1, <2>3, PublishType
  <2>5. ConnectionsCurrent'
    BY <2>1, <2>2 DEF ConnectionsCurrent, SharedLocked
  <2>6. \A n \in Maintainer : task'[n].pc # "locked"
    BY <2>1, <2>2 DEF FileInv
  <2>. QED
    BY <2>1, <2>4, <2>5, <2>6 DEF FileInv
<1>12. ASSUME NEW m \in Maintainer, AbandonMaintenance(m) PROVE DatabaseTypeOK' /\ FileInv'
  <2>1. /\ task' = [task EXCEPT ![m].pc = "over"] /\ task[m].pc \in {"new", "lock", "locked"}
        /\ exclusive' = exclusive \ {m} /\ UNCHANGED <<copies, cacheGen, idle, lease>>
    BY <1>12 DEF AbandonMaintenance, Advance
  <2>2. /\ task' \in [Maintainer -> [pc : {"new", "lock", "locked", "over"}, seen : Nat]]
        /\ task'[m].pc = "over"
        /\ \A n \in Maintainer \ {m} : task'[n] = task[n]
    BY <2>1
  <2>3. DatabaseTypeOK' /\ ConnectionsCurrent' /\ Revision' = Revision
    BY <1>0, <2>1, <2>2 DEF ConnectionsCurrent, Revision, Current
  <2>4. exclusive' # {} => ~SharedLocked'
    BY <2>1 DEF FileInv, SharedLocked
  <2>5. \A n \in exclusive' : n # m /\ n \in Maintainer /\ exclusive' = {n} /\ task'[n].pc = "locked"
    BY <2>1, <2>2 DEF FileInv
  <2>6. \A n \in Maintainer : task'[n].pc = "locked" => n \in exclusive' /\ task'[n].seen = Revision'
    BY <2>1, <2>2, <2>3 DEF FileInv
  <2>. QED
    BY <2>3, <2>4, <2>5, <2>6 DEF FileInv
<1>13. ASSUME NEW p \in Process, InvalidateConnections(p), UNCHANGED <<copies, exclusive, lease, task>>
       PROVE  DatabaseTypeOK' /\ FileInv'
  BY <1>4, <1>13
<1>. QED
  BY <1>1, <1>2, <1>3, <1>5, <1>6, <1>7, <1>8, <1>9, <1>10, <1>11, <1>12, <1>13 DEF FileStep

-----------------------------------------------------------------------------
\* The files are one library.

\* Connections to the file that is there show its revision.
Visible == ConnectionsCurrent => OpenViews \subseteq Holders \X {Revision}

LEMMA ViewsOfRevision == Visible
<1>. SUFFICES ASSUME ConnectionsCurrent PROVE OpenViews \subseteq Holders \X {Revision}
  BY DEF Visible
<1>1. ASSUME NEW v \in IdleViews PROVE v \in Holders \X {Revision}
  <2>1. PICK p \in Process : v \in {<<<<"idle", p>>, copies[c.file]>> : c \in idle[p]}
    BY DEF IdleViews
  <2>2. PICK c \in idle[p] : v = <<<<"idle", p>>, copies[c.file]>>
    BY <2>1
  <2>3. copies[c.file] = Revision
    BY DEF ConnectionsCurrent, Revision
  <2>. QED
    BY <2>2, <2>3 DEF Holders
<1>2. ASSUME NEW v \in LeaseViews PROVE v \in Holders \X {Revision}
  <2>1. PICK t \in Client : v \in {<<<<"lease", t>>, copies[c.file]>> : c \in lease[t]}
    BY DEF LeaseViews
  <2>2. PICK c \in lease[t] : v = <<<<"lease", t>>, copies[c.file]>>
    BY <2>1
  <2>3. copies[c.file] = Revision
    BY DEF ConnectionsCurrent, Revision
  <2>. QED
    BY <2>2, <2>3 DEF Holders
<1>. QED
  BY <1>1, <1>2 DEF OpenViews, IdleViews, LeaseViews

\* Without a connection there is nothing to be seen.
LEMMA NoViews == ~SharedLocked => OpenViews = {}
BY DEF SharedLocked, OpenViews, IdleViews, LeaseViews

\* The views are a function of the files and the connections.
LEMMA SameViews == UNCHANGED <<copies, idle, lease>> => OpenViews' = OpenViews
BY DEF OpenViews, IdleViews, LeaseViews

\* A step of the database is a step of the library, or none.
LEMMA SharedStep ==
    ASSUME DatabaseTypeOK, FileInv, FileStep, FileInv', Visible'
    PROVE  [Shared!SharedNext]_(Shared!shared)
<1>. USE DEF Shared!SharedNext, Shared!shared
<1>0. OpenViews' \in SUBSET (Holders \X {Revision'})
  BY DEF FileInv, Visible
<1>1. ASSUME UNCHANGED <<copies, exclusive>>, exclusive = {} PROVE Shared!Reconnect
  <2>1. Revision' = Revision /\ Len(copies)' = Len(copies)
    BY <1>1 DEF Revision, Current
  <2>. QED
    BY <1>0, <1>1, <2>1 DEF Shared!Reconnect, Shared!Seen, Holders
<1>2. ASSUME copies' = [copies EXCEPT ![Current] = @ + 1], UNCHANGED exclusive, exclusive = {}
      PROVE  Shared!Change
  <2>1. Revision' = Revision + 1 /\ Len(copies)' = Len(copies)
    BY <1>2, CommitType DEF Current
  <2>. QED
    BY <1>0, <1>2, <2>1 DEF Shared!Change, Shared!Seen, Holders
<1>3. ASSUME NEW t \in Client, TakeIdle(t) PROVE Shared!Reconnect
  <2>1. exclusive = {}
    BY <1>3, ProcessesAssumption DEF TakeIdle, FileInv, SharedLocked
  <2>. QED
    BY <1>1, <1>3, <2>1 DEF TakeIdle
<1>4. ASSUME NEW t \in Client, OpenFresh(t) PROVE Shared!Reconnect
  BY <1>1, <1>4 DEF OpenFresh
<1>5. ASSUME UNCHANGED <<copies, exclusive>>, exclusive # {} => UNCHANGED <<idle, lease>>
      PROVE  [Shared!SharedNext]_(Shared!shared)
  <2>1. CASE exclusive = {}
    BY <1>1, <1>5, <2>1
  <2>2. CASE exclusive # {}
    <3>1. OpenViews' = OpenViews
      BY <1>5, <2>2, SameViews
    <3>2. Revision' = Revision /\ Len(copies)' = Len(copies)
      BY <1>5 DEF Revision, Current
    <3>. QED
      BY <1>5, <3>1, <3>2
  <2>. QED
    BY <2>1, <2>2
<1>6. ASSUME exclusive # {}
      PROVE  (\A p \in Process : idle[p] = {}) /\ (\A t \in Client : lease[t] = {})
  BY <1>6 DEF FileInv, SharedLocked
<1>7. ASSUME NEW t \in Client, ReturnLease(t) PROVE [Shared!SharedNext]_(Shared!shared)
  <2>1. exclusive # {} => UNCHANGED <<idle, lease>>
    <3>1. SUFFICES ASSUME exclusive # {} PROVE UNCHANGED <<idle, lease>>
      OBVIOUS
    <3>2. ProcessOf[t] \in Process /\ Returned(t) = {}
      BY <1>6, <3>1, ProcessesAssumption DEF Returned
    <3>. QED
      BY <1>6, <1>7, <3>1, <3>2 DEF ReturnLease, DatabaseTypeOK
  <2>. QED
    BY <1>5, <1>7, <2>1 DEF ReturnLease
<1>8. ASSUME NEW p \in Process, InvalidateConnections(p), UNCHANGED <<copies, exclusive, lease>>
      PROVE  [Shared!SharedNext]_(Shared!shared)
  <2>1. exclusive # {} => UNCHANGED <<idle, lease>>
    BY <1>6, <1>8 DEF InvalidateConnections, DatabaseTypeOK
  <2>. QED
    BY <1>5, <1>8, <2>1
<1>9. CASE LocalCommit
  <2>1. PICK c \in StorageCall : copies' = CommittedOn(c)
    BY <1>9 DEF LocalCommit
  <2>2. copies' = [copies EXCEPT ![Current] = @ + 1]
    BY <2>1, StorageCallType DEF CommittedOn
  <2>. QED
    BY <1>2, <1>9, <2>2 DEF LocalCommit
<1>10. CASE /\ exclusive = {}
            /\ copies' = [copies EXCEPT ![Current] = @ + 1]
            /\ UNCHANGED <<exclusive, cacheGen, idle, lease, task>>
  BY <1>2, <1>10
<1>11. CASE /\ exclusive = {}
            /\ idle' = [idle EXCEPT ![GuiProcess] = StorageCall]
            /\ UNCHANGED <<copies, exclusive, cacheGen, lease, task>>
  BY <1>1, <1>11
<1>12. ASSUME NEW m \in Maintainer, Stage(m) PROVE [Shared!SharedNext]_(Shared!shared)
  BY <1>8, <1>12, ProcessesAssumption DEF Stage
<1>13. ASSUME NEW m \in Maintainer, LockDatabase(m) PROVE Shared!BeginReplace(m)
  <2>1. OpenViews = {} /\ OpenViews' = OpenViews
    BY <1>13, NoViews, SameViews DEF LockDatabase, Unlocked
  <2>2. Revision' = Revision /\ Len(copies)' = Len(copies)
    BY <1>13 DEF LockDatabase, Revision, Current
  <2>. QED
    BY <1>13, <2>1, <2>2 DEF LockDatabase, Unlocked, Shared!BeginReplace
<1>14. ASSUME NEW m \in Maintainer, LockTimesOut(m) PROVE [Shared!SharedNext]_(Shared!shared)
  BY <1>5, <1>14 DEF LockTimesOut
<1>15. ASSUME NEW m \in Maintainer, PublishDatabase(m) PROVE Shared!EndReplace(m)
  <2>1. exclusive = {m} /\ ~SharedLocked
    BY <1>15 DEF PublishDatabase, Advance, FileInv
  <2>2. OpenViews = {}
    BY <2>1, NoViews
  <2>3. OpenViews' = {}
    BY <1>15, <2>1 DEF PublishDatabase, OpenViews, IdleViews, LeaseViews, SharedLocked
  <2>4. /\ Revision' \in Nat /\ Revision' > Revision
        /\ Len(copies)' - 1 = Len(copies) - 1 + 1
    <3>1. Current \in Nat /\ Current' = Current + 1
      BY <1>15, PublishType, RevisionType
    <3>. QED
      BY <1>15, <3>1, PublishType DEF Current
  <2>. QED
    BY <1>15, <2>1, <2>2, <2>3, <2>4 DEF PublishDatabase, Shared!EndReplace
<1>16. ASSUME NEW m \in Maintainer, AbandonMaintenance(m) PROVE [Shared!SharedNext]_(Shared!shared)
  <2>1. /\ UNCHANGED <<copies, idle, lease>> /\ exclusive' = exclusive \ {m}
    BY <1>16 DEF AbandonMaintenance
  <2>2. OpenViews' = OpenViews /\ Revision' = Revision /\ Len(copies)' = Len(copies)
    BY <2>1, SameViews DEF Revision, Current
  <2>3. CASE m \in exclusive
    <3>1. exclusive = {m}
      BY <2>3 DEF FileInv
    <3>2. Shared!GiveUp(m)
      BY <2>1, <2>2, <3>1 DEF Shared!GiveUp
    <3>. QED
      BY <3>2
  <2>4. CASE m \notin exclusive
    BY <2>1, <2>2, <2>4
  <2>. QED
    BY <2>3, <2>4
<1>. QED
  BY <1>3, <1>4, <1>7, <1>8, <1>9, <1>10, <1>11, <1>12, <1>13, <1>14, <1>15, <1>16 DEF FileStep

-----------------------------------------------------------------------------
\* The types of the service.

Progress == {"idle", "open", "join", "wait", "load", "loaded", "failed", "close"}
Call == [pc : Progress, q : Query, rev : Nat, page : SUBSET Page, on : SUBSET Client, bg : BOOLEAN]

LEMMA NoCallType == \A q \in Query : NoCall \in Call
BY DEF NoCall, Call, Progress

\* A call that goes on is a call.
LEMMA CallUpdates ==
    ASSUME NEW r \in Call, NEW x \in Progress,
           NEW n \in Nat, NEW g \in SUBSET Page, NEW s \in SUBSET Client
    PROVE  /\ [r EXCEPT !.pc = x] \in Call
           /\ [r EXCEPT !.pc = x, !.rev = n] \in Call
           /\ [r EXCEPT !.pc = x, !.on = s] \in Call
           /\ [r EXCEPT !.pc = x, !.rev = n, !.page = g] \in Call
           /\ [r EXCEPT !.pc = x, !.rev = n, !.on = s] \in Call
BY DEF Call

Observing == [pc : {"sleep", "look"}, conn : SUBSET [file : Nat, seen : Nat], gen : Nat]

ServiceTypeOK ==
    /\ GateTypeOK
    /\ pages \subseteq Page /\ Cardinality(pages) <= MaxPages
    /\ stale \subseteq Page /\ Cardinality(stale) <= MaxPages
    /\ flights \subseteq Flight
    /\ refreshing \subseteq Query
    /\ reader \in [Client -> Call]
    /\ observer \in Observing
    /\ unannounced \in Nat /\ errors \in Nat

\* A step of the gate keeps its types.
LEMMA GateStepType ==
    ASSUME GateTypeOK, NEW m \in Pauser, Pause(m) \/ Announce(m) \/ Enter(m) \/ Resume(m)
    PROVE  GateTypeOK'
<1>1. CASE Pause(m)
  BY <1>1 DEF GateTypeOK, Pause, Held
<1>2. CASE Announce(m)
  BY <1>2 DEF GateTypeOK, Announce, Held
<1>3. CASE Enter(m)
  BY <1>3 DEF GateTypeOK, Enter, Held
<1>4. CASE Resume(m)
  BY <1>4 DEF GateTypeOK, Resume, Held
<1>. QED
  BY <1>1, <1>2, <1>3, <1>4

\* An empty cache is within its limits.
LEMMA EmptyCache == {} \subseteq Page /\ Cardinality({}) <= MaxPages
BY FS_EmptySet, BoundsAssumption

\* What is kept of a set with one page more.
LEMMA KeptType ==
    ASSUME NEW s \in SUBSET Page, NEW p \in Page, NEW k \in Kept(s, p)
    PROVE  k \subseteq s /\ p \in k /\ Cardinality(k) <= MaxPages
BY DEF Kept

\* The connection of a call is of a file that has been at the path.
LEMMA LeaseType ==
    ASSUME DatabaseTypeOK, ConnectionsCurrent, NEW t \in Client, NEW c \in lease[t]
    PROVE  c.file = Current /\ copies[c.file] = Revision
BY DEF ConnectionsCurrent, Revision

\* A call leaves the cache, or a part of it, and gives what it loaded to others.
LEMMA LandType ==
    ASSUME ServiceTypeOK, DatabaseTypeOK, NEW t \in Client, Land(t)
    PROVE  ServiceTypeOK'
<1>. USE DEF ServiceTypeOK
<1>1. pages' \subseteq Page /\ Cardinality(pages') <= MaxPages /\ stale' \subseteq Page /\ Cardinality(stale') <= MaxPages
  <2>1. CASE reader[t].pc = "loaded"
    <3>1. PICK p \in reader[t].page :
             /\ LET new == [p EXCEPT !.late = p.rev < Revision] IN pages' \in Kept(WithPage(new), new)
             /\ stale' \in Kept(WithStale(p), p)
      BY <2>1 DEF Land
    <3>. DEFINE old == p.rev < Revision
                new == [p EXCEPT !.late = old]
    <3>2. p \in Page
      BY DEF Call
    <3>3. new \in Page
      <4>1. old \in BOOLEAN
        OBVIOUS
      <4>. HIDE DEF old
      <4>. QED
        BY <3>2, <4>1 DEF Page
    <3>4. WithPage(new) \subseteq Page /\ WithStale(p) \subseteq Page
      BY <3>2, <3>3 DEF WithPage, WithStale
    <3>. HIDE DEF new
    <3>. QED
      BY <3>1, <3>2, <3>3, <3>4, KeptType DEF new
  <2>2. CASE reader[t].pc # "loaded"
    BY <2>2 DEF Land
  <2>. QED
    BY <2>1, <2>2
<1>2. flights' \subseteq Flight /\ refreshing' \subseteq Query
  BY DEF Land
<1>3. reader' \in [Client -> Call]
  <2>. DEFINE done(u) == [reader[u] EXCEPT !.pc = "close", !.rev = 0, !.on = {}]
              next(u) == CASE u = t -> NoCall [] u \in Followers(t) -> done(u) [] OTHER -> reader[u]
  <2>1. reader' = [u \in Client |-> next(u)]
    BY DEF Land
  <2>2. ASSUME NEW u \in Client PROVE next(u) \in Call
    <3>1. reader[u] \in Call /\ done(u) \in Call /\ NoCall \in Call
      BY NoCallType DEF Call, Progress
    <3>2. t \notin Followers(t)
      BY DEF Followers, Land
    <3>. QED
      BY <3>1, <3>2
  <2>. HIDE DEF next
  <2>. QED
    BY <2>1, <2>2
<1>. QED
  BY <1>1, <1>2, <1>3 DEF Land, gate, GateTypeOK

\* The observer is connected to a file that is or was at the path.
ObservesFile == \A o \in observer.conn : o.file \in 1 .. Current

\* Every step keeps the types.
LEMMA ServiceTypeStep ==
    ASSUME ServiceTypeOK, DatabaseTypeOK, FileInv, ObservesFile, LibraryNext
    PROVE  ServiceTypeOK'
<1>. USE DEF ServiceTypeOK, gate, GateTypeOK
<1>0. Revision \in Nat /\ Current \in Nat
  BY RevisionType
<1>1. ASSUME NEW t \in Client, NEW q \in Query, Ask(t, q) PROVE ServiceTypeOK'
  <2>1. [NoCall EXCEPT !.pc = "open", !.q = q, !.bg = TRUE] \in Call
    BY NoCallType DEF Call, Progress
  <2>2. [NoCall EXCEPT !.pc = "open", !.q = q, !.bg = FALSE] \in Call
    BY NoCallType DEF Call, Progress
  <2>3. CASE StaleFor(q) = {}
    <3>1. reader' = [reader EXCEPT ![t] = [NoCall EXCEPT !.pc = "open", !.q = q, !.bg = FALSE]]
      BY <1>1, <2>3 DEF Ask
    <3>. QED
      BY <1>1, <2>2, <2>3, <3>1 DEF Ask
  <2>4. CASE StaleFor(q) # {}
    <3>1. reader' = [reader EXCEPT ![t] = [NoCall EXCEPT !.pc = "open", !.q = q, !.bg = TRUE]]
      BY <1>1, <2>4 DEF Ask
    <3>. QED
      BY <1>1, <2>1, <2>4, <3>1 DEF Ask
  <2>. QED
    BY <2>3, <2>4
<1>2. ASSUME NEW t \in Client, Open(t) \/ OpenFails(t) PROVE ServiceTypeOK'
  <2>1. CASE Open(t)
    <3>1. [reader[t] EXCEPT !.pc = "join", !.rev = Revision] \in Call
      BY <1>0, CallUpdates DEF Progress
    <3>. QED
      BY <2>1, <3>1 DEF Open
  <2>2. CASE OpenFails(t)
    <3>1. [reader[t] EXCEPT !.pc = "close"] \in Call
      BY CallUpdates DEF Progress
    <3>. QED
      BY <2>2, <3>1 DEF OpenFails
  <2>. QED
    BY <1>2, <2>1, <2>2
<1>3. ASSUME NEW t \in Client, Join(t) PROVE ServiceTypeOK'
  <2>. DEFINE r == reader[t]
              same == {f \in flights : f.q = r.q /\ f.rev = r.rev}
  <2>0. r \in Call /\ {f.by : f \in same} \in SUBSET Client
    BY DEF Flight
  <2>1. [q |-> r.q, rev |-> r.rev, by |-> t] \in Flight
    BY <2>0 DEF Flight, Call
  <2>2. /\ flights' \subseteq flights \cup {[q |-> r.q, rev |-> r.rev, by |-> t]}
        /\ \/ reader' = [reader EXCEPT ![t] = [@ EXCEPT !.pc = "close", !.rev = 0]]
           \/ reader' = [reader EXCEPT ![t] = [@ EXCEPT !.pc = "wait", !.on = {f.by : f \in same}]]
           \/ reader' = [reader EXCEPT ![t] = [@ EXCEPT !.pc = "load"]]
        /\ UNCHANGED <<pauser, generation, guards, pages, stale, refreshing, observer, unannounced, errors>>
    BY <1>3 DEF Join
  <2>. HIDE DEF same
  <2>3. /\ [reader[t] EXCEPT !.pc = "close", !.rev = 0] \in Call
        /\ [reader[t] EXCEPT !.pc = "wait", !.on = {f.by : f \in same}] \in Call
        /\ [reader[t] EXCEPT !.pc = "load"] \in Call
    BY <2>0, CallUpdates DEF Progress
  <2>4. reader' \in [Client -> Call]
    BY <2>2, <2>3
  <2>. QED
    BY <2>1, <2>2, <2>4
<1>4. ASSUME NEW t \in Client, Load(t) PROVE ServiceTypeOK'
  <2>1. PICK c \in lease[t] : reader' = [reader EXCEPT ![t] = [@ EXCEPT !.pc = "loaded", !.rev = 0, !.page =
                        {[q |-> reader[t].q, rev |-> copies[c.file], file |-> c.file, late |-> FALSE]}]]
    BY <1>4 DEF Load
  <2>2. c.file = Current /\ copies[c.file] = Revision
    BY LeaseType DEF FileInv
  <2>3. [q |-> reader[t].q, rev |-> Revision, file |-> Current, late |-> FALSE] \in Page
    BY <1>0 DEF Call, Page
  <2>4. [reader[t] EXCEPT !.pc = "loaded", !.rev = 0, !.page =
            {[q |-> reader[t].q, rev |-> Revision, file |-> Current, late |-> FALSE]}] \in Call
    <3>1. "loaded" \in Progress /\ 0 \in Nat /\ reader[t] \in Call
      BY DEF Progress
    <3>. DEFINE g == {[q |-> reader[t].q, rev |-> Revision, file |-> Current, late |-> FALSE]}
    <3>2. g \in SUBSET Page
      BY <2>3
    <3>. HIDE DEF g
    <3>3. [reader[t] EXCEPT !.pc = "loaded", !.rev = 0, !.page = g] \in Call
      BY <3>1, <3>2 DEF Call
    <3>. QED
      BY <3>3 DEF g
  <2>5. reader' \in [Client -> Call]
    BY <2>1, <2>2, <2>4
  <2>. QED
    BY <1>4, <2>5 DEF Load
<1>5. ASSUME NEW t \in Client, LoadFails(t) PROVE ServiceTypeOK'
  <2>1. [reader[t] EXCEPT !.pc = "failed", !.rev = 0] \in Call
    BY CallUpdates DEF Progress
  <2>. QED
    BY <1>5, <2>1 DEF LoadFails
<1>6. ASSUME NEW t \in Client, Close(t) PROVE ServiceTypeOK'
  <2>1. reader' \in [Client -> Call]
    BY <1>6, NoCallType DEF Close, Call, Progress
  <2>. QED
    BY <1>6, <2>1 DEF Close
<1>7. CASE LocalWrite
  BY <1>7 DEF LocalWrite
<1>8. CASE LocalInvalidate
  BY <1>8, EmptyCache DEF LocalInvalidate
<1>13. CASE ExternalWrite \/ BuildIndex
  BY <1>13 DEF ExternalWrite, BuildIndex, service
<1>14. CASE RoundPublished
  BY <1>14, EmptyCache DEF RoundPublished
<1>15. CASE ObserverTick
  BY <1>15 DEF ObserverTick, Observing
<1>16. CASE ObserveFails
  <2>1. [observer EXCEPT !.pc = "sleep", !.conn = {}] \in Observing
    BY DEF Observing
  <2>. QED
    BY <1>16, <2>1 DEF ObserveFails
<1>9. CASE Observe
  <2>1. ObservedNow \in SUBSET [file : Nat, seen : Nat]
    BY <1>0 DEF ObservedNow
  <2>2. CASE generation # observer.gen \/ observer.conn = {}
    <3>1. [pc |-> "sleep", conn |-> ObservedNow, gen |-> generation] \in Observing
      BY <2>1 DEF Observing
    <3>. QED
      BY <1>9, <2>2, <3>1 DEF Observe
  <2>3. CASE ~(generation # observer.gen \/ observer.conn = {})
    <3>1. PICK o \in observer.conn :
            /\ observer' = [observer EXCEPT !.pc = "sleep", !.conn = {[o EXCEPT !.seen = copies[o.file]]}]
            /\ pages' = IF copies[o.file] # o.seen THEN {} ELSE pages
      BY <1>9, <2>3 DEF Observe
    <3>2. copies[o.file] \in Nat
      BY ElementOfSeq DEF ObservesFile, DatabaseTypeOK, Current
    <3>3. [o EXCEPT !.seen = copies[o.file]] \in [file : Nat, seen : Nat]
      BY <3>2 DEF Observing
    <3>4. [observer EXCEPT !.pc = "sleep", !.conn = {[o EXCEPT !.seen = copies[o.file]]}] \in Observing
      BY <3>3 DEF Observing
    <3>. QED
      BY <1>9, <3>1, <3>4, EmptyCache DEF Observe
  <2>. QED
    BY <2>2, <2>3
<1>10. ASSUME NEW m \in Pauser, PauseStep(m) PROVE ServiceTypeOK'
  BY <1>10, GateStepType, EmptyCache DEF PauseStep, service
<1>11. ASSUME NEW m \in Maintainer, MaintenanceStep(m) \/ MaintenanceFails(m) PROVE ServiceTypeOK'
  BY <1>11 DEF MaintenanceStep, MaintenanceFails, service
<1>12. ASSUME NEW t \in Client, Land(t) PROVE ServiceTypeOK'
  BY <1>12, LandType
<1>. QED
  BY <1>1, <1>2, <1>3, <1>4, <1>5, <1>6, <1>7, <1>8, <1>9, <1>10, <1>11, <1>12, <1>13, <1>14, <1>15, <1>16 DEF LibraryNext, ReaderStep

-----------------------------------------------------------------------------
\* Pages show the revision they are kept for.

Known(p) == p.rev <= Revision /\ (p.rev = Revision => p.file = Current)

\* Also the page that a call has loaded and has not kept yet.
PagesKnown ==
    /\ \A p \in pages \cup stale : Known(p)
    /\ \A t \in Client : \A p \in reader[t].page : Known(p)

\* The revision never goes back, and grows when the file is replaced.
LEMMA RevisionStep ==
    ASSUME DatabaseTypeOK, FileInv, FileStep \/ UNCHANGED database
    PROVE  /\ Revision' \in Nat /\ Revision' >= Revision /\ Current' \in Nat
           /\ Revision' = Revision => Current' = Current
           /\ Current' >= Current /\ (Current' = Current => copies' = copies \/ Revision' = Revision + 1)
<1>0. Revision \in Nat /\ Current \in Nat
  BY RevisionType
<1>1. CASE UNCHANGED copies
  BY <1>0, <1>1 DEF Revision, Current
<1>2. CASE copies' = [copies EXCEPT ![Current] = @ + 1]
  BY <1>0, <1>2, CommitType
<1>3. CASE LocalCommit
  <2>1. PICK c \in StorageCall : copies' = CommittedOn(c)
    BY <1>3 DEF LocalCommit
  <2>2. copies' = [copies EXCEPT ![Current] = @ + 1]
    BY <2>1, StorageCallType DEF CommittedOn
  <2>. QED
    BY <1>2, <2>2
<1>4. ASSUME NEW m \in Maintainer, PublishDatabase(m)
      PROVE  Revision' \in Nat /\ Revision' > Revision /\ Current' = Current + 1
  BY <1>4, PublishType
<1>5. \/ UNCHANGED copies \/ copies' = [copies EXCEPT ![Current] = @ + 1]
      \/ LocalCommit \/ \E m \in Maintainer : PublishDatabase(m)
  BY DEF FileStep, database, TakeIdle, OpenFresh, ReturnLease, Stage, LockDatabase, LockTimesOut, AbandonMaintenance
<1>. QED
  BY <1>0, <1>1, <1>2, <1>3, <1>4, <1>5

LEMMA KnownStep ==
    ASSUME DatabaseTypeOK, FileInv, FileStep \/ UNCHANGED database, NEW p \in Page, Known(p)
    PROVE  Known(p)'
<1>1. p.rev \in Nat /\ Revision \in Nat
  BY RevisionType DEF Page
<1>. QED
  BY <1>1, RevisionStep DEF Known

\* A step keeps pages, loads one, or keeps what a call has loaded.
LEMMA PageSources ==
    ASSUME ServiceTypeOK, DatabaseTypeOK, FileInv, LibraryNext
    PROVE  /\ \A p \in pages' \cup stale' :
                 \/ p \in pages \cup stale
                 \/ \E t \in Client : \E x \in reader[t].page : p.rev = x.rev /\ p.file = x.file
           /\ \A t \in Client : \A p \in reader'[t].page :
                 p \in reader[t].page \/ (p.rev = Revision /\ p.file = Current /\ UNCHANGED copies)
<1>. USE DEF ServiceTypeOK
<1>1. ASSUME NEW t \in Client, Land(t)
      PROVE  /\ \A p \in pages' \cup stale' :
                   p \in pages \cup stale \/ \E x \in reader[t].page : p.rev = x.rev /\ p.file = x.file
             /\ \A u \in Client : reader'[u].page \subseteq reader[u].page
  <2>1. \A p \in pages' \cup stale' :
           p \in pages \cup stale \/ \E x \in reader[t].page : p.rev = x.rev /\ p.file = x.file
    <3>1. CASE reader[t].pc = "loaded"
      <4>1. PICK p \in reader[t].page :
               /\ LET new == [p EXCEPT !.late = p.rev < Revision] IN pages' \in Kept(WithPage(new), new)
               /\ stale' \in Kept(WithStale(p), p)
        BY <1>1, <3>1 DEF Land
      <4>. DEFINE new == [p EXCEPT !.late = p.rev < Revision]
      <4>2. p \in Page
        BY DEF Call
      <4>3. new.rev = p.rev /\ new.file = p.file
        BY <4>2 DEF Page
      <4>. HIDE DEF new
      <4>4. pages' \in Kept(WithPage(new), new) /\ stale' \in Kept(WithStale(p), p)
        BY <4>1 DEF new
      <4>. QED
        BY <4>3, <4>4 DEF Kept, WithPage, WithStale
    <3>2. CASE reader[t].pc # "loaded"
      BY <1>1, <3>2 DEF Land
    <3>. QED
      BY <3>1, <3>2
  <2>2. ASSUME NEW u \in Client PROVE reader'[u].page \subseteq reader[u].page
    <3>. DEFINE done(v) == [reader[v] EXCEPT !.pc = "close", !.rev = 0, !.on = {}]
                next(v) == CASE v = t -> NoCall [] v \in Followers(t) -> done(v) [] OTHER -> reader[v]
    <3>1. reader' = [v \in Client |-> next(v)]
      BY <1>1 DEF Land
    <3>2. t \notin Followers(t)
      BY <1>1 DEF Followers, Land
    <3>3. done(u).page = reader[u].page /\ NoCall.page = {}
      BY DEF NoCall, Call
    <3>4. next(u).page \subseteq reader[u].page
      BY <3>2, <3>3
    <3>. HIDE DEF next
    <3>. QED
      BY <3>1, <3>4
  <2>. QED
    BY <2>1, <2>2
<1>2. ASSUME NEW t \in Client, Load(t)
      PROVE  /\ UNCHANGED <<pages, stale, copies>>
             /\ \A u \in Client : \A p \in reader'[u].page :
                   p \in reader[u].page \/ (p.rev = Revision /\ p.file = Current)
  <2>1. PICK c \in lease[t] : reader' = [reader EXCEPT ![t] = [@ EXCEPT !.pc = "loaded", !.rev = 0, !.page =
                        {[q |-> reader[t].q, rev |-> copies[c.file], file |-> c.file, late |-> FALSE]}]]
    BY <1>2 DEF Load
  <2>2. c.file = Current /\ copies[c.file] = Revision
    BY LeaseType DEF FileInv
  <2>3. reader'[t].page = {[q |-> reader[t].q, rev |-> Revision, file |-> Current, late |-> FALSE]}
    BY <2>1, <2>2 DEF Call
  <2>4. \A u \in Client \ {t} : reader'[u] = reader[u]
    BY <2>1
  <2>. QED
    BY <1>2, <2>3, <2>4 DEF Load, database
<1>3. ASSUME NEW t \in Client, Open(t) \/ OpenFails(t) \/ Join(t) \/ LoadFails(t) \/ Close(t)
      PROVE  UNCHANGED <<pages, stale>> /\ \A u \in Client : reader'[u].page \subseteq reader[u].page
  <2>0. NoCall.page = {}
    BY DEF NoCall
  <2>1. CASE Open(t)
    BY <2>1 DEF Open, Call
  <2>2. CASE OpenFails(t)
    BY <2>2 DEF OpenFails, Call
  <2>3. CASE Join(t)
    <3>. DEFINE on == {f.by : f \in {g \in flights : g.q = reader[t].q /\ g.rev = reader[t].rev}}
    <3>1. /\ \/ reader' = [reader EXCEPT ![t] = [@ EXCEPT !.pc = "close", !.rev = 0]]
             \/ reader' = [reader EXCEPT ![t] = [@ EXCEPT !.pc = "wait", !.on = on]]
             \/ reader' = [reader EXCEPT ![t] = [@ EXCEPT !.pc = "load"]]
          /\ UNCHANGED <<pages, stale>>
      BY <2>3 DEF Join
    <3>. HIDE DEF on
    <3>2. /\ [reader[t] EXCEPT !.pc = "close", !.rev = 0].page = reader[t].page
          /\ [reader[t] EXCEPT !.pc = "wait", !.on = on].page = reader[t].page
          /\ [reader[t] EXCEPT !.pc = "load"].page = reader[t].page
      BY DEF Call
    <3>. QED
      BY <3>1, <3>2
  <2>4. CASE LoadFails(t)
    BY <2>4 DEF LoadFails, Call
  <2>5. CASE Close(t)
    BY <2>0, <2>5 DEF Close, Call
  <2>. QED
    BY <1>3, <2>1, <2>2, <2>3, <2>4, <2>5
<1>4. ASSUME NEW t \in Client, NEW q \in Query, Ask(t, q)
      PROVE  UNCHANGED <<pages, stale>> /\ \A u \in Client : reader'[u].page \subseteq reader[u].page
  <2>. DEFINE bg == StaleFor(q) # {}
              new == [NoCall EXCEPT !.pc = "open", !.q = q, !.bg = bg]
  <2>. HIDE DEF bg
  <2>1. new.page = {}
    BY DEF NoCall
  <2>2. reader' = [reader EXCEPT ![t] = new] /\ UNCHANGED <<pages, stale>>
    BY <1>4 DEF Ask, bg
  <2>. HIDE DEF new
  <2>. QED
    BY <2>1, <2>2
<1>5. CASE \/ LocalWrite \/ LocalInvalidate \/ ExternalWrite \/ BuildIndex \/ RoundPublished
           \/ ObserverTick \/ ObserveFails
  BY <1>5 DEF LocalWrite, LocalInvalidate, ExternalWrite, BuildIndex, RoundPublished, ObserverTick, ObserveFails, service
<1>6. CASE Observe
  <2>1. pages' \subseteq pages /\ UNCHANGED <<stale, reader>>
    BY <1>6 DEF Observe
  <2>. QED
    BY <2>1
<1>7. ASSUME NEW m \in Pauser, PauseStep(m)
      PROVE  pages' \subseteq pages /\ stale' \subseteq stale /\ UNCHANGED reader
  BY <1>7 DEF PauseStep, service
<1>8. ASSUME NEW m \in Maintainer, MaintenanceStep(m) \/ MaintenanceFails(m)
      PROVE  UNCHANGED <<pages, stale, reader>>
  BY <1>8 DEF MaintenanceStep, MaintenanceFails, service
<1>. QED
  BY <1>1, <1>2, <1>3, <1>4, <1>5, <1>6, <1>7, <1>8 DEF LibraryNext, ReaderStep

LEMMA PagesStep ==
    ASSUME ServiceTypeOK, ServiceTypeOK', DatabaseTypeOK, FileInv, PagesKnown, LibraryNext
    PROVE  PagesKnown'
<1>1. FileStep \/ UNCHANGED database
  BY FileStepOnly
<1>2. ASSUME NEW p \in Page, NEW x \in Page, Known(x)', p.rev = x.rev, p.file = x.file PROVE Known(p)'
  BY <1>2 DEF Known
<1>3. ASSUME NEW t \in Client PROVE reader[t].page \in SUBSET Page /\ reader'[t].page \in SUBSET Page
  BY DEF ServiceTypeOK, Call
<1>4. ASSUME NEW p \in pages' \cup stale' PROVE Known(p)'
  <2>0. p \in Page
    BY DEF ServiceTypeOK
  <2>1. CASE p \in pages \cup stale
    BY <1>1, <2>0, <2>1, KnownStep DEF PagesKnown
  <2>2. ASSUME NEW t \in Client, NEW x \in reader[t].page, p.rev = x.rev, p.file = x.file PROVE Known(p)'
    <3>1. x \in Page /\ Known(x)
      BY <1>3 DEF PagesKnown
    <3>. QED
      BY <1>1, <1>2, <2>0, <2>2, <3>1, KnownStep
  <2>. QED
    BY <2>1, <2>2, PageSources
<1>5. ASSUME NEW t \in Client, NEW p \in reader'[t].page PROVE Known(p)'
  <2>0. p \in Page
    BY <1>3
  <2>1. CASE p \in reader[t].page
    BY <1>1, <2>0, <2>1, KnownStep DEF PagesKnown
  <2>2. CASE p.rev = Revision /\ p.file = Current /\ UNCHANGED copies
    BY <2>2, RevisionType DEF Known, Revision, Current
  <2>. QED
    BY <2>1, <2>2, PageSources
<1>. QED
  BY <1>4, <1>5 DEF PagesKnown

-----------------------------------------------------------------------------
\* Loads that are shared have a leader.

Leading == {"load", "loaded", "failed"}

\* One call goes on and no load begins or ends.
LEMMA OneCallStep ==
    ASSUME ServiceTypeOK, FlightsLed, NEW t \in Client, NEW new,
           reader' = [reader EXCEPT ![t] = new], UNCHANGED flights,
           new.pc # "wait", reader[t].pc \in Leading => new.pc \in Leading /\ new.q = reader[t].q
    PROVE  FlightsLed'
<1>1. reader'[t] = new /\ \A u \in Client \ {t} : reader'[u] = reader[u]
  BY DEF ServiceTypeOK
<1>2. \A f \in flights : f.by \in Client
  BY DEF ServiceTypeOK, Flight
<1>3. \A f \in flights' : reader'[f.by].pc \in {"load", "loaded", "failed"} /\ reader'[f.by].q = f.q
  BY <1>1, <1>2 DEF FlightsLed, Leading
<1>4. \A u \in Client : reader'[u].pc = "wait" =>
          \E f \in flights' : reader'[u].on = {f.by} /\ f.q = reader'[u].q /\ f.rev = reader'[u].rev
  BY <1>1 DEF FlightsLed
<1>. QED
  BY <1>3, <1>4 DEF FlightsLed

\* A call joins a load, or leads a new one, or finds a page.
LEMMA JoinLed ==
    ASSUME ServiceTypeOK, FlightsLed, NEW t \in Client, Join(t)
    PROVE  FlightsLed'
<1>. DEFINE r == reader[t]
            same == {f \in flights : f.q = r.q /\ f.rev = r.rev}
            on == {f.by : f \in same}
            mine == [q |-> r.q, rev |-> r.rev, by |-> t]
<1>0. r.pc = "join" /\ r \in Call
  BY DEF Join, ServiceTypeOK
<1>1. CASE reader' = [reader EXCEPT ![t] = [@ EXCEPT !.pc = "close", !.rev = 0]] /\ UNCHANGED flights
  <2>1. [r EXCEPT !.pc = "close", !.rev = 0].pc = "close"
    BY <1>0 DEF Call
  <2>. QED
    BY <1>0, <1>1, <2>1, OneCallStep DEF Leading
<1>2. CASE /\ reader' = [reader EXCEPT ![t] = [@ EXCEPT !.pc = "wait", !.on = on]]
           /\ same # {} /\ UNCHANGED flights
  <2>1. PICK f \in flights : f.q = r.q /\ f.rev = r.rev
    BY <1>2
  <2>2. \A g \in flights : g.q = r.q /\ g.rev = r.rev => g = f
    BY <2>1 DEF FlightsLed
  <2>3. on = {f.by}
    BY <2>1, <2>2
  <2>. HIDE DEF on
  <2>4. /\ reader'[t].pc = "wait" /\ reader'[t].on = on
        /\ reader'[t].q = r.q /\ reader'[t].rev = r.rev
        /\ \A u \in Client \ {t} : reader'[u] = reader[u]
    BY <1>0, <1>2 DEF ServiceTypeOK, Call
  <2>5. \A g \in flights : g.by \in Client /\ g.by # t
    BY <1>0 DEF ServiceTypeOK, Flight, FlightsLed
  <2>6. \A g \in flights' : reader'[g.by].pc \in {"load", "loaded", "failed"} /\ reader'[g.by].q = g.q
    BY <1>2, <2>4, <2>5 DEF FlightsLed
  <2>7. \A u \in Client : reader'[u].pc = "wait" =>
            \E g \in flights' : reader'[u].on = {g.by} /\ g.q = reader'[u].q /\ g.rev = reader'[u].rev
    BY <1>2, <2>1, <2>3, <2>4 DEF FlightsLed
  <2>. QED
    BY <1>2, <2>6, <2>7 DEF FlightsLed
<1>3. CASE /\ reader' = [reader EXCEPT ![t] = [@ EXCEPT !.pc = "load"]]
           /\ same = {} /\ flights' = flights \cup {mine}
  <2>1. /\ reader'[t].pc = "load" /\ reader'[t].q = r.q
        /\ \A u \in Client \ {t} : reader'[u] = reader[u]
    BY <1>0, <1>3 DEF ServiceTypeOK, Call
  <2>2. \A g \in flights : g.by \in Client /\ g.by # t /\ ~(g.q = r.q /\ g.rev = r.rev)
    BY <1>0, <1>3 DEF ServiceTypeOK, Flight, FlightsLed
  <2>3. mine.by = t /\ mine.q = r.q /\ mine.rev = r.rev
    OBVIOUS
  <2>. HIDE DEF mine
  <2>4. \A g \in flights' : reader'[g.by].pc \in {"load", "loaded", "failed"} /\ reader'[g.by].q = g.q
    BY <1>3, <2>1, <2>2, <2>3 DEF FlightsLed
  <2>5. \A f, g \in flights' : f.by = g.by \/ (f.q = g.q /\ f.rev = g.rev) => f = g
    BY <1>3, <2>2, <2>3 DEF FlightsLed
  <2>6. \A u \in Client : reader'[u].pc = "wait" =>
            \E g \in flights' : reader'[u].on = {g.by} /\ g.q = reader'[u].q /\ g.rev = reader'[u].rev
    BY <1>3, <2>1 DEF FlightsLed
  <2>. QED
    BY <2>4, <2>5, <2>6 DEF FlightsLed
<1>. QED
  BY <1>1, <1>2, <1>3 DEF Join

\* A load ends, and with it the wait of all who joined it.
LEMMA LandLed ==
    ASSUME ServiceTypeOK, FlightsLed, NEW t \in Client, Land(t)
    PROVE  FlightsLed'
<1>. DEFINE done(v) == [reader[v] EXCEPT !.pc = "close", !.rev = 0, !.on = {}]
            next(v) == CASE v = t -> NoCall [] v \in Followers(t) -> done(v) [] OTHER -> reader[v]
<1>1. reader' = [v \in Client |-> next(v)] /\ flights' = {f \in flights : f.by # t}
  BY DEF Land
<1>2. \A v \in Client : done(v).pc = "close" /\ NoCall.pc = "idle"
  BY DEF ServiceTypeOK, Call, NoCall
<1>3. \A v \in Followers(t) : reader[v].pc = "wait"
  BY DEF Followers
<1>4. ASSUME NEW v \in Client
      PROVE  \/ reader'[v] = reader[v] /\ v # t /\ v \notin Followers(t)
             \/ reader'[v].pc # "wait" /\ (v = t \/ v \in Followers(t))
  <2>1. reader'[v] = next(v)
    BY <1>1
  <2>2. CASE v = t
    BY <1>2, <2>1, <2>2
  <2>3. CASE v # t /\ v \in Followers(t)
    BY <1>2, <2>1, <2>3
  <2>4. CASE v # t /\ v \notin Followers(t)
    BY <2>1, <2>4
  <2>. QED
    BY <2>2, <2>3, <2>4
<1>. HIDE DEF next
<1>5. \A f \in flights' : f \in flights /\ f.by \in Client /\ f.by # t /\ reader[f.by].pc # "wait"
  BY <1>1 DEF ServiceTypeOK, Flight, FlightsLed
<1>6. \A f \in flights' : reader'[f.by].pc \in {"load", "loaded", "failed"} /\ reader'[f.by].q = f.q
  BY <1>3, <1>4, <1>5 DEF FlightsLed
<1>7. ASSUME NEW u \in Client, reader'[u].pc = "wait"
      PROVE  \E f \in flights' : reader'[u].on = {f.by} /\ f.q = reader'[u].q /\ f.rev = reader'[u].rev
  <2>1. reader'[u] = reader[u] /\ u \notin Followers(t)
    BY <1>4, <1>7
  <2>2. PICK f \in flights : reader[u].on = {f.by} /\ f.q = reader[u].q /\ f.rev = reader[u].rev
    BY <1>7, <2>1 DEF FlightsLed
  <2>3. f.by # t
    BY <1>7, <2>1, <2>2 DEF Followers
  <2>. QED
    BY <1>1, <2>1, <2>2, <2>3
<1>. QED
  BY <1>5, <1>6, <1>7 DEF FlightsLed

LEMMA FlightsStep ==
    ASSUME ServiceTypeOK, FlightsLed, LibraryNext
    PROVE  FlightsLed'
<1>0. \A t \in Client : reader[t] \in Call
  BY DEF ServiceTypeOK
<1>1. ASSUME NEW t \in Client, NEW q \in Query, Ask(t, q) PROVE FlightsLed'
  <2>. DEFINE bg == StaleFor(q) # {}
              new == [NoCall EXCEPT !.pc = "open", !.q = q, !.bg = bg]
  <2>. HIDE DEF bg
  <2>1. new.pc = "open"
    BY DEF NoCall
  <2>2. reader' = [reader EXCEPT ![t] = new] /\ UNCHANGED flights /\ reader[t].pc = "idle"
    BY <1>1 DEF Ask, bg
  <2>. HIDE DEF new
  <2>. QED
    BY <2>1, <2>2, OneCallStep DEF Leading
<1>2. ASSUME NEW t \in Client, Open(t) PROVE FlightsLed'
  <2>1. [reader[t] EXCEPT !.pc = "join", !.rev = Revision].pc = "join"
    BY <1>0 DEF Call
  <2>. QED
    BY <1>2, <2>1, OneCallStep DEF Open, Leading
<1>3. ASSUME NEW t \in Client, OpenFails(t) PROVE FlightsLed'
  <2>1. [reader[t] EXCEPT !.pc = "close"].pc = "close"
    BY <1>0 DEF Call
  <2>2. reader' = [reader EXCEPT ![t] = [reader[t] EXCEPT !.pc = "close"]]
    BY <1>3 DEF OpenFails
  <2>. QED
    BY <1>3, <2>1, <2>2, OneCallStep DEF OpenFails, Leading
<1>4. ASSUME NEW t \in Client, Load(t) PROVE FlightsLed'
  <2>1. PICK c \in lease[t] : reader' = [reader EXCEPT ![t] = [@ EXCEPT !.pc = "loaded", !.rev = 0, !.page =
                        {[q |-> reader[t].q, rev |-> copies[c.file], file |-> c.file, late |-> FALSE]}]]
    BY <1>4 DEF Load
  <2>. DEFINE g == {[q |-> reader[t].q, rev |-> copies[c.file], file |-> c.file, late |-> FALSE]}
              new == [reader[t] EXCEPT !.pc = "loaded", !.rev = 0, !.page = g]
  <2>. HIDE DEF g
  <2>2. new.pc = "loaded" /\ new.q = reader[t].q
    BY <1>0 DEF Call
  <2>3. reader' = [reader EXCEPT ![t] = new] /\ UNCHANGED flights
    BY <1>4, <2>1 DEF Load, g
  <2>. HIDE DEF new
  <2>. QED
    BY <2>2, <2>3, OneCallStep DEF Leading
<1>5. ASSUME NEW t \in Client, LoadFails(t) PROVE FlightsLed'
  <2>. DEFINE new == [reader[t] EXCEPT !.pc = "failed", !.rev = 0]
  <2>1. new.pc = "failed" /\ new.q = reader[t].q
    BY <1>0 DEF Call
  <2>2. reader' = [reader EXCEPT ![t] = new] /\ UNCHANGED flights
    BY <1>5 DEF LoadFails
  <2>. HIDE DEF new
  <2>. QED
    BY <2>1, <2>2, OneCallStep DEF Leading
<1>6. ASSUME NEW t \in Client, Close(t) PROVE FlightsLed'
  <2>1. NoCall.pc = "idle"
    BY DEF NoCall
  <2>. QED
    BY <1>6, <2>1, OneCallStep DEF Close, Leading
<1>7. ASSUME UNCHANGED <<flights, reader>> PROVE FlightsLed'
  BY <1>7 DEF FlightsLed
<1>8. CASE \/ LocalWrite \/ LocalInvalidate \/ ExternalWrite \/ BuildIndex \/ RoundPublished
           \/ ObserverTick \/ Observe \/ ObserveFails
  BY <1>7, <1>8 DEF LocalWrite, LocalInvalidate, ExternalWrite, BuildIndex, RoundPublished,
     ObserverTick, Observe, ObserveFails, service
<1>9. ASSUME NEW m \in Pauser, PauseStep(m) PROVE FlightsLed'
  BY <1>7, <1>9 DEF PauseStep, service
<1>10. ASSUME NEW m \in Maintainer, MaintenanceStep(m) \/ MaintenanceFails(m) PROVE FlightsLed'
  BY <1>7, <1>10 DEF MaintenanceStep, MaintenanceFails, service
<1>. QED
  BY <1>1, <1>2, <1>3, <1>4, <1>5, <1>6, <1>8, <1>9, <1>10, JoinLed, LandLed DEF LibraryNext, ReaderStep

-----------------------------------------------------------------------------
\* Pages that are out of date are noticed.

\* The observer knows revision n of the first file, and that is out of date when a page
\* is that was current when it was inserted.
Knows(n) ==
    /\ n \in Nat /\ n <= Revision
    /\ observer.conn = {[file |-> 1, seen |-> n]}
    /\ \A p \in pages : p.rev < Revision /\ ~p.late => n < Revision

Watching ==
    /\ ObservesFile
    /\ Undisturbed => generation = 0 /\ observer.gen = 0 /\ \E n \in Nat : Knows(n)

LEMMA WatchingNotices == DatabaseTypeOK /\ Watching => OutdatedNoticed
<1>. SUFFICES ASSUME DatabaseTypeOK, Watching, Undisturbed,
                     NEW p \in pages, p.rev < Revision, ~p.late
              PROVE  \E o \in observer.conn : o.seen < copies[o.file] /\ observer.gen = generation
  BY DEF OutdatedNoticed
<1>1. PICK n \in Nat : Knows(n)
  BY DEF Watching
<1>2. Current = 1 /\ copies[1] = Revision
  BY DEF Undisturbed, Current, Revision
<1>3. [file |-> 1, seen |-> n] \in observer.conn /\ n < Revision
  BY <1>1 DEF Knows
<1>. QED
  BY <1>2, <1>3 DEF Watching

\* Neither maintenance nor errors are undone.
LEMMA DisturbedStays ==
    ASSUME ServiceTypeOK, DatabaseTypeOK, FileInv, LibraryNext, Undisturbed'
    PROVE  Undisturbed
<1>1. Current' >= Current /\ Current \in Nat \ {0}
  BY RevisionStep, RevisionType, FileStepOnly
<1>2. Len(copies) = 1
  BY <1>1 DEF Undisturbed, Current
<1>3. errors = 0 \/ ObserveFails
  BY DEF Undisturbed, LibraryNext, ReaderStep, Ask, Open, OpenFails, Join, Load, LoadFails, Land, Close,
     LocalWrite, LocalInvalidate, ExternalWrite, BuildIndex, RoundPublished, ObserverTick, Observe,
     PauseStep, MaintenanceStep, MaintenanceFails, service
<1>4. ~ObserveFails
  BY DEF ObserveFails, ServiceTypeOK, Undisturbed
<1>5. ASSUME NEW m \in Pauser PROVE pauser[m] = "idle"
  <2>1. pauser'[m] = "idle"
    BY DEF Undisturbed
  <2>2. ASSUME NEW k \in Pauser, Pause(k) \/ Announce(k) \/ Enter(k) \/ Resume(k) PROVE pauser[m] = "idle"
    BY <2>1, <2>2 DEF Pause, Announce, Enter, Resume, ServiceTypeOK, GateTypeOK
  <2>3. UNCHANGED gate \/ \E k \in Pauser : Pause(k) \/ Announce(k) \/ Enter(k) \/ Resume(k)
    BY DEF LibraryNext, ReaderStep, Ask, Open, OpenFails, Join, Load, LoadFails, Land, Close,
       LocalWrite, LocalInvalidate, ExternalWrite, BuildIndex, RoundPublished, ObserverTick, Observe,
       ObserveFails, PauseStep, MaintenanceStep, MaintenanceFails
  <2>. QED
    BY <2>1, <2>2, <2>3 DEF gate
<1>. QED
  BY <1>2, <1>3, <1>4, <1>5 DEF Undisturbed

\* What the observer knows stays, and no page that is out of date is inserted as a
\* current one.
LEMMA KnowsStays ==
    ASSUME DatabaseTypeOK, ServiceTypeOK, NEW n \in Nat, Knows(n), observer'.conn = observer.conn,
           UNCHANGED copies \/ Revision' = Revision + 1, Revision' \in Nat,
           \A p \in pages' : p \in pages \/ (p \in Page /\ UNCHANGED copies /\ (p.rev < Revision => p.late))
    PROVE  Knows(n)'
<1>1. Revision \in Nat
  BY RevisionType
<1>2. UNCHANGED copies => Revision' = Revision
  BY DEF Revision, Current
<1>3. ASSUME NEW p \in pages', p.rev < Revision', ~p.late PROVE n < Revision'
  <2>1. CASE Revision' = Revision + 1
    BY <1>1, <2>1 DEF Knows
  <2>2. CASE UNCHANGED copies
    BY <1>2, <1>3, <2>2 DEF Knows
  <2>. QED
    BY <2>1, <2>2
<1>4. n <= Revision'
  BY <1>1, <1>2 DEF Knows
<1>. QED
  BY <1>3, <1>4 DEF Knows

LEMMA WatchingStep ==
    ASSUME ServiceTypeOK, DatabaseTypeOK, FileInv, Watching, LibraryNext
    PROVE  Watching'
<1>0. /\ FileStep \/ UNCHANGED database
      /\ Current \in Nat \ {0} /\ Revision \in Nat
  BY FileStepOnly, RevisionType
<1>1. /\ Current' >= Current /\ Current' \in Nat /\ Revision' \in Nat
      /\ Current' = Current => copies' = copies \/ Revision' = Revision + 1
  BY <1>0, RevisionStep
<1>2. ASSUME observer'.conn \subseteq observer.conn PROVE ObservesFile'
  BY <1>0, <1>1, <1>2 DEF Watching, ObservesFile
<1>3. Undisturbed' => Current = 1 /\ Current' = 1
  BY DisturbedStays DEF Undisturbed, Current
<1>4. ASSUME UNCHANGED <<generation, errors>>, observer'.conn = observer.conn, observer'.gen = observer.gen,
             \A p \in pages' : p \in pages \/ (p \in Page /\ UNCHANGED copies /\ (p.rev < Revision => p.late))
      PROVE  Watching'
  <2>1. ASSUME Undisturbed' PROVE \E n \in Nat : Knows(n)'
    <3>1. PICK n \in Nat : Knows(n)
      BY <2>1, DisturbedStays DEF Watching
    <3>. QED
      BY <1>1, <1>3, <1>4, <2>1, <3>1, KnowsStays
  <2>2. Undisturbed' => generation' = 0 /\ observer'.gen = 0
    BY <1>4, DisturbedStays DEF Watching
  <2>. QED
    BY <1>2, <1>4, <2>1, <2>2 DEF Watching
<1>5. ASSUME NEW t \in Client, Land(t) PROVE Watching'
  <2>1. UNCHANGED <<copies, generation, errors, observer>>
    BY <1>5 DEF Land, ReturnLease, gate
  <2>2. \A p \in pages' : p \in pages \/ (p \in Page /\ (p.rev < Revision => p.late))
    <3>1. CASE reader[t].pc = "loaded"
      <4>1. PICK p \in reader[t].page :
               LET new == [p EXCEPT !.late = p.rev < Revision] IN pages' \in Kept(WithPage(new), new)
        BY <1>5, <3>1 DEF Land
      <4>. DEFINE late == p.rev < Revision
                  new == [p EXCEPT !.late = late]
      <4>2. p \in Page /\ late \in BOOLEAN
        BY DEF ServiceTypeOK, Call
      <4>3. pages' \in Kept(WithPage(new), new)
        BY <4>1
      <4>4. p.rev < Revision => late
        OBVIOUS
      <4>. HIDE DEF late
      <4>5. new \in Page /\ new.rev = p.rev /\ new.late = late
        BY <4>2 DEF Page
      <4>6. new.rev < Revision => new.late
        BY <4>4, <4>5
      <4>. HIDE DEF new
      <4>. QED
        BY <4>3, <4>5, <4>6 DEF Kept, WithPage
    <3>2. CASE reader[t].pc # "loaded"
      BY <1>5, <3>2 DEF Land
    <3>. QED
      BY <3>1, <3>2
  <2>. QED
    BY <1>4, <2>1, <2>2
<1>6. ASSUME NEW t \in Client, Open(t) \/ OpenFails(t) \/ Join(t) \/ Load(t) \/ LoadFails(t) \/ Close(t)
      PROVE  Watching'
  BY <1>4, <1>6 DEF Open, OpenFails, Join, Load, LoadFails, Close, gate
<1>7. ASSUME NEW t \in Client, NEW q \in Query, Ask(t, q) PROVE Watching'
  BY <1>4, <1>7 DEF Ask, gate
<1>8. CASE LocalWrite \/ LocalInvalidate \/ ExternalWrite \/ BuildIndex \/ RoundPublished
  BY <1>4, <1>8 DEF LocalWrite, LocalInvalidate, ExternalWrite, BuildIndex, RoundPublished, gate, service
<1>9. CASE ObserverTick
  <2>1. observer'.conn = observer.conn /\ observer'.gen = observer.gen
    BY <1>9 DEF ObserverTick, ServiceTypeOK, Observing
  <2>. QED
    BY <1>4, <1>9, <2>1 DEF ObserverTick, gate
<1>10. CASE ObserveFails
  <2>1. observer'.conn = {} /\ errors' # 0
    BY <1>10 DEF ObserveFails, ServiceTypeOK, Observing
  <2>. QED
    BY <2>1, <1>2 DEF Watching, Undisturbed
<1>11. CASE Observe
  <2>0. UNCHANGED <<copies, pauser, generation, errors>> /\ Revision' = Revision /\ Current' = Current
    BY <1>11 DEF Observe, database, gate, Revision, Current
  <2>1. CASE generation # observer.gen \/ observer.conn = {}
    <3>1. observer' = [pc |-> "sleep", conn |-> ObservedNow, gen |-> generation]
      BY <1>11, <2>1 DEF Observe
    <3>2. ~Undisturbed'
      <4>1. SUFFICES ASSUME Undisturbed' PROVE FALSE
        OBVIOUS
      <4>2. PICK n \in Nat : Knows(n)
        BY <4>1, DisturbedStays DEF Watching
      <4>3. generation = observer.gen
        BY <4>1, DisturbedStays DEF Watching
      <4>. QED
        BY <2>1, <4>2, <4>3 DEF Knows
    <3>3. ObservesFile'
      BY <1>0, <2>0, <3>1 DEF ObservesFile, ObservedNow
    <3>. QED
      BY <3>2, <3>3 DEF Watching
  <2>2. CASE ~(generation # observer.gen \/ observer.conn = {})
    <3>1. PICK o \in observer.conn :
            /\ observer' = [observer EXCEPT !.pc = "sleep", !.conn = {[o EXCEPT !.seen = copies[o.file]]}]
            /\ pages' = IF copies[o.file] # o.seen THEN {} ELSE pages
      BY <1>11, <2>2 DEF Observe
    <3>. DEFINE new == [o EXCEPT !.seen = copies[o.file]]
    <3>2. o \in [file : Nat, seen : Nat] /\ observer \in Observing
      BY DEF ServiceTypeOK, Observing
    <3>3. new = [file |-> o.file, seen |-> copies[o.file]]
      BY <3>2
    <3>4. observer'.conn = {new} /\ observer'.gen = observer.gen
      BY <3>1, <3>2 DEF Observing
    <3>5. ObservesFile'
      BY <2>0, <3>3, <3>4 DEF Watching, ObservesFile
    <3>6. ASSUME Undisturbed' PROVE generation' = 0 /\ observer'.gen = 0 /\ Knows(Revision)'
      <4>1. PICK n \in Nat : Knows(n)
        BY <3>6, DisturbedStays DEF Watching
      <4>2. o = [file |-> 1, seen |-> n] /\ copies[1] = Revision
        BY <1>3, <3>6, <4>1 DEF Knows, Revision
      <4>3. observer'.conn = {[file |-> 1, seen |-> Revision']}
        BY <2>0, <3>3, <3>4, <4>2
      <4>4. ASSUME NEW p \in pages', p.rev < Revision, ~p.late PROVE FALSE
        BY <1>0, <3>1, <4>1, <4>2, <4>4 DEF Knows
      <4>5. generation' = 0 /\ observer'.gen = 0
        BY <2>0, <3>4, <3>6, DisturbedStays DEF Watching
      <4>. QED
        BY <1>1, <2>0, <4>3, <4>4, <4>5 DEF Knows
    <3>. QED
      BY <1>1, <3>5, <3>6 DEF Watching
  <2>. QED
    BY <2>1, <2>2
<1>12. ASSUME NEW m \in Pauser, PauseStep(m) PROVE Watching'
  <2>1. pauser'[m] # "idle" /\ UNCHANGED observer
    BY <1>12 DEF PauseStep, Pause, Announce, Enter, Resume, ServiceTypeOK, GateTypeOK, service
  <2>. QED
    BY <1>2, <2>1 DEF Watching, Undisturbed
<1>13. ASSUME NEW m \in Maintainer, MaintenanceStep(m) \/ MaintenanceFails(m) PROVE Watching'
  BY <1>4, <1>13 DEF MaintenanceStep, MaintenanceFails, gate, service
<1>. QED
  BY <1>5, <1>6, <1>7, <1>8, <1>9, <1>10, <1>11, <1>12, <1>13 DEF LibraryNext, ReaderStep

-----------------------------------------------------------------------------
\* The invariant of the service, and what follows.

LibraryIInv ==
    /\ DatabaseTypeOK /\ FileInv
    /\ ServiceTypeOK
    /\ PagesKnown
    /\ FlightsLed
    /\ Watching

LEMMA InitInv == LibraryInit => LibraryIInv
<1>. SUFFICES ASSUME LibraryInit PROVE LibraryIInv
  OBVIOUS
<1>. USE DEF LibraryInit
<1>0. copies = <<0>> /\ Len(copies) = 1 /\ copies[1] = 0 /\ Current = 1 /\ Revision = 0
  BY DEF DatabaseInit, Current, Revision
<1>1. DatabaseTypeOK
  BY <1>0 DEF DatabaseInit, DatabaseTypeOK
<1>2. FileInv
  BY DEF DatabaseInit, FileInv, ConnectionsCurrent
<1>3. reader = [t \in Client |-> NoCall] /\ NoCall \in Call
  BY QueryAssumption, NoCallType
<1>4. observer = [pc |-> "sleep", conn |-> {[file |-> 1, seen |-> 0]}, gen |-> 0]
  BY <1>0 DEF ObservedNow
<1>5. observer \in Observing
  BY <1>4 DEF Observing
<1>6. ServiceTypeOK
  <2>1. GateTypeOK
    BY DEF GateInit, GateTypeOK
  <2>. QED
    BY <1>3, <1>5, <2>1, EmptyCache DEF ServiceTypeOK
<1>7. NoCall.page = {} /\ NoCall.pc = "idle"
  BY DEF NoCall
<1>8. PagesKnown
  BY <1>3, <1>7 DEF PagesKnown
<1>9. FlightsLed
  BY <1>3, <1>7 DEF FlightsLed
<1>10. Watching
  <2>1. ObservesFile
    BY <1>0, <1>4 DEF ObservesFile
  <2>2. Knows(0)
    BY <1>0, <1>4 DEF Knows
  <2>3. generation = 0 /\ observer.gen = 0
    BY <1>4 DEF GateInit
  <2>. QED
    BY <2>1, <2>2, <2>3 DEF Watching
<1>. QED
  BY <1>1, <1>2, <1>6, <1>8, <1>9, <1>10 DEF LibraryIInv

\* Nothing of the invariant depends on anything else than the variables.
LEMMA StutterInv == LibraryIInv /\ UNCHANGED libraryVars => LibraryIInv'
<1>. SUFFICES ASSUME LibraryIInv, UNCHANGED libraryVars PROVE LibraryIInv'
  OBVIOUS
<1>. USE DEF LibraryIInv, libraryVars, database, gate, service
<1>1. Revision' = Revision /\ Current' = Current /\ SharedLocked' = SharedLocked
  BY DEF Revision, Current, SharedLocked
<1>2. DatabaseTypeOK'
  BY DEF DatabaseTypeOK
<1>3. FileInv'
  BY <1>1 DEF FileInv, ConnectionsCurrent
<1>4. ServiceTypeOK'
  BY DEF ServiceTypeOK, GateTypeOK
<1>5. PagesKnown'
  BY <1>1 DEF PagesKnown, Known
<1>6. FlightsLed'
  BY DEF FlightsLed
<1>7. Watching'
  BY <1>1 DEF Watching, ObservesFile, Undisturbed, Knows
<1>. QED
  BY <1>2, <1>3, <1>4, <1>5, <1>6, <1>7

LEMMA NextInv == LibraryIInv /\ LibraryNext => LibraryIInv'
<1>. SUFFICES ASSUME LibraryIInv, LibraryNext PROVE LibraryIInv'
  OBVIOUS
<1>. USE DEF LibraryIInv
<1>1. DatabaseTypeOK' /\ FileInv'
  <2>1. CASE FileStep
    BY <2>1, FileStepInv
  <2>2. CASE UNCHANGED database
    <3>1. Revision' = Revision /\ Current' = Current /\ SharedLocked' = SharedLocked
      BY <2>2 DEF database, Revision, Current, SharedLocked
    <3>. QED
      BY <2>2, <3>1 DEF database, DatabaseTypeOK, FileInv, ConnectionsCurrent
  <2>. QED
    BY <2>1, <2>2, FileStepOnly
<1>2. ServiceTypeOK'
  BY ServiceTypeStep DEF Watching
<1>3. PagesKnown'
  BY <1>2, PagesStep
<1>4. FlightsLed'
  BY FlightsStep
<1>5. Watching'
  BY WatchingStep
<1>. QED
  BY <1>1, <1>2, <1>3, <1>4, <1>5

\* Every state of the service satisfies the invariant.
THEOREM LibraryInvariance == LibrarySpec => []LibraryIInv
<1>1. LibraryIInv /\ [LibraryNext]_libraryVars => LibraryIInv'
  BY NextInv, StutterInv
<1>. QED
  BY <1>1, InitInv, PTL DEF LibrarySpec

\* All variables of the database, the gate and the service have the types that the
\* declarations in library_service.rs and connection.rs give them, whatever the limits.
THEOREM LibraryTypesCorrect == LibrarySpec => []LibraryTypeOK
<1>1. LibraryIInv => LibraryTypeOK
  BY DEF LibraryIInv, ServiceTypeOK, LibraryTypeOK, Call, Progress, Observing
<1>. QED
  BY <1>1, LibraryInvariance, PTL

\* No connection of any process is open on a file that a restore or a repair has
\* replaced (connection.rs: shared locks of open connections, also idle ones, and the
\* exclusive lock of the maintenance).
THEOREM NoConnectionOutlivesItsFile == LibrarySpec => []ConnectionsCurrent
<1>1. LibraryIInv => ConnectionsCurrent
  BY DEF LibraryIInv, FileInv
<1>. QED
  BY <1>1, LibraryInvariance, PTL

\* A page that is kept is never ahead of the database, and one of its current revision
\* shows the file that is there, through any number of restores (library_service.rs
\* insert_page; backup.rs next revision of a restored copy).
THEOREM PagesShowTheirRevision == LibrarySpec => []PageOfItsRevision
<1>1. LibraryIInv => PageOfItsRevision
  BY DEF LibraryIInv, PagesKnown, Known, PageOfItsRevision
<1>. QED
  BY <1>1, LibraryInvariance, PTL

\* Every load that others may join or wait for has exactly one leader that is loading it
\* (library_service.rs page, single flight).
THEOREM NoDeadFlight == LibrarySpec => []FlightsLed
<1>1. LibraryIInv => FlightsLed
  BY DEF LibraryIInv
<1>. QED
  BY <1>1, LibraryInvariance, PTL

\* The next look of the observer empties the cache when a page in it, current when it was
\* inserted, is out of date (library_service.rs observe_revision).
THEOREM NothingOutdatedUnnoticed == LibrarySpec => []OutdatedNoticed
<1>1. LibraryIInv => OutdatedNoticed
  BY WatchingNotices DEF LibraryIInv
<1>. QED
  BY <1>1, LibraryInvariance, PTL

\* The files, locks and cached connections implement one library, whose revision only
\* grows, which shows everybody who is connected the same, and which is replaced by one
\* at a time while nobody is connected.
THEOREM FilesAreOneLibrary == LibrarySpec => OneLibrary
<1>1. LibraryInit => Shared!SharedInit
  <2>1. SUFFICES ASSUME LibraryInit PROVE Shared!SharedInit
    OBVIOUS
  <2>2. copies = <<0>> /\ Len(copies) = 1 /\ Revision = 0 /\ exclusive = {}
    BY <2>1 DEF LibraryInit, DatabaseInit, Revision, Current
  <2>3. ~SharedLocked
    BY <2>1 DEF LibraryInit, DatabaseInit, SharedLocked
  <2>. QED
    BY <2>2, <2>3, NoViews DEF Shared!SharedInit
<1>2. LibraryIInv /\ LibraryIInv' /\ Visible' /\ [LibraryNext]_libraryVars
      => [Shared!SharedNext]_(Shared!shared)
  <2>1. SUFFICES ASSUME LibraryIInv, LibraryIInv', Visible', [LibraryNext]_libraryVars
                 PROVE  [Shared!SharedNext]_(Shared!shared)
    OBVIOUS
  <2>2. CASE FileStep
    BY <2>1, <2>2, SharedStep DEF LibraryIInv
  <2>3. CASE UNCHANGED database
    <3>1. OpenViews' = OpenViews
      BY <2>3, SameViews DEF database
    <3>2. Revision' = Revision /\ Len(copies)' = Len(copies) /\ exclusive' = exclusive
      BY <2>3 DEF database, Revision, Current
    <3>. QED
      BY <3>1, <3>2 DEF Shared!shared
  <2>. QED
    BY <2>1, <2>2, <2>3, FileStepOnly DEF libraryVars
<1>. QED
  BY <1>1, <1>2, LibraryInvariance, ViewsOfRevision, PTL DEF LibrarySpec, OneLibrary, Shared!SharedSpec
=============================================================================
