---------------------------- MODULE LibraryService ----------------------------
(***************************************************************************)
(* The pages of the library that the GUI shows (src-tauri                  *)
(* library_service.rs): a cache of pages by revision and query, the last   *)
(* page of every query kept as a stale one, loads shared by the threads    *)
(* that ask for the same page, and a thread that observes the revision of  *)
(* the database and empties the cache when another connection changed it.  *)
(* Restores and repairs pause the service through MaintenanceGate and      *)
(* replace the file of DatabaseFile.                                       *)
(***************************************************************************)
EXTENDS DatabaseFile, MaintenanceGate

CONSTANTS
    GuiProcess,          \* the process the service is part of
    Query,        \* criteria a page is asked for
    MaxPages,     \* MAX_PAGE_COUNT, of pages and of stale pages
    MaxCommits,   \* bound: commits stop at this revision, at twice it in the second file, ...
    MaxErrors     \* bound on errors of the observer

ASSUME GuiAssumption ==
    /\ GuiProcess \in Process
    /\ Pauser \subseteq Maintainer
    /\ \A t \in Client \cup Pauser : ProcessOf[t] = GuiProcess
ASSUME QueryAssumption == Query # {}
ASSUME BoundsAssumption == MaxPages \in Nat \ {0} /\ MaxCommits \in Nat /\ MaxErrors \in Nat

VARIABLES
    pages,       \* the pages kept; each is of one revision and query
    stale,       \* for a query the page inserted last
    flights,     \* the loads under way: query, revision it was asked at, leader
    refreshing,  \* stale_refreshes: queries a background thread loads
    reader,      \* reader[t]: a call of page, and the refresh it leaves behind
    observer,    \* the observer thread: progress, its connection, generation it knows
    unannounced, \* local writes that are committed, not yet invalidated
    errors       \* errors of the observer so far

service == <<pages, stale, flights, refreshing, reader, observer, unannounced, errors>>
libraryVars == <<database, gate, service>>

\* late: the revision was out of date already when the page was inserted.
Page == [q : Query, rev : Nat, file : Nat, late : BOOLEAN]
Flight == [q : Query, rev : Nat, by : Client]

\* A call that has not begun. rev: the revision it read; page: what it loaded, at most
\* one page; on: the leader it waits for; bg: its caller has its answer. What a call
\* returns is the page it found, loaded or waited for, and is not kept.
NoCall == [pc |-> "idle", q |-> CHOOSE q \in Query : TRUE, rev |-> 0, page |-> {}, on |-> {}, bg |-> FALSE]

CachedFor(q) == {p \in pages : p.q = q}
StaleFor(q) == {p \in stale : p.q = q}

\* insert_page: p takes the place of the page with its key; also as the stale page of its
\* query, whatever the revision of that was.
WithPage(p) == {x \in pages : x.q # p.q \/ x.rev # p.rev} \cup {p}
WithStale(p) == {x \in stale : x.q # p.q} \cup {p}

\* What is left of s when p has been inserted: which pages the limits on their number and
\* on their bytes cost, least recently used first, is left open.
Kept(s, p) == {k \in SUBSET s : p \in k /\ Cardinality(k) <= MaxPages}

ObservedNow == {[file |-> Current, seen |-> Revision]}

LibraryInit ==
    /\ DatabaseInit /\ GateInit
    /\ pages = {} /\ stale = {} /\ flights = {} /\ refreshing = {}
    /\ reader = [t \in Client |-> NoCall]
    /\ observer = [pc |-> "sleep", conn |-> ObservedNow, gen |-> 0]
    /\ unannounced = 0 /\ errors = 0

-----------------------------------------------------------------------------
(* page.                                                                   *)

\* A page of the query that is kept is the answer, without a look at the database, and
\* nothing changes; so is the stale one, but the first call that gives it leaves a refresh.
Ask(t, q) ==
    /\ reader[t].pc = "idle" /\ CachedFor(q) = {}
    /\ StaleFor(q) # {} => q \notin refreshing
    /\ reader' = [reader EXCEPT ![t] =
                     [NoCall EXCEPT !.pc = "open", !.q = q, !.bg = StaleFor(q) # {}]]
    /\ refreshing' = IF StaleFor(q) = {} THEN refreshing ELSE refreshing \cup {q}
    /\ UNCHANGED <<database, gate, pages, stale, flights, observer, unannounced, errors>>

\* The idle connection, or a new one; then its revision is read.
Open(t) ==
    /\ reader[t].pc = "open"
    /\ TakeIdle(t) \/ OpenFresh(t)
    /\ reader' = [reader EXCEPT ![t] = [@ EXCEPT !.pc = "join", !.rev = Revision]]
    /\ UNCHANGED <<gate, pages, stale, flights, refreshing, observer, unannounced, errors>>

\* storage_failure_or_stale.
OpenFails(t) ==
    /\ OpenTimesOut(t)
    /\ reader[t].pc = "open"
    /\ reader' = [reader EXCEPT ![t].pc = "close"]
    /\ UNCHANGED <<gate, pages, stale, flights, refreshing, observer, unannounced, errors>>

\* A page of that revision may have come meanwhile, or may be under way.
Join(t) ==
    LET r == reader[t]
        same == {f \in flights : f.q = r.q /\ f.rev = r.rev} IN
    /\ r.pc = "join"
    /\ CASE \E p \in CachedFor(r.q) : p.rev = r.rev ->
              /\ reader' = [reader EXCEPT ![t] = [@ EXCEPT !.pc = "close", !.rev = 0]]
              /\ UNCHANGED flights
         [] (\A p \in CachedFor(r.q) : p.rev # r.rev) /\ same # {} ->
              /\ reader' = [reader EXCEPT ![t] = [@ EXCEPT !.pc = "wait", !.on = {f.by : f \in same}]]
              /\ UNCHANGED flights
         [] OTHER ->
              /\ reader' = [reader EXCEPT ![t].pc = "load"]
              /\ flights' = flights \cup {[q |-> r.q, rev |-> r.rev, by |-> t]}
    /\ UNCHANGED <<database, gate, pages, stale, refreshing, observer, unannounced, errors>>

\* The page is read in one transaction, at the revision it finds.
Load(t) ==
    /\ reader[t].pc = "load"
    /\ \E c \in lease[t] :
          reader' = [reader EXCEPT ![t] = [@ EXCEPT !.pc = "loaded", !.rev = 0, !.page =
                        {[q |-> reader[t].q, rev |-> copies[c.file], file |-> c.file, late |-> FALSE]}]]
    /\ UNCHANGED <<database, gate, pages, stale, flights, refreshing, observer, unannounced, errors>>

\* The deadline of two seconds, an error of the database (the stale page is the answer
\* then), or a cursor that is no longer valid.
LoadFails(t) ==
    /\ reader[t].pc = "load"
    /\ reader' = [reader EXCEPT ![t] = [@ EXCEPT !.pc = "failed", !.rev = 0]]
    /\ UNCHANGED <<database, gate, pages, stale, flights, refreshing, observer, unannounced, errors>>

\* Mutant: only a success is given to those who wait.
FollowersOfSuccess(t) == IF reader[t].pc = "failed" THEN {} ELSE {u \in Client : reader[u].pc = "wait" /\ reader[u].on = {t}}

\* What a load has come to is given to all who wait for it.
Followers(t) == {u \in Client : reader[u].pc = "wait" /\ reader[u].on = {t}}

\* The leader keeps what it loaded, ends the flight and returns; a refresh that is over
\* lets the next one begin.
Land(t) ==
    /\ reader[t].pc \in {"loaded", "failed"}
    /\ IF reader[t].pc = "loaded"
       THEN \E p \in reader[t].page :
               /\ LET new == [p EXCEPT !.late = p.rev < Revision] IN pages' \in Kept(WithPage(new), new)
               /\ stale' \in Kept(WithStale(p), p)
       ELSE UNCHANGED <<pages, stale>>
    /\ flights' = {f \in flights : f.by # t}
    /\ reader' = [u \in Client |->
          CASE u = t -> NoCall
            [] u \in Followers(t) -> [reader[u] EXCEPT !.pc = "close", !.rev = 0, !.on = {}]
            [] OTHER -> reader[u]]
    /\ refreshing' = IF reader[t].bg THEN refreshing \ {reader[t].q} ELSE refreshing
    /\ ReturnLease(t)
    /\ UNCHANGED <<gate, observer, unannounced, errors>>

\* All others return too; the connection is dropped with the call.
Close(t) ==
    /\ reader[t].pc = "close"
    /\ ReturnLease(t)
    /\ refreshing' = IF reader[t].bg THEN refreshing \ {reader[t].q} ELSE refreshing
    /\ reader' = [reader EXCEPT ![t] = NoCall]
    /\ UNCHANGED <<gate, pages, stale, flights, observer, unannounced, errors>>

-----------------------------------------------------------------------------
(* Writes, and the observer that notices those of others.                  *)

\* One call of the storage: the idle connection, or a new one that is idle afterwards.
StorageCall ==
    IF idle[GuiProcess] = {} THEN {[gen |-> cacheGen[GuiProcess], file |-> Current]} ELSE idle[GuiProcess]

MayCommit == Revision < MaxCommits * Len(copies)

LocalCommit ==
    /\ exclusive = {} /\ MayCommit
    /\ idle' = [idle EXCEPT ![GuiProcess] = StorageCall]
    /\ \E c \in StorageCall : copies' = CommittedOn(c)
    /\ UNCHANGED <<exclusive, cacheGen, lease, task>>

\* A command of the GUI commits, and empties the cache when the storage has returned.
LocalWrite ==
    /\ LocalCommit
    /\ unannounced' = unannounced + 1
    /\ UNCHANGED <<gate, pages, stale, flights, refreshing, reader, observer, errors>>

LocalInvalidate ==
    /\ unannounced > 0 /\ unannounced' = unannounced - 1
    /\ pages' = {} /\ stale' = {}
    /\ UNCHANGED <<database, gate, flights, refreshing, reader, observer, errors>>

\* Another process commits, or a background round of the scheduler, which empties the
\* cache when it has ended.
ExternalWrite ==
    /\ exclusive = {} /\ MayCommit
    /\ copies' = [copies EXCEPT ![Current] = @ + 1]
    /\ UNCHANGED <<exclusive, cacheGen, idle, lease, task, gate, service>>

\* The thread that builds the full-text index looks whether maintenance is on, and opens
\* a connection afterwards, whatever has come since.
BuildIndex ==
    /\ exclusive = {} /\ idle[GuiProcess] = {}
    /\ idle' = [idle EXCEPT ![GuiProcess] = StorageCall]
    /\ UNCHANGED <<copies, exclusive, cacheGen, lease, task, gate, service>>

RoundPublished ==
    /\ pages # {} /\ pages' = {}
    /\ UNCHANGED <<database, gate, stale, flights, refreshing, reader, observer, unannounced, errors>>

\* Twice a second the observer looks whether maintenance is on, and only then goes on.
ObserverTick ==
    /\ observer.pc = "sleep" /\ ~Paused
    /\ observer' = [observer EXCEPT !.pc = "look"]
    /\ UNCHANGED <<database, gate, pages, stale, flights, refreshing, reader, unannounced, errors>>

\* Mutant: what it knows moves on with every look, the cache stays.
ObserveBlindly ==
    /\ observer.pc = "look"
    /\ observer' = [pc |-> "sleep", conn |-> ObservedNow, gen |-> generation]
    /\ UNCHANGED <<database, gate, pages, stale, flights, refreshing, reader, unannounced, errors>>

\* After maintenance, or an error, it opens the file anew and takes what is there for
\* known; else a revision other than the one it knows empties the cache.
Observe ==
    /\ observer.pc = "look"
    /\ IF generation # observer.gen \/ observer.conn = {}
       THEN /\ observer' = [pc |-> "sleep", conn |-> ObservedNow, gen |-> generation]
            /\ UNCHANGED pages
       ELSE \E o \in observer.conn :
              /\ observer' = [observer EXCEPT !.pc = "sleep", !.conn = {[o EXCEPT !.seen = copies[o.file]]}]
              /\ pages' = IF copies[o.file] # o.seen THEN {} ELSE pages
    /\ UNCHANGED <<database, gate, stale, flights, refreshing, reader, unannounced, errors>>

ObserveFails ==
    /\ observer.pc = "look" /\ errors < MaxErrors
    /\ errors' = errors + 1
    /\ observer' = [observer EXCEPT !.pc = "sleep", !.conn = {}]
    /\ UNCHANGED <<database, gate, pages, stale, flights, refreshing, reader, unannounced>>

-----------------------------------------------------------------------------
(* Maintenance, from the GUI under a pause, or from another process.       *)

Admitted(m) == m \in Pauser => pauser[m] \in {"in", "nested"}

\* The first pause drops pages and idle connections before it waits.
PauseStep(m) ==
    /\ \/ task[m].pc = "new" /\ Pause(m) /\ UNCHANGED <<database, service>>
       \/ /\ Announce(m)
          /\ pages' = {} /\ stale' = {}
          /\ InvalidateConnections(GuiProcess)
          /\ UNCHANGED <<copies, exclusive, lease, task, flights, refreshing, reader, observer, unannounced, errors>>
       \/ Enter(m) /\ UNCHANGED <<database, service>>
       \/ task[m].pc = "over" /\ Resume(m) /\ UNCHANGED <<database, service>>

MaintenanceStep(m) ==
    /\ Admitted(m)
    /\ (Stage(m) \/ LockDatabase(m) \/ LockTimesOut(m) \/ PublishDatabase(m))
    /\ UNCHANGED <<gate, service>>

MaintenanceFails(m) ==
    /\ Admitted(m) /\ AbandonMaintenance(m)
    /\ UNCHANGED <<gate, service>>

-----------------------------------------------------------------------------
ReaderStep(t) ==
    Open(t) \/ OpenFails(t) \/ Join(t) \/ Load(t) \/ LoadFails(t) \/ Land(t) \/ Close(t)

LibraryNext ==
    \/ \E t \in Client, q \in Query : Ask(t, q)
    \/ \E t \in Client : ReaderStep(t)
    \/ LocalWrite \/ LocalInvalidate \/ ExternalWrite \/ BuildIndex \/ RoundPublished
    \/ ObserverTick \/ Observe \/ ObserveFails
    \/ \E m \in Pauser : PauseStep(m)
    \/ \E m \in Maintainer : MaintenanceStep(m) \/ MaintenanceFails(m)

\* The scheduler of the threads is fair, rounds end, and so does maintenance.
LibraryFairness ==
    /\ \A t \in Client : WF_libraryVars(ReaderStep(t))
    /\ WF_libraryVars(LocalInvalidate)
    /\ WF_libraryVars(ObserverTick) /\ WF_libraryVars(Observe)
    /\ \A m \in Maintainer : WF_libraryVars(MaintenanceStep(m))
    /\ \A m \in Pauser : WF_libraryVars(PauseStep(m))

LibrarySpec == LibraryInit /\ [][LibraryNext]_libraryVars

-----------------------------------------------------------------------------
LibraryTypeOK ==
    /\ DatabaseTypeOK /\ GateTypeOK
    /\ pages \subseteq Page /\ Cardinality(pages) <= MaxPages
    /\ stale \subseteq Page /\ Cardinality(stale) <= MaxPages
    /\ flights \subseteq Flight
    /\ refreshing \subseteq Query
    /\ reader \in [Client -> [pc : {"idle", "open", "join", "wait", "load", "loaded", "failed", "close"},
                              q : Query, rev : Nat, page : SUBSET Page, on : SUBSET Client, bg : BOOLEAN]]
    /\ observer \in [pc : {"sleep", "look"}, conn : SUBSET [file : Nat, seen : Nat], gen : Nat]
    /\ unannounced \in Nat /\ errors \in Nat

\* A page that is kept is never ahead of the database, and one of the current revision
\* shows the file that is there, also after restores of copies with revisions of their
\* own: else it would be taken for current until the revision grows past it.
PageOfItsRevision ==
    \A p \in pages \cup stale :
       p.rev <= Revision /\ (p.rev = Revision => p.file = Current)

\* Who waits for a load waits for somebody who is loading, and every load that others
\* may join has a leader: no dead flight.
FlightsLed ==
    /\ \A f \in flights : reader[f.by].pc \in {"load", "loaded", "failed"} /\ reader[f.by].q = f.q
    /\ \A f, g \in flights : f.by = g.by \/ (f.q = g.q /\ f.rev = g.rev) => f = g
    /\ \A t \in Client : reader[t].pc = "wait" =>
          \E f \in flights : reader[t].on = {f.by} /\ f.q = reader[t].q /\ f.rev = reader[t].rev

\* Nothing has gone wrong for the observer, and no maintenance has begun.
Undisturbed == errors = 0 /\ Len(copies) = 1 /\ \A m \in Pauser : pauser[m] = "idle"

\* A page that was current when it was inserted does not stay in the cache unnoticed when
\* it is out of date: the observer knows an older revision only, so that its next look
\* empties the cache.
OutdatedNoticed ==
    Undisturbed =>
       \A p \in pages : p.rev < Revision /\ ~p.late =>
          \E o \in observer.conn : o.seen < copies[o.file] /\ observer.gen = generation

OutOfDate == \E p \in pages : p.rev < Revision

\* A page that is out of date leaves the cache in the end (test
\* observer_invalidates_external_revision_within_one_second).
OutdatedPagesLeave == OutOfDate ~> ~OutOfDate
=============================================================================
