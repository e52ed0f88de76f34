----------------------------- MODULE DatabaseFile -----------------------------
(***************************************************************************)
(* The database file of the library and the connections to it (wc-storage  *)
(* sqlite/connection.rs, backup.rs, library_revision.rs).                  *)
(*                                                                         *)
(* Every connection holds two file locks shared for as long as it is open, *)
(* and each process keeps one idle connection open for reuse.  A restore   *)
(* or a repair replaces the file by a rename under the exclusive lock; its *)
(* process drops the idle connection first, so that it does not wait for   *)
(* itself.                                                                 *)
(***************************************************************************)
EXTENDS Naturals, Sequences, FiniteSets

CONSTANTS
    Process,     \* processes that share the configuration directory
    Client,      \* threads that use runtime connections
    Maintainer,  \* restores and repairs; each runs once in a run of the model, or never
    ProcessOf,   \* [Client \cup Maintainer -> Process]
    Candidate    \* library revisions of the databases that are restored

ASSUME ProcessesAssumption == ProcessOf \in [Client \cup Maintainer -> Process]
ASSUME CandidateAssumption == Candidate \subseteq Nat

VARIABLES
    copies,     \* copies[i]: library revision of the i-th file at the path; the last is there now
    exclusive,  \* who holds the maintenance lock exclusively: at most one
    cacheGen,   \* cacheGen[p]: CACHE_GENERATION of process p
    idle,       \* idle[p]: RUNTIME_CONNECTION_CACHE, at most one connection
    lease,      \* lease[t]: the RuntimeConnection of t, at most one
    task        \* task[m]: progress of a restore or repair, and the revision it replaces

database == <<copies, exclusive, cacheGen, idle, lease, task>>

Connection == [gen : Nat, file : Nat]

Current == Len(copies)
Revision == copies[Current]

\* Someone holds the maintenance lock shared.
SharedLocked == (\E p \in Process : idle[p] # {}) \/ (\E t \in Client : lease[t] # {})

LargerOf(x, y) == IF x < y THEN y ELSE x

DatabaseInit ==
    /\ copies = <<0>>
    /\ exclusive = {}
    /\ cacheGen = [p \in Process |-> 0]
    /\ idle = [p \in Process |-> {}]
    /\ lease = [t \in Client |-> {}]
    /\ task \in [Maintainer -> [pc : {"new", "over"}, seen : {0}]]

-----------------------------------------------------------------------------
(* Runtime connections.                                                    *)

\* The idle connection is taken out of the cache, if it is of the current generation;
\* else it is dropped and a new one opened.
TakeIdle(t) ==
    LET p == ProcessOf[t]
        usable == {c \in idle[p] : c.gen = cacheGen[p]} IN
    /\ usable # {}
    /\ lease' = [lease EXCEPT ![t] = usable]
    /\ idle' = [idle EXCEPT ![p] = {}]
    /\ UNCHANGED <<copies, exclusive, cacheGen, task>>

\* A new one waits for the maintenance lock, two seconds at most (OpenTimesOut).
OpenFresh(t) ==
    LET p == ProcessOf[t] IN
    /\ exclusive = {}
    /\ \A c \in idle[p] : c.gen # cacheGen[p]
    /\ lease' = [lease EXCEPT ![t] = {[gen |-> cacheGen[p], file |-> Current]}]
    /\ idle' = [idle EXCEPT ![p] = {}]
    /\ UNCHANGED <<copies, exclusive, cacheGen, task>>

OpenTimesOut(t) ==
    /\ exclusive # {}
    /\ UNCHANGED database

\* The drop of a lease: back to the cache, unless it was invalidated meanwhile or
\* another connection is there.
Returned(t) ==
    LET p == ProcessOf[t] IN
    IF idle[p] = {} THEN {c \in lease[t] : c.gen = cacheGen[p]} ELSE idle[p]

ReturnLease(t) ==
    /\ idle' = [idle EXCEPT ![ProcessOf[t]] = Returned(t)]
    /\ lease' = [lease EXCEPT ![t] = {}]
    /\ UNCHANGED <<copies, exclusive, cacheGen, task>>

InvalidateConnections(p) ==
    /\ cacheGen' = [cacheGen EXCEPT ![p] = @ + 1]
    /\ idle' = [idle EXCEPT ![p] = {}]

\* A transaction changes the library and increments its revision, in the file of the
\* connection it runs on.
CommittedOn(c) == [copies EXCEPT ![c.file] = @ + 1]

-----------------------------------------------------------------------------
(* restore and repair.                                                     *)

Advance(m, from, to) ==
    /\ task[m].pc = from
    /\ task' = [task EXCEPT ![m].pc = to]

\* The candidate of a restore is staged before the lock is asked for; to ask for it
\* starts with the idle connection of the process.
Stage(m) ==
    /\ Advance(m, "new", "lock")
    /\ InvalidateConnections(ProcessOf[m])
    /\ UNCHANGED <<copies, exclusive, lease>>

\* Mutant: connections that wait in a cache are not noticed.
UnlockedButIdle(m) == exclusive = {} /\ \A t \in Client : lease[t] = {}

Unlocked(m) == exclusive = {} /\ ~SharedLocked

\* Under the lock the revision of what is there is read and a backup of it made.
LockDatabase(m) ==
    /\ Unlocked(m)
    /\ task[m].pc = "lock"
    /\ task' = [task EXCEPT ![m] = [pc |-> "locked", seen |-> Revision]]
    /\ exclusive' = {m}
    /\ UNCHANGED <<copies, cacheGen, idle, lease>>

\* Five seconds have passed.
LockTimesOut(m) ==
    /\ ~Unlocked(m)
    /\ Advance(m, "lock", "over")
    /\ UNCHANGED <<copies, exclusive, cacheGen, idle, lease>>

\* Mutant: the revision of the backup is kept.
NextRevisionOfBackup(m, c) == c + 1

\* The revision of the candidate, whose own was c, when it is published. A repair
\* copies what is there and increments its revision, as a restore of an older one does.
NextRevision(m, c) == LargerOf(task[m].seen, c) + 1

PublishDatabase(m) ==
    /\ Advance(m, "locked", "over")
    /\ \E c \in Candidate : copies' = Append(copies, NextRevision(m, c))
    /\ exclusive' = {}
    /\ UNCHANGED <<cacheGen, idle, lease>>

\* Validation, the backup or the checkpoint fails, or the process dies: the lock is
\* released, and what was staged is removed or stays beside the file.
AbandonMaintenance(m) ==
    /\ \/ Advance(m, "new", "over") \/ Advance(m, "lock", "over") \/ Advance(m, "locked", "over")
    /\ exclusive' = exclusive \ {m}
    /\ UNCHANGED <<copies, cacheGen, idle, lease>>

-----------------------------------------------------------------------------
DatabaseTypeOK ==
    /\ copies \in Seq(Nat) /\ copies # <<>>
    /\ exclusive \subseteq Maintainer
    /\ cacheGen \in [Process -> Nat]
    /\ idle \in [Process -> SUBSET Connection]
    /\ lease \in [Client -> SUBSET Connection]
    /\ task \in [Maintainer -> [pc : {"new", "lock", "locked", "over"}, seen : Nat]]

\* No connection is open on a file that has been replaced: what is written through
\* one would be lost, and what is read would be out of date. The exclusive lock and
\* the locks that idle connections keep see to it.
ConnectionsCurrent ==
    /\ \A p \in Process : \A c \in idle[p] : c.file = Current
    /\ \A t \in Client : \A c \in lease[t] : c.file = Current

-----------------------------------------------------------------------------
(* The database file as the one library that SharedLibrary describes.      *)

\* What the open connections show. Both kinds of holders may share a name.
IdleViews == UNION {{<<<<"idle", p>>, copies[c.file]>> : c \in idle[p]} : p \in Process}
LeaseViews == UNION {{<<<<"lease", t>>, copies[c.file]>> : c \in lease[t]} : t \in Client}
OpenViews == IdleViews \cup LeaseViews
Holders == ({"idle"} \X Process) \cup ({"lease"} \X Client)

Shared == INSTANCE SharedLibrary WITH
    Holder <- Holders, Replacer <- Maintainer,
    revision <- Revision, views <- OpenViews,
    renewals <- Len(copies) - 1, replacing <- exclusive

\* Locks, generations of connections and the revision given to a restored copy make the
\* files one library: a change reaches every connection that is open, none is lost in a
\* file that was replaced, and no restore takes the revision back.
OneLibrary == Shared!SharedSpec
=============================================================================
