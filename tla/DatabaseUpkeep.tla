--------------------------- MODULE DatabaseUpkeep ---------------------------
(***************************************************************************)
(* What processes do to the files of the database as a whole (wc-storage    *)
(* sqlite/schema.rs, backup.rs, connection.rs): they create it when they    *)
(* start, import the flat files of earlier versions, bring an older schema  *)
(* up to date, write to it, back it up, restore and repair it, at the same  *)
(* time, and die at any moment.                                             *)
(*                                                                         *)
(* A file of SQLite is its contents; with a -wal file beside it, what is    *)
(* in that counts.  DatabaseFile has what else the lock of maintenance      *)
(* protects: the connections that are kept, and the revisions.              *)
(***************************************************************************)
EXTENDS Naturals, FiniteSets

CONSTANTS
    Upkeeper,    \* tasks of processes; each is a start of one and what comes after, or maintenance
    Entry,       \* what users enter into the library
    Flat,        \* the entries in the flat files of earlier versions
    Supplied,    \* database files of other origin that may be restored
    Start,       \* what may be at the path in the beginning: contents, or nothing
    MaxMishaps   \* bound on failures and deaths

\* Versions of the schema: none, an older one, CURRENT_SCHEMA_VERSION, and a newer one.
CurrentSchema == 2
Content == [schema : 0 .. CurrentSchema + 1, data : SUBSET Entry]

ASSUME UpkeepAssumption ==
    /\ Flat \subseteq Entry /\ MaxMishaps \in Nat
    /\ Supplied \subseteq Content
    /\ Start \subseteq {{}} \cup {{c} : c \in Content}

VARIABLES
    mainFile,    \* wallpapers.db: its contents, or nothing
    walFile,     \* its -wal file: the contents with the transactions there, or nothing
    backupOf,    \* backupOf[p]: the visible backup that p made
    upkeep,      \* upkeep[p]: the task of p, how far it is, and its candidate
    mishaps

upkeepVars == <<mainFile, walFile, backupOf, upkeep, mishaps>>

\* The database as a connection sees it.
Opened == IF walFile # {} THEN walFile ELSE mainFile

\* The entries in database files.
Entries(files) == UNION {c.data : c \in files}

\* A backup is reserved as an empty file, and then filled.
NoBackup == [state |-> "none", file |-> {}]
Reserved == [state |-> "empty", file |-> {}]

Filled == [state |-> "whole", file |-> Opened]

Backups == UNION {backupOf[p].file : p \in Upkeeper}

Starts == {"import", "ensure"}
Maintains == {"restore", "repair"}
Begin(kind) == [kind |-> kind, pc |-> "check", temp |-> {}]

UpkeepInit ==
    /\ mainFile \in Start /\ walFile = {}
    /\ backupOf = [p \in Upkeeper |-> NoBackup]
    /\ upkeep \in [Upkeeper -> {Begin(kind) : kind \in Starts \cup Maintains \cup {"backup"}}]
    /\ mishaps = 0

-----------------------------------------------------------------------------
(* Who holds the locks.                                                    *)

At(p, places) == upkeep[p].pc \in places
Does(p, kinds) == upkeep[p].kind \in kinds

MaintenanceAlone(p) ==
    \/ At(p, {"claimed", "built"})
    \/ Does(p, Maintains) /\ At(p, {"locked", "reserved", "filled", "drained", "cleared"})
SchemaAlone(p) == At(p, {"older", "saving", "upgrade"})
SchemaShared(p) == At(p, {"connected"}) \/ (Does(p, {"backup"}) /\ At(p, {"reserved", "filled"}))
MaintenanceShared(p) == At(p, {"wait"}) \/ SchemaAlone(p) \/ SchemaShared(p)

\* A connection is shared; maintenance, and work on the schema, need to be alone.
ConnectionAllowed == \A p \in Upkeeper : ~MaintenanceAlone(p) /\ ~SchemaAlone(p)
EntryAllowed == \A p \in Upkeeper : ~MaintenanceAlone(p)
SchemaFree == \A p \in Upkeeper : ~SchemaAlone(p) /\ ~SchemaShared(p)

MaintenanceFree == \A p \in Upkeeper : ~MaintenanceAlone(p) /\ ~MaintenanceShared(p)

Goto(p, from, to) ==
    /\ upkeep[p].pc = from
    /\ upkeep' = [upkeep EXCEPT ![p].pc = to]

-----------------------------------------------------------------------------
(* The start of a process.                                                 *)

Look(p) ==
    /\ Does(p, Starts)
    /\ \/ mainFile # {} /\ Goto(p, "check", "probe")
       \/ mainFile = {} /\ Goto(p, "check", IF Does(p, {"import"}) THEN "claim" ELSE "enter")
    /\ UNCHANGED <<mainFile, walFile, backupOf, mishaps>>

\* What a look at the schema leads to. An older one sends an import through the steps of
\* a start without one.
Probed(p, c) ==
    CASE c.schema = CurrentSchema -> [upkeep[p] EXCEPT !.pc = "ready"]
      [] c.schema > CurrentSchema -> [upkeep[p] EXCEPT !.pc = "over"]
      [] c.schema < CurrentSchema ->
            IF Does(p, {"import"}) THEN Begin("ensure") ELSE [upkeep[p] EXCEPT !.pc = "enter"]

Probe(p) ==
    /\ ConnectionAllowed
    /\ At(p, {"probe"})
    /\ \E c \in Opened : upkeep' = [upkeep EXCEPT ![p] = Probed(p, c)]
    /\ UNCHANGED <<mainFile, walFile, backupOf, mishaps>>

\* The import, alone, builds a database under a temporary name, and links it to the path
\* if nothing is there.
Claim(p) ==
    /\ MaintenanceFree
    /\ Goto(p, "claim", "claimed")
    /\ UNCHANGED <<mainFile, walFile, backupOf, mishaps>>

Build(p) ==
    /\ At(p, {"claimed"}) /\ mainFile = {}
    /\ upkeep' = [upkeep EXCEPT ![p].pc = "built",
                                ![p].temp = {[schema |-> CurrentSchema, data |-> Flat]}]
    /\ UNCHANGED <<mainFile, walFile, backupOf, mishaps>>

Link(p) ==
    /\ At(p, {"built"}) /\ mainFile = {}
    /\ mainFile' = upkeep[p].temp
    /\ upkeep' = [upkeep EXCEPT ![p] = Begin("ensure")]
    /\ UNCHANGED <<walFile, backupOf, mishaps>>

\* To work on the schema a process shares the maintenance lock and waits for the other.
EnterSchema(p) ==
    /\ EntryAllowed
    /\ Goto(p, "enter", "wait")
    /\ UNCHANGED <<mainFile, walFile, backupOf, mishaps>>

Empty == [schema |-> 0, data |-> {}]

OpenOrCreate(p) ==
    /\ SchemaFree
    /\ mainFile' = IF mainFile = {} THEN {Empty} ELSE mainFile
    /\ Goto(p, "wait", IF \E c \in Opened : c.schema \in 1 .. CurrentSchema - 1 THEN "older" ELSE "upgrade")
    /\ UNCHANGED <<walFile, backupOf, mishaps>>

\* The transaction of create_schema.
Upgrade(p) ==
    /\ Goto(p, "upgrade", "ready")
    /\ \E c \in Opened :
          /\ c.schema <= CurrentSchema
          /\ walFile' = {[c EXCEPT !.schema = CurrentSchema]}
    /\ UNCHANGED <<mainFile, backupOf, mishaps>>

-----------------------------------------------------------------------------
(* Connections.                                                            *)

\* A runtime connection of a process that has started, or of a backup.
Connect(p) ==
    /\ ConnectionAllowed /\ mainFile # {}
    /\ IF Does(p, Starts) THEN Goto(p, "ready", "connected")
                          ELSE Does(p, {"backup"}) /\ Goto(p, "check", "connected")
    /\ \E c \in Opened : c.schema <= CurrentSchema
    /\ UNCHANGED <<mainFile, walFile, backupOf, mishaps>>

CommitEntry(p) ==
    /\ Does(p, Starts) /\ At(p, {"connected"})
    /\ \E c \in Opened, e \in Entry \ Entries(Opened) : walFile' = {[c EXCEPT !.data = @ \cup {e}]}
    /\ UNCHANGED <<mainFile, backupOf, upkeep, mishaps>>

Disconnect(p) ==
    /\ Does(p, Starts)
    /\ Goto(p, "connected", "ready")
    /\ UNCHANGED <<mainFile, walFile, backupOf, mishaps>>

\* SQLite checkpoints when a transaction is large, or the last connection is closed.
AutoCheckpoint(p) ==
    /\ SchemaShared(p) \/ SchemaAlone(p)
    /\ walFile # {}
    /\ mainFile' = walFile /\ walFile' = {}
    /\ UNCHANGED <<backupOf, upkeep, mishaps>>

-----------------------------------------------------------------------------
(* Backups: of an older database before its upgrade, by the user, before a  *)
(* restore, and as the source of a repair.                                 *)

\* A newer schema is refused.
ReserveBackup(p) ==
    /\ \/ Goto(p, "older", "saving")
       \/ Does(p, {"backup"}) /\ Goto(p, "connected", "reserved")
       \/ Does(p, Maintains) /\ Goto(p, "locked", "reserved")
    /\ \E c \in Opened : c.schema <= CurrentSchema
    /\ backupOf' = [backupOf EXCEPT ![p] = Reserved]
    /\ UNCHANGED <<mainFile, walFile, mishaps>>

FillBackup(p) ==
    /\ Goto(p, "saving", "upgrade") \/ Goto(p, "reserved", "filled")
    /\ backupOf' = [backupOf EXCEPT ![p] = Filled]
    /\ UNCHANGED <<mainFile, walFile, mishaps>>

\* What the user gets is a database of the current schema.
BackupDone(p) ==
    /\ Does(p, {"backup"})
    /\ Goto(p, "filled", "over")
    /\ \E c \in backupOf[p].file : c.schema = CurrentSchema
    /\ UNCHANGED <<mainFile, walFile, backupOf, mishaps>>

-----------------------------------------------------------------------------
(* restore and repair.                                                     *)

\* Mutant: the schema of the backup is kept.
UpgradedNot(c) == c

\* A database copied into one of the current schema.
Upgraded(c) == [c EXCEPT !.schema = CurrentSchema]

StageCandidate(p) ==
    /\ Does(p, {"restore"}) /\ At(p, {"check"})
    /\ \E c \in Supplied \cup Backups :
          /\ c.schema \in 1 .. CurrentSchema
          /\ upkeep' = [upkeep EXCEPT ![p].pc = "lock", ![p].temp = {Upgraded(c)}]
    /\ UNCHANGED <<mainFile, walFile, backupOf, mishaps>>

AskForLock(p) ==
    /\ Does(p, {"repair"})
    /\ Goto(p, "check", "lock")
    /\ UNCHANGED <<mainFile, walFile, backupOf, mishaps>>

TakeMaintenance(p) ==
    /\ MaintenanceFree
    /\ Goto(p, "lock", "locked")
    /\ UNCHANGED <<mainFile, walFile, backupOf, mishaps>>

\* The -wal file is written back,
Drain(p) ==
    /\ Does(p, Maintains)
    /\ Goto(p, "filled", "drained")
    /\ mainFile' = Opened /\ walFile' = {}
    /\ UNCHANGED <<backupOf, mishaps>>

\* and removed. A restore where nothing was has only this to do.
ClearSidecars(p) ==
    /\ \/ Goto(p, "drained", "cleared")
       \/ Does(p, {"restore"}) /\ mainFile = {} /\ Goto(p, "locked", "cleared")
    /\ walFile' = {}
    /\ UNCHANGED <<mainFile, backupOf, mishaps>>

\* Mutant: the new database stays without rows.
RebuildEmpty(p) ==
    /\ At(p, {"cleared"}) /\ Does(p, {"repair"}) /\ upkeep[p].temp = {}
    /\ upkeep' = [upkeep EXCEPT ![p].temp = {[schema |-> CurrentSchema, data |-> {}]}]
    /\ UNCHANGED <<mainFile, walFile, backupOf, mishaps>>

\* A repair copies the rows of its backup into a new database.
Rebuild(p) ==
    /\ At(p, {"cleared"}) /\ Does(p, {"repair"}) /\ upkeep[p].temp = {}
    /\ upkeep' = [upkeep EXCEPT ![p].temp = {Upgraded(c) : c \in backupOf[p].file}]
    /\ UNCHANGED <<mainFile, walFile, backupOf, mishaps>>

Replace(p) ==
    /\ upkeep[p].temp # {}
    /\ Goto(p, "cleared", "over")
    /\ mainFile' = upkeep[p].temp
    /\ UNCHANGED <<walFile, backupOf, mishaps>>

-----------------------------------------------------------------------------
(* What goes wrong.                                                        *)

\* An import that could not be made leaves it at what is there, if there is anything.
Broken(p) ==
    IF At(p, {"claim", "claimed", "built"}) /\ mainFile # {}
    THEN Begin("ensure") ELSE [upkeep[p] EXCEPT !.pc = "over", !.temp = {}]

\* A backup is removed by who fails before it has been kept; the one of a repair is kept
\* as soon as it is there, the one before an upgrade always.
Discarded(p) ==
    \/ At(p, {"reserved"})
    \/ Does(p, {"backup", "restore"}) /\ At(p, {"filled", "drained"})

Break(p) ==
    /\ upkeep' = [upkeep EXCEPT ![p] = Broken(p)]
    /\ backupOf' = IF Discarded(p) THEN [backupOf EXCEPT ![p] = NoBackup] ELSE backupOf
    /\ UNCHANGED <<mainFile, walFile>>

\* A lock is not free in time. It may also be an idle connection that holds it, which
\* DatabaseFile has.
TimesOut(p) ==
    /\ At(p, {"probe", "claim", "enter", "wait", "lock"})
    /\ Break(p)
    /\ UNCHANGED mishaps

\* Nothing is there that could be backed up, restored or repaired, its schema is newer or
\* its validation fails; or there is something where an import wanted to begin.
Rejected(p) ==
    /\ \/ Does(p, {"backup", "restore"}) /\ At(p, {"check"})
       \/ (\E c \in Opened : c.schema < CurrentSchema) /\ Does(p, {"backup"}) /\ At(p, {"filled"})
       \/ mainFile = {} /\ Does(p, {"repair"}) /\ At(p, {"locked"})
       \/ (\E c \in Opened : c.schema > CurrentSchema) /\ At(p, {"connected", "locked", "upgrade"})
       \/ mainFile # {} /\ At(p, {"claimed", "built"})
    /\ Break(p)
    /\ UNCHANGED mishaps

\* An operation on the files fails,
FileFails(p) ==
    /\ mishaps < MaxMishaps
    /\ ~At(p, {"check", "ready", "connected", "over"})
    /\ Break(p)
    /\ mishaps' = mishaps + 1

\* or the process dies: its locks are free, its files stay.
Die(p) ==
    /\ mishaps < MaxMishaps
    /\ ~At(p, {"over"})
    /\ upkeep' = [upkeep EXCEPT ![p].pc = "over", ![p].temp = {}]
    /\ mishaps' = mishaps + 1
    /\ UNCHANGED <<mainFile, walFile, backupOf>>

UpkeepNext ==
    \E p \in Upkeeper :
       \/ Look(p) \/ Probe(p) \/ Claim(p) \/ Build(p) \/ Link(p)
       \/ EnterSchema(p) \/ OpenOrCreate(p) \/ Upgrade(p)
       \/ Connect(p) \/ CommitEntry(p) \/ Disconnect(p) \/ AutoCheckpoint(p)
       \/ ReserveBackup(p) \/ FillBackup(p) \/ BackupDone(p)
       \/ StageCandidate(p) \/ AskForLock(p) \/ TakeMaintenance(p)
       \/ Drain(p) \/ ClearSidecars(p) \/ Rebuild(p) \/ Replace(p)
       \/ TimesOut(p) \/ Rejected(p) \/ FileFails(p) \/ Die(p)

UpkeepSpec == UpkeepInit /\ [][UpkeepNext]_upkeepVars

-----------------------------------------------------------------------------
Place == {"check", "probe", "claim", "claimed", "built", "enter", "wait", "older", "saving",
          "upgrade", "ready", "connected", "reserved", "filled", "lock", "locked", "drained",
          "cleared", "over"}
Files == {{}} \cup {{c} : c \in Content}
Task == [kind : Starts \cup Maintains \cup {"backup"}, pc : Place, temp : Files]

UpkeepTypeOK ==
    /\ mainFile \in Files /\ walFile \in Files
    /\ backupOf \in [Upkeeper -> [state : {"none", "empty", "whole"}, file : Files]]
    /\ upkeep \in [Upkeeper -> Task]
    /\ mishaps \in Nat

\* Who has started finds a database of the current schema, whatever was there, whoever
\* started, died, restored or repaired meanwhile.
StartedCurrent ==
    \A p \in Upkeeper : Does(p, Starts) /\ At(p, {"ready", "connected"}) =>
       Opened # {} /\ \A c \in Opened : c.schema = CurrentSchema

\* What was entered stays, at every moment and through every failure and death: an entry
\* leaves the database only with a restore, which has a backup of all that was there; a
\* repair keeps everything; and no backup that holds the only copy of an entry is removed.
NothingLost ==
    [][/\ Entries(Opened \cup Backups) \subseteq Entries(Opened \cup Backups)'
       /\ \/ Entries(Opened) \subseteq Entries(Opened)'
          \/ \E p \in Upkeeper : /\ Does(p, {"restore"}) /\ Opened' = upkeep[p].temp
                                 /\ Entries(Opened) \subseteq Entries(backupOf[p].file)]_upkeepVars
=============================================================================
