------------------------ MODULE DatabaseUpkeepProofs ------------------------
(* What holds of the files of the database, for any number of processes,    *)
(* entries and failures.                                                   *)
EXTENDS DatabaseUpkeep, TLAPS

\* The steps of one process.
UpkeepStep(p) ==
    \/ Look(p) \/ Probe(p) \/ Claim(p) \/ Build(p) \/ Link(p)
    \/ EnterSchema(p) \/ OpenOrCreate(p) \/ Upgrade(p)
    \/ Connect(p) \/ CommitEntry(p) \/ Disconnect(p) \/ AutoCheckpoint(p)
    \/ ReserveBackup(p) \/ FillBackup(p) \/ BackupDone(p)
    \/ StageCandidate(p) \/ AskForLock(p) \/ TakeMaintenance(p)
    \/ Drain(p) \/ ClearSidecars(p) \/ Rebuild(p) \/ Replace(p)
    \/ TimesOut(p) \/ Rejected(p) \/ FileFails(p) \/ Die(p)

\* Those that change what is at the path.
FileStep(p) ==
    \/ Link(p) \/ OpenOrCreate(p) \/ Upgrade(p) \/ CommitEntry(p) \/ AutoCheckpoint(p)
    \/ Drain(p) \/ ClearSidecars(p) \/ Replace(p)

\* A file holds one database at most.
LEMMA OneContent ==
    ASSUME NEW f \in Files, NEW c \in f
    PROVE  f = {c} /\ c \in Content /\ Entries(f) = c.data
<1>1. PICK d \in Content : f = {d} BY DEF Files
<1>2. f = {c} /\ c \in Content BY <1>1
<1> QED BY <1>2, Zenon DEF Entries

LEMMA OpenedIsFile == UpkeepTypeOK => Opened \in Files
BY DEF UpkeepTypeOK, Opened

\* A file that is upgraded, and one that is added to, is a file.
LEMMA FilesMade ==
    /\ {} \in Files /\ {Empty} \in Files
    /\ \A c \in Content : {c} \in Files /\ {Upgraded(c)} \in Files
    /\ \A c \in Content, e \in Entry : {[c EXCEPT !.data = @ \cup {e}]} \in Files
BY DEF Files, Content, Empty, CurrentSchema, Upgraded

-----------------------------------------------------------------------------
(* What one step leaves alone.                                             *)

\* What is at the path changes in a few steps only.
LEMMA FilesKept ==
    ASSUME NEW p \in Upkeeper, UpkeepStep(p)
    PROVE  FileStep(p) \/ (mainFile' = mainFile /\ walFile' = walFile /\ Opened' = Opened)
<1>1. FileStep(p) \/ (mainFile' = mainFile /\ walFile' = walFile)
  BY DEF UpkeepStep, FileStep, Look, Probe, Claim, Build, EnterSchema, Connect, Disconnect,
         ReserveBackup, FillBackup, BackupDone, StageCandidate, AskForLock, TakeMaintenance,
         Rebuild, TimesOut, Rejected, FileFails, Break, Die
<1> QED BY <1>1 DEF Opened

\* A process has its own task and its own backup.
LEMMA OthersKept ==
    ASSUME UpkeepTypeOK, NEW p \in Upkeeper, UpkeepStep(p), NEW q \in Upkeeper, q # p
    PROVE  upkeep'[q] = upkeep[q] /\ backupOf'[q] = backupOf[q]
<1>1. upkeep'[q] = upkeep[q]
  BY DEF UpkeepTypeOK, UpkeepStep, Goto, Look, Probe, Claim, Build, Link, EnterSchema,
         OpenOrCreate, Upgrade, Connect, CommitEntry, Disconnect, AutoCheckpoint, ReserveBackup,
         FillBackup, BackupDone, StageCandidate, AskForLock, TakeMaintenance, Drain,
         ClearSidecars, Rebuild, Replace, TimesOut, Rejected, FileFails, Break, Die
<1>2. backupOf'[q] = backupOf[q]
  BY DEF UpkeepTypeOK, UpkeepStep, Look, Probe, Claim, Build, Link, EnterSchema,
         OpenOrCreate, Upgrade, Connect, CommitEntry, Disconnect, AutoCheckpoint, ReserveBackup,
         FillBackup, BackupDone, StageCandidate, AskForLock, TakeMaintenance, Drain,
         ClearSidecars, Rebuild, Replace, TimesOut, Rejected, FileFails, Break, Die
<1> QED BY <1>1, <1>2

\* A step to another place changes nothing else of the task.
LEMMA Going ==
    ASSUME UpkeepTypeOK, NEW p \in Upkeeper, NEW from, NEW to, Goto(p, from, to)
    PROVE  /\ upkeep[p].pc = from /\ upkeep'[p].pc = to
           /\ upkeep'[p].kind = upkeep[p].kind /\ upkeep'[p].temp = upkeep[p].temp
BY DEF UpkeepTypeOK, Goto, Task

\* Where a look at the schema leads.
LEMMA Probing ==
    ASSUME UpkeepTypeOK, NEW p \in Upkeeper, Probe(p)
    PROVE  /\ \/ upkeep'[p].pc = "ready" /\ \A c \in Opened : c.schema = CurrentSchema
              \/ upkeep'[p].pc \in {"over", "enter", "check"}
           /\ upkeep[p].pc = "probe"
           /\ upkeep'[p].temp \in {{}, upkeep[p].temp}
           /\ upkeep'[p].kind \in {"ensure", upkeep[p].kind}
           /\ Opened # {}
<1>1. PICK c \in Opened : upkeep' = [upkeep EXCEPT ![p] = Probed(p, c)] BY DEF Probe
<1>2. c.schema \in 0 .. CurrentSchema + 1 BY OpenedIsFile, OneContent DEF Content
<1>3. upkeep[p] \in Task /\ upkeep'[p] = Probed(p, c) BY <1>1 DEF UpkeepTypeOK
<1>4. \A d \in Opened : d = c BY OpenedIsFile, OneContent
<1>5. upkeep[p].pc = "probe" /\ Opened # {} BY DEF Probe, At
<1>6. CASE c.schema = CurrentSchema BY <1>3, <1>4, <1>5, <1>6 DEF Probed, Task, CurrentSchema
<1>7. CASE c.schema > CurrentSchema BY <1>2, <1>3, <1>4, <1>5, <1>7 DEF Probed, Task, CurrentSchema
<1>8. CASE c.schema < CurrentSchema
  BY <1>2, <1>3, <1>4, <1>5, <1>8 DEF Probed, Begin, Task, CurrentSchema
<1> QED BY <1>2, <1>6, <1>7, <1>8 DEF CurrentSchema

\* Who fails begins again without its candidate, or is done.
LEMMA Breaking ==
    ASSUME UpkeepTypeOK, NEW p \in Upkeeper, Break(p) \/ Die(p)
    PROVE  /\ upkeep'[p].temp = {} /\ upkeep'[p].pc \in {"over", "check"}
           /\ upkeep'[p].kind \in {"ensure", upkeep[p].kind}
           /\ upkeep'[p].pc = "check" => At(p, {"claim", "claimed", "built"})
<1>1. CASE Break(p) BY <1>1 DEF Break, Broken, Begin, UpkeepTypeOK, Task
<1>2. CASE Die(p) BY <1>2 DEF Die, UpkeepTypeOK, Task
<1> QED BY <1>1, <1>2

\* What else is done to a task.
LEMMA Staging ==
    ASSUME UpkeepTypeOK, NEW p \in Upkeeper
    PROVE  /\ Build(p) => /\ upkeep[p].pc = "claimed" /\ upkeep'[p].pc = "built"
                          /\ upkeep'[p].kind = upkeep[p].kind
                          /\ upkeep'[p].temp = {[schema |-> CurrentSchema, data |-> Flat]}
           /\ Link(p) => /\ upkeep[p].pc = "built" /\ upkeep'[p] = Begin("ensure")
           /\ StageCandidate(p) =>
                 /\ upkeep[p].pc = "check" /\ upkeep'[p].pc = "lock"
                 /\ upkeep[p].kind = "restore" /\ upkeep'[p].kind = "restore"
                 /\ \E c \in Supplied \cup Backups : upkeep'[p].temp = {Upgraded(c)}
           /\ Rebuild(p) => /\ upkeep[p].pc = "cleared" /\ upkeep'[p].pc = "cleared"
                            /\ upkeep[p].kind = "repair" /\ upkeep'[p].kind = "repair"
                            /\ upkeep'[p].temp = {Upgraded(c) : c \in backupOf[p].file}
<1> USE DEF UpkeepTypeOK, Task, At, Does
<1>1. Build(p) => /\ upkeep[p].pc = "claimed" /\ upkeep'[p].pc = "built"
                  /\ upkeep'[p].kind = upkeep[p].kind
                  /\ upkeep'[p].temp = {[schema |-> CurrentSchema, data |-> Flat]}
  BY DEF Build
<1>2. Link(p) => upkeep[p].pc = "built" /\ upkeep'[p] = Begin("ensure") BY DEF Link
<1>3. ASSUME StageCandidate(p)
      PROVE  /\ upkeep[p].pc = "check" /\ upkeep'[p].pc = "lock"
             /\ upkeep[p].kind = "restore" /\ upkeep'[p].kind = "restore"
             /\ \E c \in Supplied \cup Backups : upkeep'[p].temp = {Upgraded(c)}
  BY <1>3 DEF StageCandidate
<1>4. Rebuild(p) => /\ upkeep[p].pc = "cleared" /\ upkeep'[p].pc = "cleared"
                    /\ upkeep[p].kind = "repair" /\ upkeep'[p].kind = "repair"
                    /\ upkeep'[p].temp = {Upgraded(c) : c \in backupOf[p].file}
  BY DEF Rebuild
<1> QED BY <1>1, <1>2, <1>3, <1>4

-----------------------------------------------------------------------------
(* Types.                                                                  *)

LEMMA TypeInit == UpkeepInit => UpkeepTypeOK
<1> SUFFICES ASSUME UpkeepInit PROVE UpkeepTypeOK OBVIOUS
<1>1. mainFile \in Files /\ walFile \in Files BY UpkeepAssumption DEF UpkeepInit, Files
<1>2. backupOf \in [Upkeeper -> [state : {"none", "empty", "whole"}, file : Files]]
  BY FilesMade DEF UpkeepInit, NoBackup
<1>3. \A kind \in Starts \cup Maintains \cup {"backup"} : Begin(kind) \in Task
  BY FilesMade DEF Begin, Task, Place
<1>4. upkeep \in [Upkeeper -> Task] BY <1>3 DEF UpkeepInit
<1> QED BY <1>1, <1>2, <1>4 DEF UpkeepInit, UpkeepTypeOK

\* Where a step to another place leads is a task.
LEMMA GoingTypes ==
    ASSUME UpkeepTypeOK, NEW p \in Upkeeper, NEW from, NEW to \in Place, Goto(p, from, to)
    PROVE  upkeep' \in [Upkeeper -> Task]
BY DEF UpkeepTypeOK, Goto, Task

\* So is one whose candidate is replaced.
LEMMA CandidateTypes ==
    ASSUME UpkeepTypeOK, NEW p \in Upkeeper, NEW file \in Files, NEW to \in Place,
           \/ upkeep' = [upkeep EXCEPT ![p].temp = file]
           \/ upkeep' = [upkeep EXCEPT ![p].pc = to, ![p].temp = file]
    PROVE  upkeep' \in [Upkeeper -> Task]
<1>1. upkeep[p] \in Task BY DEF UpkeepTypeOK
<1>2. /\ [upkeep[p] EXCEPT !.temp = file] \in Task
      /\ [upkeep[p] EXCEPT !.pc = to, !.temp = file] \in Task
  BY <1>1 DEF Task
<1> QED BY <1>2 DEF UpkeepTypeOK

LEMMA BrokenTypes ==
    ASSUME UpkeepTypeOK, NEW p \in Upkeeper, Break(p)
    PROVE  upkeep' \in [Upkeeper -> Task]
<1>1. Broken(p) \in Task
  BY FilesMade DEF UpkeepTypeOK, Broken, Begin, Starts, Place, Task
<1> QED BY <1>1 DEF Break, UpkeepTypeOK

LEMMA TaskTypes ==
    ASSUME UpkeepTypeOK, NEW p \in Upkeeper, UpkeepStep(p)
    PROVE  upkeep' \in [Upkeeper -> Task]
<1> USE DEF UpkeepTypeOK
<1>1. CASE Look(p) BY <1>1, GoingTypes DEF Look, Place
<1>2. CASE Probe(p)
  <2>1. PICK c \in Opened : upkeep' = [upkeep EXCEPT ![p] = Probed(p, c)] BY <1>2 DEF Probe
  <2>2. c.schema \in 0 .. CurrentSchema + 1 BY OpenedIsFile, OneContent DEF Content
  <2>3. Probed(p, c) \in Task
    BY <2>2, FilesMade DEF Probed, Begin, Starts, Place, Task, CurrentSchema
  <2> QED BY <2>1, <2>3
<1>3. CASE Build(p)
  <2>1. {[schema |-> CurrentSchema, data |-> Flat]} \in Files
    BY UpkeepAssumption DEF Content, CurrentSchema, Files
  <2>2. upkeep' = [upkeep EXCEPT ![p].pc = "built",
                                 ![p].temp = {[schema |-> CurrentSchema, data |-> Flat]}]
    BY <1>3 DEF Build
  <2>3. "built" \in Place BY DEF Place
  <2> QED BY <2>1, <2>2, <2>3, CandidateTypes
<1>4. CASE Link(p)
  <2>1. Begin("ensure") \in Task BY FilesMade DEF Begin, Starts, Place, Task
  <2> QED BY <1>4, <2>1 DEF Link
<1>5. CASE StageCandidate(p)
  <2>1. Supplied \cup Backups \subseteq Content BY UpkeepAssumption DEF Backups, Files
  <2>2. PICK c \in Content : upkeep' = [upkeep EXCEPT ![p].pc = "lock", ![p].temp = {Upgraded(c)}]
    BY <1>5, <2>1 DEF StageCandidate
  <2>3. {Upgraded(c)} \in Files /\ "lock" \in Place BY FilesMade DEF Place
  <2> QED BY <2>2, <2>3, CandidateTypes
<1>6. CASE Rebuild(p)
  <2>1. backupOf[p].file = {} \/ \E c \in Content : backupOf[p].file = {c} BY DEF Files
  <2>2. {Upgraded(c) : c \in backupOf[p].file} = {}
        \/ \E c \in Content : {Upgraded(d) : d \in backupOf[p].file} = {Upgraded(c)}
    BY <2>1
  <2>3. {Upgraded(c) : c \in backupOf[p].file} \in Files BY <2>2, FilesMade
  <2>4. upkeep' = [upkeep EXCEPT ![p].temp = {Upgraded(c) : c \in backupOf[p].file}]
    BY <1>6 DEF Rebuild
  <2>5. "over" \in Place BY DEF Place
  <2> QED BY <2>3, <2>4, <2>5, CandidateTypes
<1>7. CASE TimesOut(p) \/ Rejected(p) \/ FileFails(p)
  BY <1>7, BrokenTypes DEF TimesOut, Rejected, FileFails
<1>8. CASE Die(p)
  <2>1. upkeep' = [upkeep EXCEPT ![p].pc = "over", ![p].temp = {}] BY <1>8 DEF Die
  <2>2. {} \in Files /\ "over" \in Place BY FilesMade DEF Place
  <2> QED BY <2>1, <2>2, CandidateTypes
<1>9. CASE Claim(p) \/ EnterSchema(p) \/ OpenOrCreate(p) \/ Upgrade(p)
  BY <1>9, GoingTypes DEF Claim, EnterSchema, OpenOrCreate, Upgrade, Place
<1>10. CASE Connect(p) \/ Disconnect(p) \/ ReserveBackup(p) \/ FillBackup(p) \/ BackupDone(p)
  BY <1>10, GoingTypes DEF Connect, Disconnect, ReserveBackup, FillBackup, BackupDone, Place
<1>11. CASE AskForLock(p) \/ TakeMaintenance(p) \/ Drain(p) \/ ClearSidecars(p) \/ Replace(p)
  BY <1>11, GoingTypes DEF AskForLock, TakeMaintenance, Drain, ClearSidecars, Replace, Place
<1>12. CASE CommitEntry(p) \/ AutoCheckpoint(p) BY <1>12 DEF CommitEntry, AutoCheckpoint
<1> QED BY <1>1, <1>2, <1>3, <1>4, <1>5, <1>6, <1>7, <1>8, <1>9, <1>10, <1>11, <1>12 DEF UpkeepStep

LEMMA FileTypes ==
    ASSUME UpkeepTypeOK, NEW p \in Upkeeper, UpkeepStep(p)
    PROVE  mainFile' \in Files /\ walFile' \in Files
<1> USE FilesMade, OpenedIsFile DEF UpkeepTypeOK
<1>1. CASE ~FileStep(p) BY <1>1, FilesKept
<1>2. CASE Upgrade(p)
  <2>1. PICK c \in Opened : walFile' = {[c EXCEPT !.schema = CurrentSchema]} BY <1>2 DEF Upgrade
  <2>2. c \in Content BY OneContent
  <2> QED BY <1>2, <2>1, <2>2 DEF Upgrade, Upgraded
<1>3. CASE CommitEntry(p)
  <2>1. PICK c \in Opened, e \in Entry : walFile' = {[c EXCEPT !.data = @ \cup {e}]}
    BY <1>3 DEF CommitEntry
  <2>2. c \in Content BY OneContent
  <2> QED BY <1>3, <2>1, <2>2 DEF CommitEntry
<1>4. CASE Link(p) \/ Replace(p) BY <1>4 DEF Link, Replace, Task
<1>5. CASE OpenOrCreate(p) \/ AutoCheckpoint(p) \/ Drain(p) \/ ClearSidecars(p)
  BY <1>5 DEF OpenOrCreate, AutoCheckpoint, Drain, ClearSidecars
<1> QED BY <1>1, <1>2, <1>3, <1>4, <1>5 DEF FileStep

LEMMA BackupTypes ==
    ASSUME UpkeepTypeOK, NEW p \in Upkeeper, UpkeepStep(p)
    PROVE  backupOf' \in [Upkeeper -> [state : {"none", "empty", "whole"}, file : Files]]
<1>1. {NoBackup, Reserved, Filled} \subseteq [state : {"none", "empty", "whole"}, file : Files]
  BY FilesMade, OpenedIsFile DEF NoBackup, Reserved, Filled
<1>2. \/ backupOf' = backupOf
      \/ \E b \in {NoBackup, Reserved, Filled} : backupOf' = [backupOf EXCEPT ![p] = b]
  BY DEF UpkeepStep, Look, Probe, Claim, Build, Link, EnterSchema,
         OpenOrCreate, Upgrade, Connect, CommitEntry, Disconnect, AutoCheckpoint, ReserveBackup,
         FillBackup, BackupDone, StageCandidate, AskForLock, TakeMaintenance, Drain,
         ClearSidecars, Rebuild, Replace, TimesOut, Rejected, FileFails, Break, Die
<1> QED BY <1>1, <1>2 DEF UpkeepTypeOK

LEMMA TypeStep == UpkeepTypeOK /\ [UpkeepNext]_upkeepVars => UpkeepTypeOK'
<1> SUFFICES ASSUME UpkeepTypeOK, UpkeepNext PROVE UpkeepTypeOK'
  BY DEF upkeepVars, UpkeepTypeOK
<1> PICK p \in Upkeeper : UpkeepStep(p) BY DEF UpkeepNext, UpkeepStep
<1>1. mishaps' \in Nat
  BY DEF UpkeepTypeOK, UpkeepStep, Look, Probe, Claim, Build, Link, EnterSchema,
         OpenOrCreate, Upgrade, Connect, CommitEntry, Disconnect, AutoCheckpoint, ReserveBackup,
         FillBackup, BackupDone, StageCandidate, AskForLock, TakeMaintenance, Drain,
         ClearSidecars, Rebuild, Replace, TimesOut, Rejected, FileFails, Die
<1> QED BY <1>1, TaskTypes, FileTypes, BackupTypes DEF UpkeepTypeOK

\* Every variable has its type, for any processes, entries and bounds.
THEOREM UpkeepTypesCorrect == UpkeepSpec => []UpkeepTypeOK
BY TypeInit, TypeStep, PTL DEF UpkeepSpec

-----------------------------------------------------------------------------
(* The inductive invariant.                                                *)

\* What is done at some places.
PlacesFit ==
    \A p \in Upkeeper :
       /\ At(p, {"reserved", "filled"}) => Does(p, Maintains \cup {"backup"})
       /\ At(p, {"lock", "locked", "drained", "cleared"}) => Does(p, Maintains)
       /\ At(p, {"claim", "claimed", "built"}) => Does(p, Starts)

\* Locks that are held alone are.
LocksExclude ==
    \A p, q \in Upkeeper : p # q =>
       /\ MaintenanceAlone(p) => ~MaintenanceAlone(q) /\ ~MaintenanceShared(q)
       /\ SchemaAlone(p) => ~SchemaAlone(q) /\ ~SchemaShared(q)

\* There is no -wal file without a database, nor one that a replacement has removed, and who
\* has created or found a database still has one.
FilesThere ==
    /\ walFile # {} => mainFile # {}
    /\ \A p \in Upkeeper :
          /\ At(p, {"older", "saving", "upgrade", "ready", "connected"}) => mainFile # {}
          /\ At(p, {"drained", "cleared"}) => walFile = {}

\* A candidate is complete and of the current schema; that of a repair has all of its backup.
CandidatesFit ==
    \A p \in Upkeeper :
       /\ \A c \in upkeep[p].temp : c.schema = CurrentSchema
       /\ Does(p, {"repair"}) /\ ~At(p, {"cleared", "over"}) => upkeep[p].temp = {}
       /\ Does(p, {"repair"}) /\ At(p, {"cleared"}) /\ upkeep[p].temp # {} =>
             Entries(backupOf[p].file) \subseteq Entries(upkeep[p].temp)

\* Who reserves a backup has none so far. One that may still be removed has nothing the
\* database does not have, and maintenance leaves the database alone that it has backed up.
BackupsFit ==
    \A p \in Upkeeper :
       /\ \/ At(p, {"upgrade", "ready", "filled", "drained", "cleared", "over"})
          \/ At(p, {"connected"}) /\ ~Does(p, {"backup"})
          \/ backupOf[p].file = {}
       /\ At(p, {"filled", "drained"}) => Entries(backupOf[p].file) \subseteq Entries(Opened)
       /\ Does(p, Maintains) /\ At(p, {"filled", "drained", "cleared"}) =>
             Entries(Opened) \subseteq Entries(backupOf[p].file)

UpkeepIInv ==
    /\ UpkeepTypeOK
    /\ PlacesFit /\ LocksExclude /\ FilesThere /\ CandidatesFit /\ BackupsFit
    /\ StartedCurrent

LEMMA InvInit == UpkeepInit => UpkeepIInv
<1> SUFFICES ASSUME UpkeepInit PROVE UpkeepIInv OBVIOUS
<1>1. \A p \in Upkeeper : /\ upkeep[p].pc = "check" /\ upkeep[p].temp = {}
                          /\ backupOf[p].file = {}
  BY DEF UpkeepInit, Begin, NoBackup
<1>2. PlacesFit /\ LocksExclude /\ StartedCurrent
  BY <1>1 DEF PlacesFit, LocksExclude, StartedCurrent, At, Does, MaintenanceAlone,
              MaintenanceShared, SchemaAlone, SchemaShared
<1>3. FilesThere /\ CandidatesFit /\ BackupsFit
  BY <1>1 DEF FilesThere, CandidatesFit, BackupsFit, At, UpkeepInit
<1> QED BY <1>2, <1>3, TypeInit DEF UpkeepIInv

-----------------------------------------------------------------------------
(* Places and locks.                                                       *)

LEMMA PlacesStep ==
    ASSUME UpkeepIInv, NEW p \in Upkeeper, UpkeepStep(p)
    PROVE  PlacesFit'
<1>0. UpkeepTypeOK /\ PlacesFit BY DEF UpkeepIInv
<1> USE <1>0 DEF At, Does
<1> SUFFICES ASSUME NEW q \in Upkeeper
             PROVE  /\ upkeep'[q].pc \in {"reserved", "filled"} =>
                          upkeep'[q].kind \in Maintains \cup {"backup"}
                    /\ upkeep'[q].pc \in {"lock", "locked", "drained", "cleared"} =>
                          upkeep'[q].kind \in Maintains
                    /\ upkeep'[q].pc \in {"claim", "claimed", "built"} =>
                          upkeep'[q].kind \in Starts
  BY DEF PlacesFit
<1>1. CASE q # p BY <1>1, OthersKept DEF PlacesFit
<1>2. CASE q = p /\ (Look(p) \/ Claim(p) \/ EnterSchema(p) \/ OpenOrCreate(p) \/ Upgrade(p) \/ Connect(p) \/ Disconnect(p))
  BY <1>2, Going DEF Look, Claim, EnterSchema, OpenOrCreate, Upgrade, Connect, Disconnect, PlacesFit
<1>3. CASE q = p /\ Probe(p) BY <1>3, Probing
<1>4. CASE q = p /\ (Build(p) \/ Link(p) \/ StageCandidate(p) \/ Rebuild(p))
  BY <1>4, Staging DEF Begin, Maintains, PlacesFit
<1>5. CASE q = p /\ (TimesOut(p) \/ Rejected(p) \/ FileFails(p) \/ Die(p))
  BY <1>5, Breaking DEF TimesOut, Rejected, FileFails
<1>6. CASE q = p /\ (ReserveBackup(p) \/ FillBackup(p) \/ BackupDone(p))
  BY <1>6, Going DEF ReserveBackup, FillBackup, BackupDone, PlacesFit
<1>7. CASE q = p /\ (AskForLock(p) \/ TakeMaintenance(p) \/ Drain(p) \/ ClearSidecars(p) \/ Replace(p))
  BY <1>7, Going DEF AskForLock, TakeMaintenance, Drain, ClearSidecars, Replace, Maintains, PlacesFit
<1>8. CASE q = p /\ (CommitEntry(p) \/ AutoCheckpoint(p)) BY <1>8 DEF CommitEntry, AutoCheckpoint, PlacesFit
<1> QED BY <1>1, <1>2, <1>3, <1>4, <1>5, <1>6, <1>7, <1>8 DEF UpkeepStep

\* A lock is taken only if it is free for that.
LEMMA LocksTaken ==
    ASSUME UpkeepIInv, NEW p \in Upkeeper, UpkeepStep(p)
    PROVE  /\ MaintenanceAlone(p)' => MaintenanceAlone(p) \/ MaintenanceFree
           /\ MaintenanceShared(p)' => MaintenanceShared(p) \/ EntryAllowed
           /\ SchemaAlone(p)' => SchemaAlone(p) \/ SchemaFree
           /\ SchemaShared(p)' => SchemaShared(p) \/ ConnectionAllowed
<1>0. UpkeepTypeOK /\ PlacesFit BY DEF UpkeepIInv
<1>1. ConnectionAllowed => EntryAllowed BY DEF ConnectionAllowed, EntryAllowed
<1> USE <1>0, <1>1 DEF At, Does, MaintenanceAlone, MaintenanceShared, SchemaAlone, SchemaShared
<1>2. CASE Look(p) \/ Claim(p) \/ EnterSchema(p) \/ OpenOrCreate(p) \/ Upgrade(p) \/ Connect(p) \/ Disconnect(p)
  BY <1>2, Going DEF Look, Claim, EnterSchema, OpenOrCreate, Upgrade, Connect, Disconnect
<1>3. CASE Probe(p) BY <1>3, Probing
<1>4. CASE Build(p) \/ Link(p) \/ StageCandidate(p) \/ Rebuild(p)
  BY <1>4, Staging DEF Begin, Maintains
<1>5. CASE TimesOut(p) \/ Rejected(p) \/ FileFails(p) \/ Die(p)
  BY <1>5, Breaking DEF TimesOut, Rejected, FileFails
<1>6. CASE ReserveBackup(p) \/ FillBackup(p) \/ BackupDone(p)
  BY <1>6, Going DEF ReserveBackup, FillBackup, BackupDone, Maintains
<1>7. CASE AskForLock(p) \/ TakeMaintenance(p) \/ Drain(p) \/ ClearSidecars(p) \/ Replace(p)
  BY <1>7, Going DEF AskForLock, TakeMaintenance, Drain, ClearSidecars, Replace, PlacesFit
<1>8. CASE CommitEntry(p) \/ AutoCheckpoint(p) BY <1>8 DEF CommitEntry, AutoCheckpoint
<1> QED BY <1>2, <1>3, <1>4, <1>5, <1>6, <1>7, <1>8 DEF UpkeepStep

LEMMA LocksStep ==
    ASSUME UpkeepIInv, NEW p \in Upkeeper, UpkeepStep(p)
    PROVE  LocksExclude'
<1>1. \A q \in Upkeeper \ {p} :
         /\ MaintenanceAlone(q)' <=> MaintenanceAlone(q)
         /\ MaintenanceShared(q)' <=> MaintenanceShared(q)
         /\ SchemaAlone(q)' <=> SchemaAlone(q)
         /\ SchemaShared(q)' <=> SchemaShared(q)
  BY OthersKept DEF At, Does, MaintenanceAlone, MaintenanceShared, SchemaAlone, SchemaShared, UpkeepIInv
<1>2. \A q \in Upkeeper : SchemaAlone(q) => MaintenanceShared(q) BY DEF MaintenanceShared
<1> SUFFICES ASSUME NEW q \in Upkeeper, NEW r \in Upkeeper, q # r
             PROVE  /\ MaintenanceAlone(q)' => ~MaintenanceAlone(r)' /\ ~MaintenanceShared(r)'
                    /\ SchemaAlone(q)' => ~SchemaAlone(r)' /\ ~SchemaShared(r)'
  BY DEF LocksExclude
<1>3. CASE q # p /\ r # p BY <1>1, <1>3 DEF UpkeepIInv, LocksExclude
<1>4. CASE q = p /\ r # p
  BY <1>1, <1>4, LocksTaken DEF UpkeepIInv, LocksExclude, MaintenanceFree, SchemaFree
<1>5. CASE q # p /\ r = p
  BY <1>1, <1>5, LocksTaken
  DEF UpkeepIInv, LocksExclude, MaintenanceFree, SchemaFree, EntryAllowed, ConnectionAllowed
<1> QED BY <1>3, <1>4, <1>5

-----------------------------------------------------------------------------
(* Files.                                                                  *)

\* Only who has the lock of maintenance, alone or shared, changes what is at the path.
LEMMA FileAlone ==
    ASSUME UpkeepIInv, NEW p \in Upkeeper, FileStep(p)
    PROVE  MaintenanceAlone(p) \/ MaintenanceShared(p)
BY DEF FileStep, Link, OpenOrCreate, Upgrade, CommitEntry, AutoCheckpoint, Drain, ClearSidecars,
       Replace, Goto, At, Does, MaintenanceAlone, MaintenanceShared, SchemaAlone, SchemaShared,
       UpkeepIInv, PlacesFit

\* Who does maintenance is alone with the files.
LEMMA OnlyMaintainer ==
    ASSUME UpkeepIInv, NEW p \in Upkeeper, UpkeepStep(p),
           NEW q \in Upkeeper, q # p, MaintenanceAlone(q)
    PROVE  mainFile' = mainFile /\ walFile' = walFile /\ Opened' = Opened
BY FileAlone, FilesKept DEF UpkeepIInv, LocksExclude

\* A database that is there is replaced and not removed.
LEMMA MainStays ==
    ASSUME NEW p \in Upkeeper, UpkeepStep(p), mainFile # {}
    PROVE  mainFile' # {}
BY FilesKept DEF FileStep, Link, OpenOrCreate, Upgrade, CommitEntry, AutoCheckpoint, Drain,
       ClearSidecars, Replace, Opened

LEMMA FilesThereStep ==
    ASSUME UpkeepIInv, NEW p \in Upkeeper, UpkeepStep(p)
    PROVE  FilesThere'
<1>0. UpkeepTypeOK /\ PlacesFit /\ FilesThere BY DEF UpkeepIInv
<1>1. Opened # {} => mainFile # {} BY <1>0 DEF FilesThere, Opened
<1>2. walFile' # {} => mainFile' # {}
  <2>1. CASE ~FileStep(p) BY <1>0, <2>1, FilesKept DEF FilesThere
  <2>2. CASE Upgrade(p) \/ CommitEntry(p) BY <1>1, <2>2 DEF Upgrade, CommitEntry
  <2>3. CASE Link(p) \/ OpenOrCreate(p) \/ AutoCheckpoint(p) \/ Drain(p) \/ ClearSidecars(p) \/ Replace(p)
    BY <1>0, <2>3, MainStays
    DEF FilesThere, Link, OpenOrCreate, AutoCheckpoint, Drain, ClearSidecars, Replace
  <2> QED BY <2>1, <2>2, <2>3 DEF FileStep
<1>3. ASSUME NEW q \in Upkeeper,
             upkeep'[q].pc \in {"older", "saving", "upgrade", "ready", "connected"}
      PROVE  mainFile' # {}
  <2>1. CASE upkeep[q].pc \in {"older", "saving", "upgrade", "ready", "connected"}
    BY <1>0, <2>1, MainStays DEF FilesThere, At
  <2>2. CASE q # p BY <1>0, <1>3, <2>1, <2>2, OthersKept
  <2>3. CASE q = p /\ OpenOrCreate(p) BY <2>3 DEF OpenOrCreate
  <2>4. CASE q = p /\ Probe(p) BY <1>0, <1>1, <2>4, Probing, MainStays
  <2>5. CASE q = p /\ (Connect(p) \/ Upgrade(p) \/ Disconnect(p) \/ ReserveBackup(p) \/ FillBackup(p))
    BY <1>0, <1>3, <2>1, <2>5, Going, MainStays DEF Connect, Upgrade, Disconnect, ReserveBackup, FillBackup
  <2>6. CASE q = p /\ (Build(p) \/ Link(p) \/ StageCandidate(p) \/ Rebuild(p))
    BY <1>0, <1>3, <2>6, Staging DEF Begin
  <2>7. CASE q = p /\ (TimesOut(p) \/ Rejected(p) \/ FileFails(p) \/ Die(p))
    BY <1>0, <1>3, <2>7, Breaking DEF TimesOut, Rejected, FileFails
  <2>8. CASE q = p /\ (Look(p) \/ Claim(p) \/ EnterSchema(p) \/ BackupDone(p))
    BY <1>0, <1>3, <2>8, Going DEF Look, Claim, EnterSchema, BackupDone
  <2>9. CASE q = p /\ (AskForLock(p) \/ TakeMaintenance(p) \/ Drain(p) \/ ClearSidecars(p) \/ Replace(p))
    BY <1>0, <1>3, <2>9, Going DEF AskForLock, TakeMaintenance, Drain, ClearSidecars, Replace
  <2>10. CASE q = p /\ (CommitEntry(p) \/ AutoCheckpoint(p))
    BY <1>3, <2>1, <2>10 DEF CommitEntry, AutoCheckpoint
  <2> QED BY <2>2, <2>3, <2>4, <2>5, <2>6, <2>7, <2>8, <2>9, <2>10 DEF UpkeepStep
<1>4. ASSUME NEW q \in Upkeeper, upkeep'[q].pc \in {"drained", "cleared"}
      PROVE  walFile' = {}
  <2>1. CASE q # p
    <3>1. upkeep[q].pc \in {"drained", "cleared"} BY <1>0, <1>4, <2>1, OthersKept
    <3>2. MaintenanceAlone(q) BY <1>0, <3>1 DEF PlacesFit, MaintenanceAlone, At
    <3> QED BY <1>0, <2>1, <3>1, <3>2, OnlyMaintainer DEF FilesThere, At
  <2>2. CASE q = p /\ (Drain(p) \/ ClearSidecars(p)) BY <2>2 DEF Drain, ClearSidecars
  <2>3. CASE q = p /\ Rebuild(p)
    BY <1>0, <2>3, Staging DEF Rebuild, FilesThere, At
  <2>4. CASE q = p /\ (Build(p) \/ Link(p) \/ StageCandidate(p))
    BY <1>0, <1>4, <2>4, Staging DEF Begin
  <2>5. CASE q = p /\ (TimesOut(p) \/ Rejected(p) \/ FileFails(p) \/ Die(p))
    BY <1>0, <1>4, <2>5, Breaking DEF TimesOut, Rejected, FileFails
  <2>6. CASE q = p /\ (Look(p) \/ Claim(p) \/ EnterSchema(p) \/ OpenOrCreate(p) \/ Upgrade(p) \/ Connect(p) \/ Disconnect(p))
    BY <1>0, <1>4, <2>6, Going DEF Look, Claim, EnterSchema, OpenOrCreate, Upgrade, Connect, Disconnect
  <2>7. CASE q = p /\ (ReserveBackup(p) \/ FillBackup(p) \/ BackupDone(p) \/ AskForLock(p) \/ TakeMaintenance(p) \/ Replace(p))
    BY <1>0, <1>4, <2>7, Going DEF ReserveBackup, FillBackup, BackupDone, AskForLock, TakeMaintenance, Replace
  <2>8. CASE q = p /\ Probe(p) BY <1>0, <1>4, <2>8, Probing
  <2>9. CASE q = p /\ (CommitEntry(p) \/ AutoCheckpoint(p))
    BY <1>0, <1>4, <2>9 DEF CommitEntry, AutoCheckpoint, FilesThere, At
  <2> QED BY <2>1, <2>2, <2>3, <2>4, <2>5, <2>6, <2>7, <2>8, <2>9 DEF UpkeepStep
<1> QED BY <1>2, <1>3, <1>4 DEF FilesThere, At

\* What a step does to the database at the path: nothing, it creates one where none is, it
\* changes the only one there by its schema or its entries, or it replaces it.
LEMMA OpenedChanges ==
    ASSUME UpkeepIInv, NEW p \in Upkeeper, UpkeepStep(p)
    PROVE  \/ Opened' = Opened
           \/ Opened = {} /\ mainFile = {}
           \/ \E c \in Opened : Opened' = {[c EXCEPT !.schema = CurrentSchema]}
           \/ \E c \in Opened, e \in Entry : Opened' = {[c EXCEPT !.data = @ \cup {e}]}
           \/ Replace(p) /\ Opened' = upkeep[p].temp
<1>0. FilesThere BY DEF UpkeepIInv
<1>1. CASE ~FileStep(p) BY <1>1, FilesKept
<1>2. CASE Link(p) BY <1>0, <1>2 DEF Link, FilesThere, Opened
<1>3. CASE OpenOrCreate(p) BY <1>0, <1>3 DEF OpenOrCreate, FilesThere, Opened
<1>4. CASE Upgrade(p)
  <2>1. PICK c \in Opened : walFile' = {[c EXCEPT !.schema = CurrentSchema]} BY <1>4 DEF Upgrade
  <2>2. Opened' = walFile' BY <2>1 DEF Opened
  <2> QED BY <2>1, <2>2
<1>5. CASE CommitEntry(p)
  <2>1. PICK c \in Opened, e \in Entry : walFile' = {[c EXCEPT !.data = @ \cup {e}]}
    BY <1>5 DEF CommitEntry
  <2>2. Opened' = walFile' BY <2>1 DEF Opened
  <2> QED BY <2>1, <2>2
<1>6. CASE AutoCheckpoint(p) \/ Drain(p) BY <1>6 DEF AutoCheckpoint, Drain, Opened
<1>7. CASE ClearSidecars(p)
  BY <1>0, <1>7 DEF ClearSidecars, Goto, FilesThere, At, Opened
<1>8. CASE Replace(p)
  BY <1>0, <1>8 DEF Replace, Goto, FilesThere, At, Opened
<1> QED BY <1>1, <1>2, <1>3, <1>4, <1>5, <1>6, <1>7, <1>8 DEF FileStep

\* No entry leaves the database but when it is replaced.
LEMMA EntriesStay ==
    ASSUME UpkeepIInv, NEW p \in Upkeeper, UpkeepStep(p), ~Replace(p)
    PROVE  Entries(Opened) \subseteq Entries(Opened)'
<1>0. Opened \in Files BY OpenedIsFile DEF UpkeepIInv
<1>1. Entries({}) = {} BY DEF Entries
<1>2. CASE Opened' = Opened BY <1>2 DEF Entries
<1>3. CASE Opened = {} BY <1>1, <1>3
<1>4. ASSUME NEW c \in Opened, Opened' = {[c EXCEPT !.schema = CurrentSchema]}
      PROVE  Entries(Opened) \subseteq Entries(Opened)'
  <2>1. Entries(Opened) = c.data /\ c \in Content BY <1>0, OneContent
  <2>2. [c EXCEPT !.schema = CurrentSchema].data = c.data BY <2>1 DEF Content
  <2> QED BY <1>4, <2>1, <2>2 DEF Entries
<1>5. ASSUME NEW c \in Opened, NEW e \in Entry, Opened' = {[c EXCEPT !.data = @ \cup {e}]}
      PROVE  Entries(Opened) \subseteq Entries(Opened)'
  <2>1. Entries(Opened) = c.data /\ c \in Content BY <1>0, OneContent
  <2>2. [c EXCEPT !.data = @ \cup {e}].data = c.data \cup {e} BY <2>1 DEF Content
  <2> QED BY <1>5, <2>1, <2>2 DEF Entries
<1> QED BY <1>2, <1>3, <1>4, <1>5, OpenedChanges

-----------------------------------------------------------------------------
(* Candidates and backups.                                                 *)

\* A copy that is upgraded keeps the entries.
LEMMA UpgradedKeeps ==
    ASSUME NEW c \in Content
    PROVE  Upgraded(c).schema = CurrentSchema /\ Upgraded(c).data = c.data
BY DEF Upgraded, Content

LEMMA CandidatesStep ==
    ASSUME UpkeepIInv, NEW p \in Upkeeper, UpkeepStep(p)
    PROVE  CandidatesFit'
<1>0. UpkeepTypeOK /\ PlacesFit /\ CandidatesFit BY DEF UpkeepIInv
<1> DEFINE Fit(kind, pc, temp, file) ==
             /\ \A c \in temp : c.schema = CurrentSchema
             /\ kind = "repair" /\ pc \notin {"cleared", "over"} => temp = {}
             /\ kind = "repair" /\ pc = "cleared" /\ temp # {} => Entries(file) \subseteq Entries(temp)
<1>1. \A q \in Upkeeper : Fit(upkeep[q].kind, upkeep[q].pc, upkeep[q].temp, backupOf[q].file)
  BY <1>0 DEF CandidatesFit, At, Does
<1> SUFFICES ASSUME NEW q \in Upkeeper
             PROVE  Fit(upkeep'[q].kind, upkeep'[q].pc, upkeep'[q].temp, backupOf'[q].file)
  BY DEF CandidatesFit, At, Does, Entries
<1>2. CASE q # p BY <1>0, <1>1, <1>2, OthersKept
<1>3. CASE q = p /\ upkeep'[p].temp = {} BY <1>3
<1>4. ASSUME q = p, NEW from, NEW to, Goto(p, from, to), from # "cleared", from # "over"
      PROVE  Fit(upkeep'[q].kind, upkeep'[q].pc, upkeep'[q].temp, backupOf'[q].file)
  BY <1>0, <1>1, <1>4, Going
<1>5. CASE q = p /\ Probe(p) BY <1>0, <1>1, <1>5, Probing
<1>6. CASE q = p /\ Build(p)
  BY <1>0, <1>6, Staging DEF PlacesFit, At, Does, Starts
<1>7. CASE q = p /\ Link(p) BY <1>0, <1>7, Staging DEF Begin
<1>8. CASE q = p /\ StageCandidate(p)
  <2>1. Supplied \cup Backups \subseteq Content
    BY <1>0, UpkeepAssumption DEF UpkeepTypeOK, Backups, Files
  <2>2. PICK c \in Content : upkeep'[p].temp = {Upgraded(c)} BY <1>0, <1>8, <2>1, Staging
  <2> QED BY <1>0, <1>8, <2>2, UpgradedKeeps, Staging
<1>9. CASE q = p /\ Rebuild(p)
  <2>1. backupOf[p].file \in Files /\ backupOf' = backupOf BY <1>0, <1>9 DEF UpkeepTypeOK, Rebuild
  <2>2. \A c \in backupOf[p].file : c \in Content BY <2>1, OneContent
  <2>3. upkeep'[p].temp = {Upgraded(c) : c \in backupOf[p].file} /\ upkeep'[p].pc = "cleared"
    BY <1>0, <1>9, Staging
  <2>4. \A c \in upkeep'[p].temp : c.schema = CurrentSchema BY <2>2, <2>3, UpgradedKeeps
  <2>5. Entries(backupOf[p].file) \subseteq Entries(upkeep'[p].temp)
    BY <2>2, <2>3, UpgradedKeeps DEF Entries
  <2> QED BY <1>9, <2>1, <2>3, <2>4, <2>5
<1>10. CASE q = p /\ (TimesOut(p) \/ Rejected(p) \/ FileFails(p) \/ Die(p))
  BY <1>0, <1>3, <1>10, Breaking DEF TimesOut, Rejected, FileFails
<1>11. CASE q = p /\ (Look(p) \/ Claim(p) \/ EnterSchema(p) \/ OpenOrCreate(p) \/ Upgrade(p))
  BY <1>4, <1>11 DEF Look, Claim, EnterSchema, OpenOrCreate, Upgrade
<1>12. CASE q = p /\ (Connect(p) \/ Disconnect(p) \/ ReserveBackup(p) \/ FillBackup(p) \/ BackupDone(p))
  BY <1>4, <1>12 DEF Connect, Disconnect, ReserveBackup, FillBackup, BackupDone
<1>13. CASE q = p /\ (AskForLock(p) \/ TakeMaintenance(p) \/ Drain(p) \/ ClearSidecars(p))
  BY <1>4, <1>13 DEF AskForLock, TakeMaintenance, Drain, ClearSidecars
<1>14. CASE q = p /\ Replace(p)
  BY <1>0, <1>1, <1>14, Going DEF Replace
<1>15. CASE q = p /\ (CommitEntry(p) \/ AutoCheckpoint(p))
  BY <1>1, <1>15 DEF CommitEntry, AutoCheckpoint
<1> HIDE DEF Fit
<1> QED BY <1>2, <1>5, <1>6, <1>7, <1>8, <1>9, <1>10, <1>11, <1>12, <1>13, <1>14, <1>15 DEF UpkeepStep

\* A backup changes when it is reserved, filled or removed.
LEMMA BackupChanges ==
    ASSUME UpkeepTypeOK, NEW p \in Upkeeper, UpkeepStep(p)
    PROVE  \/ backupOf'[p] = backupOf[p]
           \/ ReserveBackup(p) /\ backupOf'[p].file = {}
           \/ FillBackup(p) /\ backupOf'[p].file = Opened
           \/ Break(p) /\ Discarded(p) /\ backupOf'[p].file = {}
<1> USE DEF UpkeepTypeOK
<1>1. CASE ReserveBackup(p) BY <1>1 DEF ReserveBackup, Reserved
<1>2. CASE FillBackup(p) BY <1>2 DEF FillBackup, Filled
<1>3. CASE Break(p) BY <1>3 DEF Break, NoBackup
<1> QED BY <1>1, <1>2, <1>3
        DEF UpkeepStep, Look, Probe, Claim, Build, Link, EnterSchema, OpenOrCreate, Upgrade,
            Connect, CommitEntry, Disconnect, AutoCheckpoint, BackupDone, StageCandidate,
            AskForLock, TakeMaintenance, Drain, ClearSidecars, Rebuild, Replace, TimesOut,
            Rejected, FileFails, Die

\* A backup that a process has while it can still remove it: nothing before it is filled.
LEMMA BackupsStep ==
    ASSUME UpkeepIInv, NEW p \in Upkeeper, UpkeepStep(p)
    PROVE  BackupsFit'
<1>0. UpkeepTypeOK /\ PlacesFit /\ FilesThere /\ BackupsFit BY DEF UpkeepIInv
<1>1. Entries({}) = {} BY DEF Entries
<1>2. ASSUME NEW q \in Upkeeper
      PROVE  \/ upkeep'[q].pc \in {"upgrade", "ready", "filled", "drained", "cleared", "over"}
             \/ upkeep'[q].pc = "connected" /\ upkeep'[q].kind # "backup"
             \/ backupOf'[q].file = {}
  <2> DEFINE May(kind, pc, file) ==
               \/ pc \in {"upgrade", "ready", "filled", "drained", "cleared", "over"}
               \/ pc = "connected" /\ kind # "backup"
               \/ file = {}
  <2>1. May(upkeep[q].kind, upkeep[q].pc, backupOf[q].file)
    BY <1>0 DEF BackupsFit, At, Does
  <2> SUFFICES May(upkeep'[q].kind, upkeep'[q].pc, backupOf'[q].file) OBVIOUS
  <2>2. CASE q # p BY <1>0, <2>1, <2>2, OthersKept
  <2>3. CASE q = p /\ ReserveBackup(p)
    BY <1>0, <2>3 DEF ReserveBackup, Reserved, UpkeepTypeOK
  <2>11. CASE q = p /\ (Break(p) \/ Die(p))
    <3>1. CASE upkeep'[p].pc = "over" BY <2>11, <3>1
    <3>2. CASE At(p, {"claim", "claimed", "built"})
      <4>1. backupOf[p].file = {} BY <1>0, <3>2 DEF BackupsFit, At
      <4>2. backupOf' = backupOf
        BY <1>0, <2>11, <3>2 DEF Break, Die, Discarded, At
      <4> QED BY <2>11, <4>1, <4>2
    <3> QED BY <1>0, <2>11, <3>1, <3>2, Breaking
  <2>4. CASE q = p /\ FillBackup(p) BY <1>0, <2>4, Going DEF FillBackup
  <2>5. CASE q = p /\ Probe(p) BY <1>0, <2>1, <2>5, Probing DEF Probe
  <2>6. CASE q = p /\ (Build(p) \/ Link(p) \/ StageCandidate(p) \/ Rebuild(p))
    BY <1>0, <2>1, <2>6, Staging DEF Build, Link, StageCandidate, Rebuild
  <2>7. CASE q = p /\ (Look(p) \/ Claim(p) \/ EnterSchema(p) \/ OpenOrCreate(p) \/ Upgrade(p))
    BY <1>0, <2>1, <2>7, Going DEF Look, Claim, EnterSchema, OpenOrCreate, Upgrade
  <2>8. CASE q = p /\ (Connect(p) \/ Disconnect(p) \/ BackupDone(p))
    BY <1>0, <2>1, <2>8, Going DEF Connect, Disconnect, BackupDone, Does, Starts
  <2>9. CASE q = p /\ (AskForLock(p) \/ TakeMaintenance(p) \/ Drain(p) \/ ClearSidecars(p) \/ Replace(p))
    BY <1>0, <2>1, <2>9, Going DEF AskForLock, TakeMaintenance, Drain, ClearSidecars, Replace
  <2>10. CASE q = p /\ (CommitEntry(p) \/ AutoCheckpoint(p))
    BY <2>1, <2>10 DEF CommitEntry, AutoCheckpoint
  <2> HIDE DEF May
  <2> QED BY <2>2, <2>3, <2>4, <2>5, <2>6, <2>7, <2>8, <2>9, <2>10, <2>11
          DEF UpkeepStep, TimesOut, Rejected, FileFails
<1>3. ASSUME NEW q \in Upkeeper, upkeep'[q].pc \in {"filled", "drained"}
      PROVE  Entries(backupOf[q].file)' \subseteq Entries(Opened)'
  <2>1. CASE q # p
    <3>1. upkeep[q].pc = upkeep'[q].pc /\ backupOf'[q] = backupOf[q] BY <1>0, <2>1, OthersKept
    <3>2. Entries(backupOf[q].file) \subseteq Entries(Opened) BY <1>0, <1>3, <3>1 DEF BackupsFit, At
    <3>3. MaintenanceAlone(q) \/ MaintenanceShared(q)
      BY <1>0, <1>3, <3>1
      DEF PlacesFit, At, Does, MaintenanceAlone, MaintenanceShared, SchemaShared
    <3>4. ~Replace(p)
      <4>1. Replace(p) => MaintenanceAlone(p)
        BY <1>0 DEF Replace, Goto, PlacesFit, At, MaintenanceAlone
      <4> QED BY <2>1, <3>3, <4>1 DEF UpkeepIInv, LocksExclude
    <3> QED BY <3>1, <3>2, <3>4, EntriesStay DEF Entries
  <2>2. CASE q = p /\ FillBackup(p)
    <3>1. backupOf'[p].file = Opened BY <1>0, <2>2 DEF FillBackup, Filled, UpkeepTypeOK
    <3>2. Opened' = Opened BY <2>2 DEF FillBackup, Opened
    <3> QED BY <2>2, <3>1, <3>2 DEF Entries
  <2>3. CASE q = p /\ Drain(p)
    <3>1. Entries(backupOf[p].file) \subseteq Entries(Opened)
      BY <1>0, <2>3 DEF Drain, Goto, BackupsFit, At
    <3>2. backupOf' = backupOf /\ ~Replace(p) BY <2>3 DEF Drain, Replace, Goto
    <3> QED BY <2>3, <3>1, <3>2, EntriesStay DEF Entries
  <2>4. CASE q = p /\ Probe(p) BY <1>0, <1>3, <2>4, Probing
  <2>5. CASE q = p /\ (Build(p) \/ Link(p) \/ StageCandidate(p) \/ Rebuild(p))
    BY <1>0, <1>3, <2>5, Staging DEF Begin
  <2>6. CASE q = p /\ (TimesOut(p) \/ Rejected(p) \/ FileFails(p) \/ Die(p))
    BY <1>0, <1>3, <2>6, Breaking DEF TimesOut, Rejected, FileFails
  <2>7. CASE q = p /\ (Look(p) \/ Claim(p) \/ EnterSchema(p) \/ OpenOrCreate(p) \/ Upgrade(p))
    BY <1>0, <1>3, <2>7, Going DEF Look, Claim, EnterSchema, OpenOrCreate, Upgrade
  <2>8. CASE q = p /\ (Connect(p) \/ Disconnect(p) \/ ReserveBackup(p) \/ BackupDone(p))
    BY <1>0, <1>3, <2>8, Going DEF Connect, Disconnect, ReserveBackup, BackupDone
  <2>9. CASE q = p /\ (AskForLock(p) \/ TakeMaintenance(p) \/ ClearSidecars(p) \/ Replace(p))
    BY <1>0, <1>3, <2>9, Going DEF AskForLock, TakeMaintenance, ClearSidecars, Replace
  <2>10. CASE q = p /\ (CommitEntry(p) \/ AutoCheckpoint(p))
    <3>1. upkeep' = upkeep /\ backupOf' = backupOf /\ ~Replace(p)
      <4>1. upkeep' = upkeep /\ backupOf' = backupOf BY <2>10 DEF CommitEntry, AutoCheckpoint
      <4>2. Replace(p) => upkeep'[p].pc = "over" /\ upkeep[p].pc = "cleared"
        BY <1>0, Going DEF Replace
      <4> QED BY <4>1, <4>2
    <3>2. Entries(backupOf[p].file) \subseteq Entries(Opened)
      BY <1>0, <1>3, <2>10, <3>1 DEF BackupsFit, At
    <3> QED BY <2>10, <3>1, <3>2, EntriesStay DEF Entries
  <2> QED BY <2>1, <2>2, <2>3, <2>4, <2>5, <2>6, <2>7, <2>8, <2>9, <2>10 DEF UpkeepStep
<1>4. ASSUME NEW q \in Upkeeper, upkeep'[q].kind \in Maintains,
             upkeep'[q].pc \in {"filled", "drained", "cleared"}
      PROVE  Entries(Opened)' \subseteq Entries(backupOf[q].file)'
  <2>1. CASE q # p
    <3>1. upkeep[q] = upkeep'[q] /\ backupOf'[q] = backupOf[q] BY <1>0, <2>1, OthersKept
    <3>2. Entries(Opened) \subseteq Entries(backupOf[q].file)
      BY <1>0, <1>4, <3>1 DEF BackupsFit, At, Does
    <3>3. MaintenanceAlone(q) BY <1>4, <3>1 DEF At, Does, MaintenanceAlone
    <3> QED BY <2>1, <3>1, <3>2, <3>3, OnlyMaintainer DEF Entries
  <2>2. CASE q = p /\ FillBackup(p)
    <3>1. backupOf'[p].file = Opened BY <1>0, <2>2 DEF FillBackup, Filled, UpkeepTypeOK
    <3>2. Opened' = Opened BY <2>2 DEF FillBackup, Opened
    <3> QED BY <2>2, <3>1, <3>2 DEF Entries
  <2>3. CASE /\ q = p /\ (Drain(p) \/ Rebuild(p) \/ ClearSidecars(p))
             /\ upkeep[p].pc \in {"filled", "drained", "cleared"}
    <3>1. Entries(Opened) \subseteq Entries(backupOf[p].file)
      <4>1. upkeep[p].kind \in Maintains
        BY <1>0, <2>3 DEF Drain, Rebuild, ClearSidecars, Goto, At, Does, Maintains, PlacesFit
      <4> QED BY <1>0, <2>3, <4>1 DEF BackupsFit, At, Does
    <3>2. Opened' = Opened
      BY <1>0, <2>3 DEF Drain, Rebuild, ClearSidecars, Goto, FilesThere, At, Opened
    <3>3. backupOf' = backupOf BY <2>3 DEF Drain, Rebuild, ClearSidecars
    <3> QED BY <2>3, <3>1, <3>2, <3>3 DEF Entries
  <2>4. CASE q = p /\ ClearSidecars(p)
    <3>1. CASE mainFile = {}
      <4>1. Opened' = {} BY <2>4, <3>1 DEF ClearSidecars, Opened
      <4> QED BY <4>1 DEF Entries
    <3>2. CASE Goto(p, "drained", "cleared") BY <2>3, <2>4, <3>2 DEF Goto
    <3> QED BY <2>4, <3>1, <3>2 DEF ClearSidecars
  <2>12. Drain(p) \/ Rebuild(p) => upkeep[p].pc \in {"filled", "cleared"}
    BY DEF Drain, Rebuild, Goto, At
  <2>5. CASE q = p /\ (Build(p) \/ Link(p) \/ StageCandidate(p))
    BY <1>0, <1>4, <2>5, Staging DEF Begin
  <2>6. CASE q = p /\ (TimesOut(p) \/ Rejected(p) \/ FileFails(p) \/ Die(p))
    BY <1>0, <1>4, <2>6, Breaking DEF TimesOut, Rejected, FileFails
  <2>7. CASE q = p /\ (Look(p) \/ Claim(p) \/ EnterSchema(p) \/ OpenOrCreate(p) \/ Upgrade(p))
    BY <1>0, <1>4, <2>7, Going DEF Look, Claim, EnterSchema, OpenOrCreate, Upgrade
  <2>8. CASE q = p /\ (Connect(p) \/ Disconnect(p) \/ ReserveBackup(p) \/ BackupDone(p))
    BY <1>0, <1>4, <2>8, Going DEF Connect, Disconnect, ReserveBackup, BackupDone
  <2>9. CASE q = p /\ (AskForLock(p) \/ TakeMaintenance(p) \/ Replace(p))
    BY <1>0, <1>4, <2>9, Going DEF AskForLock, TakeMaintenance, Replace
  <2>10. CASE q = p /\ Probe(p) BY <1>0, <1>4, <2>10, Probing
  <2>11. CASE q = p /\ (CommitEntry(p) \/ AutoCheckpoint(p))
    \* It holds no connection.
    BY <1>4, <2>11
    DEF CommitEntry, AutoCheckpoint, At, Does, SchemaShared, SchemaAlone, Maintains
  <2> QED BY <2>1, <2>2, <2>3, <2>4, <2>5, <2>6, <2>7, <2>8, <2>9, <2>10, <2>11, <2>12
          DEF UpkeepStep
<1> QED BY <1>2, <1>3, <1>4 DEF BackupsFit, At, Does, Entries

\* A database of the current schema stays one.
LEMMA CurrentStays ==
    ASSUME UpkeepIInv, NEW p \in Upkeeper, UpkeepStep(p),
           mainFile # {}, Opened # {}, \A c \in Opened : c.schema = CurrentSchema
    PROVE  Opened' # {} /\ \A c \in Opened' : c.schema = CurrentSchema
<1>0. Opened \in Files BY OpenedIsFile DEF UpkeepIInv
<1>1. \A c \in Opened : c \in Content BY <1>0, OneContent
<1>2. ASSUME NEW c \in Opened, Opened' = {[c EXCEPT !.schema = CurrentSchema]}
      PROVE  Opened' # {} /\ \A d \in Opened' : d.schema = CurrentSchema
  BY <1>1, <1>2 DEF Content
<1>3. ASSUME NEW c \in Opened, NEW e \in Entry, Opened' = {[c EXCEPT !.data = @ \cup {e}]}
      PROVE  Opened' # {} /\ \A d \in Opened' : d.schema = CurrentSchema
  BY <1>1, <1>3 DEF Content
<1>4. CASE Replace(p) /\ Opened' = upkeep[p].temp
  BY <1>4 DEF Replace, UpkeepIInv, CandidatesFit
<1> QED BY <1>2, <1>3, <1>4, OpenedChanges

LEMMA StartedStep ==
    ASSUME UpkeepIInv, NEW p \in Upkeeper, UpkeepStep(p)
    PROVE  StartedCurrent'
<1>0. UpkeepTypeOK /\ FilesThere /\ StartedCurrent BY DEF UpkeepIInv
<1> SUFFICES ASSUME NEW q \in Upkeeper, upkeep'[q].kind \in Starts,
                    upkeep'[q].pc \in {"ready", "connected"}
             PROVE  Opened' # {} /\ \A c \in Opened' : c.schema = CurrentSchema
  BY DEF StartedCurrent, At, Does
<1>1. CASE upkeep[q].kind \in Starts /\ upkeep[q].pc \in {"ready", "connected"}
  <2>1. mainFile # {} BY <1>0, <1>1 DEF FilesThere, At
  <2>2. Opened # {} /\ \A c \in Opened : c.schema = CurrentSchema
    BY <1>0, <1>1 DEF StartedCurrent, At, Does
  <2> QED BY <2>1, <2>2, CurrentStays
<1>2. CASE q # p BY <1>0, <1>1, <1>2, OthersKept
<1>3. CASE q = p /\ Probe(p)
  <2>1. Opened' = Opened BY <1>3 DEF Probe, Opened
  <2> QED BY <1>0, <1>3, <2>1, Probing
<1>4. CASE q = p /\ Upgrade(p)
  <2>1. PICK c \in Opened : walFile' = {[c EXCEPT !.schema = CurrentSchema]} BY <1>4 DEF Upgrade
  <2>2. c \in Content BY <1>0, OpenedIsFile, OneContent
  <2>3. Opened' = walFile' BY <2>1 DEF Opened
  <2> QED BY <2>1, <2>2, <2>3 DEF Content
<1>5. CASE q = p /\ (Connect(p) \/ Disconnect(p))
  BY <1>0, <1>1, <1>5, Going DEF Connect, Disconnect, Does, Starts
<1>6. CASE q = p /\ (Build(p) \/ Link(p) \/ StageCandidate(p) \/ Rebuild(p))
  BY <1>0, <1>6, Staging DEF Begin
<1>7. CASE q = p /\ (TimesOut(p) \/ Rejected(p) \/ FileFails(p) \/ Die(p))
  BY <1>0, <1>7, Breaking DEF TimesOut, Rejected, FileFails
<1>8. CASE q = p /\ (Look(p) \/ Claim(p) \/ EnterSchema(p) \/ OpenOrCreate(p))
  BY <1>0, <1>8, Going DEF Look, Claim, EnterSchema, OpenOrCreate
<1>9. CASE q = p /\ (ReserveBackup(p) \/ FillBackup(p) \/ BackupDone(p))
  BY <1>0, <1>9, Going DEF ReserveBackup, FillBackup, BackupDone
<1>10. CASE q = p /\ (AskForLock(p) \/ TakeMaintenance(p) \/ Drain(p) \/ ClearSidecars(p) \/ Replace(p))
  BY <1>0, <1>10, Going DEF AskForLock, TakeMaintenance, Drain, ClearSidecars, Replace
<1>11. CASE q = p /\ (CommitEntry(p) \/ AutoCheckpoint(p))
  BY <1>1, <1>11 DEF CommitEntry, AutoCheckpoint
<1> QED BY <1>2, <1>3, <1>4, <1>5, <1>6, <1>7, <1>8, <1>9, <1>10, <1>11 DEF UpkeepStep

-----------------------------------------------------------------------------
(* The theorems.                                                           *)

LEMMA InvStep == UpkeepIInv /\ [UpkeepNext]_upkeepVars => UpkeepIInv'
<1>1. CASE UNCHANGED upkeepVars
  BY <1>1
  DEF upkeepVars, UpkeepIInv, UpkeepTypeOK, PlacesFit, LocksExclude, FilesThere, CandidatesFit,
      BackupsFit, StartedCurrent, At, Does, MaintenanceAlone, MaintenanceShared, SchemaAlone,
      SchemaShared, Opened, Entries
<1>2. ASSUME UpkeepIInv, UpkeepNext PROVE UpkeepIInv'
  <2>1. PICK p \in Upkeeper : UpkeepStep(p) BY <1>2 DEF UpkeepNext, UpkeepStep
  <2>2. UpkeepTypeOK' BY <1>2, TypeStep DEF UpkeepIInv
  <2> QED BY <1>2, <2>1, <2>2, PlacesStep, LocksStep, FilesThereStep, CandidatesStep, BackupsStep,
             StartedStep DEF UpkeepIInv
<1> QED BY <1>1, <1>2

LEMMA InvHolds == UpkeepSpec => []UpkeepIInv
BY InvInit, InvStep, PTL DEF UpkeepSpec

\* Who has started finds a database of the current schema, for any number of processes that
\* start, import, upgrade, back up, restore and repair at the same time, fail and die.
THEOREM StartedFindCurrent == UpkeepSpec => []StartedCurrent
<1>1. UpkeepIInv => StartedCurrent BY DEF UpkeepIInv
<1> QED BY <1>1, InvHolds, PTL

\* An entry that only one file holds is in the database or in a backup after every step.
LEMMA CopiesStay ==
    ASSUME UpkeepIInv, NEW p \in Upkeeper, UpkeepStep(p)
    PROVE  Entries(Opened \cup Backups) \subseteq Entries(Opened \cup Backups)'
<1>0. UpkeepTypeOK /\ PlacesFit /\ BackupsFit BY DEF UpkeepIInv
<1> SUFFICES ASSUME NEW c \in Opened \cup Backups, NEW e \in c.data
             PROVE  e \in Entries(Opened)' \/ \E q \in Upkeeper : e \in Entries(backupOf'[q].file)
  BY DEF Entries, Backups
<1>1. CASE c \in Opened
  <2>1. e \in Entries(Opened) BY <1>1 DEF Entries
  <2>2. CASE ~Replace(p) BY <2>1, <2>2, EntriesStay
  <2>3. CASE Replace(p)
    <3>1. upkeep[p].pc = "cleared" /\ backupOf' = backupOf BY <2>3 DEF Replace, Goto
    <3>2. e \in Entries(backupOf[p].file) BY <1>0, <2>1, <3>1 DEF PlacesFit, BackupsFit, At, Does
    <3> QED BY <3>1, <3>2
  <2> QED BY <2>2, <2>3
<1>2. ASSUME NEW q \in Upkeeper, c \in backupOf[q].file
      PROVE  e \in Entries(Opened)' \/ \E r \in Upkeeper : e \in Entries(backupOf'[r].file)
  <2>1. e \in Entries(backupOf[q].file) BY <1>2 DEF Entries
  <2>2. CASE backupOf'[q] = backupOf[q] BY <2>1, <2>2
  <2>3. CASE q # p BY <1>0, <2>2, <2>3, OthersKept
  <2>4. CASE q = p /\ (ReserveBackup(p) \/ FillBackup(p))
    BY <1>0, <1>2, <2>4 DEF ReserveBackup, FillBackup, Goto, BackupsFit, At, Does, Maintains
  <2>5. CASE q = p /\ Break(p) /\ Discarded(p)
    <3>1. At(p, {"filled", "drained"}) BY <1>0, <1>2, <2>5 DEF Discarded, BackupsFit, At
    <3>2. e \in Entries(Opened) BY <1>0, <2>1, <2>5, <3>1 DEF BackupsFit
    <3>3. Opened' = Opened BY <2>5 DEF Break, Opened
    <3> QED BY <3>2, <3>3 DEF Entries
  <2> QED BY <1>0, <2>2, <2>3, <2>4, <2>5, BackupChanges
<1> QED BY <1>1, <1>2 DEF Backups

\* What a replacement takes from the database is in the backup of the restore that made it.
LEMMA DatabaseKept ==
    ASSUME UpkeepIInv, NEW p \in Upkeeper, UpkeepStep(p)
    PROVE  \/ Entries(Opened) \subseteq Entries(Opened)'
           \/ /\ Does(p, {"restore"}) /\ Opened' = upkeep[p].temp
              /\ Entries(Opened) \subseteq Entries(backupOf[p].file)
<1>1. CASE ~Replace(p) BY <1>1, EntriesStay
<1>2. CASE Replace(p)
  <2>1. upkeep[p].pc = "cleared" /\ upkeep[p].temp # {} /\ mainFile' = upkeep[p].temp
    BY <1>2 DEF Replace, Goto
  <2>2. Does(p, Maintains) BY <2>1 DEF UpkeepIInv, PlacesFit, At
  <2>3. Opened' = upkeep[p].temp
    BY <1>2, <2>1 DEF UpkeepIInv, FilesThere, At, Replace, Opened
  <2>4. Entries(Opened) \subseteq Entries(backupOf[p].file)
    BY <2>1, <2>2 DEF UpkeepIInv, BackupsFit, At
  <2>5. CASE Does(p, {"restore"}) BY <2>3, <2>4, <2>5
  <2>6. CASE Does(p, {"repair"})
    <3>1. Entries(backupOf[p].file) \subseteq Entries(upkeep[p].temp)
      BY <2>1, <2>6 DEF UpkeepIInv, CandidatesFit, At
    <3> QED BY <2>3, <2>4, <3>1 DEF Entries
  <2> QED BY <2>2, <2>5, <2>6 DEF Does, Maintains
<1> QED BY <1>1, <1>2

\* What was entered stays: an entry leaves the database only with a restore that has a backup
\* of all that was there, a repair keeps everything, and no only copy is removed, through any
\* number of failures and deaths.
THEOREM NothingIsLost == UpkeepSpec => NothingLost
<1> DEFINE Kept ==
      /\ Entries(Opened \cup Backups) \subseteq Entries(Opened \cup Backups)'
      /\ \/ Entries(Opened) \subseteq Entries(Opened)'
         \/ \E p \in Upkeeper : /\ Does(p, {"restore"}) /\ Opened' = upkeep[p].temp
                                /\ Entries(Opened) \subseteq Entries(backupOf[p].file)
<1>1. UpkeepIInv /\ [UpkeepNext]_upkeepVars => [Kept]_upkeepVars
  <2> SUFFICES ASSUME UpkeepIInv, UpkeepNext PROVE Kept OBVIOUS
  <2>1. PICK p \in Upkeeper : UpkeepStep(p) BY DEF UpkeepNext, UpkeepStep
  <2> QED BY <2>1, CopiesStay, DatabaseKept
<1>2. UpkeepSpec => [][UpkeepNext]_upkeepVars BY DEF UpkeepSpec
<1> QED BY <1>1, <1>2, InvHolds, PTL DEF NothingLost
=============================================================================
