----------------------- MODULE LibrarySchedulerProofs -----------------------
(***************************************************************************)
(* Proofs about LibraryScheduler: type correctness, that a source is in    *)
(* one batch at most, that a change once scheduled stays on the books,     *)
(* that a running round has its reload to ask for, and that the first      *)
(* maintenance task to pause is alone.                                     *)
(***************************************************************************)
EXTENDS LibraryScheduler, TLAPS

-----------------------------------------------------------------------------
\* What the calls of the scheduling core return for a well-typed schedule.

\* The periods a schedule can hold.
LEMMA Periods ==
    /\ Debounce \in {None} \cup 0 .. Debounce
    /\ Debounce # None
    /\ RateLimit \in 0 .. RateLimit
<1>1. Debounce \in 0 .. Debounce /\ RateLimit \in 0 .. RateLimit
  BY SchedulerBounds
<1>2. Debounce # None
  BY SchedulerBounds
<1>. QED
  BY <1>1, <1>2

\* A change gives an idle source a debounce and has a running one followed up.
LEMMA ChangedType ==
    ASSUME NEW r \in Schedule
    PROVE  /\ Changed(r) \in Schedule
           /\ Changed(r).running = r.running
           /\ r.running => Changed(r).again
           /\ ~r.running => Changed(r).pending # None
           /\ r.pending # None => Changed(r).pending # None
           /\ r.again => Changed(r).again
BY Periods DEF Changed, Schedule

\* A request by hand keeps the shape of a schedule.
LEMMA SupersededType ==
    ASSUME NEW r \in Schedule
    PROVE  Superseded(r) \in Schedule /\ Superseded(r).running = r.running
BY DEF Superseded, Schedule

\* So does the start of a scan.
LEMMA StartedType ==
    ASSUME NEW r \in Schedule
    PROVE  Started(r) \in Schedule /\ Started(r).running
BY Periods DEF Started, Schedule

\* Its end leaves the source idle, and pending if it is to be followed up.
LEMMA FinishedType ==
    ASSUME NEW r \in Schedule
    PROVE  /\ Finished(r) \in Schedule
           /\ ~Finished(r).running
           /\ r.pending # None \/ r.again
                => Finished(r).pending # None \/ Finished(r).again
BY Periods DEF Finished, Schedule

\* A unit of time takes no period away.
LEMMA LaterType ==
    ASSUME NEW r \in Schedule
    PROVE  /\ [r EXCEPT !.pending = Later(@), !.rate = Later(@)] \in Schedule
           /\ r.pending # None => Later(r.pending) # None
<1>1. ASSUME NEW n \in Nat, NEW t \in 0 .. n PROVE Later(t) \in 0 .. n /\ Later(t) # None
  BY SchedulerBounds DEF Later
<1>2. Later(None) = None
  BY DEF Later
<1>3. /\ r.pending \in {None} \cup 0 .. Debounce
      /\ r.rate \in 0 .. RateLimit
  BY DEF Schedule
<1>4. Later(r.pending) \in {None} \cup 0 .. Debounce /\ Later(r.rate) \in 0 .. RateLimit
  BY <1>1, <1>2, <1>3, SchedulerBounds
<1>5. r.pending # None => Later(r.pending) # None
  BY <1>1, <1>3, SchedulerBounds
<1>6. [r EXCEPT !.pending = Later(@), !.rate = Later(@)] \in Schedule
  BY <1>4 DEF Schedule
<1>. QED
  BY <1>5, <1>6

\* The schedule after a batch is given back.
LEMMA AfterBatchType ==
    ASSUME TypeOK, NEW w \in Worker
    PROVE  /\ AfterBatch(w) \in [Source -> Schedule]
           /\ \A s \in Source : s \notin batch[w].ids => AfterBatch(w)[s] = sched[s]
           /\ \A s \in batch[w].ids :
                 /\ ~AfterBatch(w)[s].running
                 /\ ~batch[w].published => AfterBatch(w)[s].pending # None
                 /\ sched[s].pending # None \/ sched[s].again
                      => AfterBatch(w)[s].pending # None \/ AfterBatch(w)[s].again
<1>. /\ sched \in [Source -> Schedule]
     /\ batch[w].ids \subseteq Source
  BY DEF TypeOK, Batch
<1>1. ASSUME NEW s \in Source
      PROVE  /\ sched[s] \in Schedule
             /\ Finished(sched[s]) \in Schedule
             /\ ~Finished(sched[s]).running
             /\ Changed(Finished(sched[s])) \in Schedule
             /\ ~Changed(Finished(sched[s])).running
             /\ Changed(Finished(sched[s])).pending # None
             /\ sched[s].pending # None \/ sched[s].again
                  => Finished(sched[s]).pending # None \/ Finished(sched[s]).again
  <2>1. sched[s] \in Schedule
    OBVIOUS
  <2>2. Finished(sched[s]) \in Schedule /\ ~Finished(sched[s]).running
    BY <2>1, FinishedType
  <2>. QED
    BY <2>1, <2>2, FinishedType, ChangedType
<1>2. ASSUME NEW s \in Source
      PROVE  AfterBatch(w)[s] =
                IF s \notin batch[w].ids THEN sched[s]
                ELSE IF batch[w].published THEN Finished(sched[s])
                ELSE Changed(Finished(sched[s]))
  BY DEF AfterBatch
<1>3. AfterBatch(w) \in [Source -> Schedule]
  BY <1>1, <1>2 DEF AfterBatch
<1>. QED
  BY <1>1, <1>2, <1>3

-----------------------------------------------------------------------------
\* Type correctness.

\* What a set of changed sources does to the types.
LEMMA ChangesOfType ==
    ASSUME TypeOK, NEW ids \in SUBSET Source, ChangesOf(ids)
    PROVE  TypeOK'
<1>1. ASSUME NEW s \in Source PROVE sched[s] \in Schedule /\ Changed(sched[s]) \in Schedule
  BY ChangedType DEF TypeOK
<1>2. sched' \in [Source -> Schedule]
  BY <1>1 DEF ChangesOf
<1>3. due' \in [Source -> BOOLEAN]
  BY DEF ChangesOf, TypeOK
<1>4. owed' \in [Source -> BOOLEAN] /\ changes' \in 0 .. MaxChanges
  BY SchedulerBounds DEF ChangesOf, TypeOK
<1>. QED
  BY <1>2, <1>3, <1>4 DEF ChangesOf, TypeOK, GateTypeOK, gate, messages

\* What a thread that gives its batch back does to the types.
LEMMA GiveBackType ==
    ASSUME TypeOK, NEW w \in Worker, GiveBack(w)
    PROVE  /\ sched' \in [Source -> Schedule]
           /\ emitted' \in BOOLEAN
<1>1. sched' \in [Source -> Schedule]
  BY AfterBatchType DEF GiveBack
<1>2. emitted' \in BOOLEAN
  BY DEF GiveBack, TypeOK
<1>. QED
  BY <1>1, <1>2

\* Every step keeps the types.
LEMMA TypeStep ==
    ASSUME TypeOK, [Next]_vars
    PROVE  TypeOK'
<1>. USE DEF GateTypeOK
<1>b. NoBatch \in Batch
  BY DEF NoBatch, Batch
<1>p. Present \subseteq Source
  BY DEF Present
<1>s. \A s \in Source : sched[s] \in Schedule
  BY DEF TypeOK
<1>1. CASE Tick
  <2>1. ASSUME NEW s \in Source
        PROVE  [sched[s] EXCEPT !.pending = Later(@), !.rate = Later(@)] \in Schedule
    BY <1>s, LaterType
  <2>2. sched' \in [Source -> Schedule]
    BY <1>1, <2>1 DEF Tick
  <2>. QED
    BY <1>1, <2>2 DEF Tick, TypeOK, gate, catalog, messages, counters
<1>2. CASE RefreshAllByHand
  BY <1>2, <1>p, SchedulerBounds DEF RefreshAllByHand, Request, TypeOK, gate, catalog, timetable
<1>3. ASSUME NEW s \in Source, AddSource(s) PROVE TypeOK'
  BY <1>3, SchedulerBounds DEF AddSource, Request, TypeOK, gate, timetable
<1>4. ASSUME NEW s \in Source, RemoveSource(s) PROVE TypeOK'
  BY <1>4, SchedulerBounds DEF RemoveSource, Request, TypeOK, gate, timetable
<1>5. ASSUME NEW s \in Source, RefreshByHand(s) PROVE TypeOK'
  BY <1>5, SchedulerBounds DEF RefreshByHand, Request, TypeOK, gate, catalog, timetable
<1>6. ASSUME NEW s \in Source, ScanByHand(s) PROVE TypeOK'
  BY <1>6 DEF ScanByHand, TypeOK, gate, timetable, counters
<1>7. ASSUME NEW s \in Source, BecomeDue(s) PROVE TypeOK'
  BY <1>7, SchedulerBounds DEF BecomeDue, TypeOK, gate, timetable, messages
<1>8. CASE HandleControl
  <2>1. PICK c \in control :
           LET ids == IF c = All THEN watched ELSE {c} IN
           /\ control' = control \ {c}
           /\ sched' = [s \in Source |-> IF s \in ids THEN Superseded(sched[s]) ELSE sched[s]]
           /\ owed' = [s \in Source |-> owed[s] /\ s \notin ids]
           /\ UNCHANGED <<gate, catalog, emitted, watched, poll, manual, batch, counters>>
    BY <1>8 DEF HandleControl
  <2>2. \A s \in Source : Superseded(sched[s]) \in Schedule
    BY <1>s, SupersededType
  <2>3. sched' \in [Source -> Schedule] /\ owed' \in [Source -> BOOLEAN]
    BY <2>1, <2>2, <1>s
  <2>. QED
    BY <2>1, <2>3 DEF TypeOK, gate, catalog, counters
<1>9. CASE PollCatalog
  BY <1>9, <1>p DEF PollCatalog, TypeOK, gate, catalog, timetable, counters
<1>10. CASE WatcherOverflow
  <2>1. {s \in Source : sched[s].known} \in SUBSET Source
    OBVIOUS
  <2>. QED
    BY <1>10, <2>1, ChangesOfType DEF WatcherOverflow
<1>11. ASSUME NEW s \in Source, WatcherChanged(s) PROVE TypeOK'
  BY <1>11, ChangesOfType DEF WatcherChanged
<1>12. ASSUME NEW s \in Source, PollSource(s) PROVE TypeOK'
  <2>. DEFINE known == [sched[s] EXCEPT !.known = TRUE]
  <2>1. known \in Schedule
    BY <1>s DEF Schedule
  <2>2. Changed(known) \in Schedule
    BY <2>1, ChangedType
  <2>3. \/ sched' = [sched EXCEPT ![s] = known]
        \/ sched' = [sched EXCEPT ![s] = Changed(known)]
    BY <1>12 DEF PollSource
  <2>4. sched' \in [Source -> Schedule]
    <3>. HIDE DEF known
    <3>. QED
      BY <2>1, <2>2, <2>3 DEF TypeOK
  <2>. QED
    BY <1>12, <2>4 DEF PollSource, TypeOK, gate, catalog, counters
<1>13. ASSUME NEW w \in Worker, TakeDue(w) PROVE TypeOK'
  <2>1. \A s \in Source : Started(sched[s]) \in Schedule
    BY <1>s, StartedType
  <2>2. sched' \in [Source -> Schedule]
    BY <1>13, <2>1, <1>s DEF TakeDue
  <2>3. [NoBatch EXCEPT !.pc = "spawned", !.ids = DueScans, !.left = DueScans] \in Batch
    BY DEF NoBatch, Batch, DueScans
  <2>4. batch' \in [Worker -> Batch]
    BY <1>13, <2>3 DEF TakeDue, TypeOK
  <2>. QED
    BY <1>13, <2>2, <2>4 DEF TakeDue, TypeOK, gate, catalog, messages, counters
<1>14. ASSUME NEW w \in Worker, Begin(w) PROVE TypeOK'
  <2>1. batch' \in [Worker -> Batch]
    BY <1>14 DEF Begin, Goto, TypeOK, Batch
  <2>. QED
    BY <1>14, <2>1 DEF Begin, Admit, TypeOK, catalog, timetable, messages, counters
<1>15. ASSUME NEW w \in Worker, Refused(w) PROVE TypeOK'
  <2>1. batch' \in [Worker -> Batch]
    BY <1>15, <1>b DEF Refused, TypeOK
  <2>2. /\ sched' \in [Source -> Schedule] /\ emitted' \in BOOLEAN
        /\ UNCHANGED <<catalog, owed, messages, counters>>
    BY <1>15, GiveBackType DEF Refused, GiveBack
  <2>. QED
    BY <1>15, <2>1, <2>2 DEF Refused, TypeOK, gate, catalog, messages, counters
<1>16. ASSUME NEW w \in Worker, Select(w) PROVE TypeOK'
  <2>1. batch' \in [Worker -> Batch]
    <3>1. \A to \in {"scan", "finish"} :
             [batch[w] EXCEPT !.gen = generation, !.pc = to] \in Batch
      BY DEF TypeOK, Batch
    <3>2. \E to \in {"scan", "finish"} :
             batch' = [batch EXCEPT ![w] = [batch[w] EXCEPT !.gen = generation, !.pc = to]]
      BY <1>16 DEF Select, TypeOK
    <3>. QED
      BY <3>1, <3>2 DEF TypeOK
  <2>. QED
    BY <1>16, <2>1 DEF Select, TypeOK, gate, catalog, timetable, messages, counters
<1>17. ASSUME NEW w \in Worker, RoundDone(w) PROVE TypeOK'
  <2>1. batch' \in [Worker -> Batch]
    <3>1. [batch[w] EXCEPT !.pc = "finish", !.published = TRUE] \in Batch
      BY DEF TypeOK, Batch
    <3>2. batch' = [batch EXCEPT ![w] = [batch[w] EXCEPT !.pc = "finish", !.published = TRUE]]
      BY <1>17 DEF RoundDone, TypeOK
    <3>. QED
      BY <3>1, <3>2 DEF TypeOK
  <2>. QED
    BY <1>17, <2>1 DEF RoundDone, TypeOK, gate, catalog, timetable, messages, counters
<1>18. ASSUME NEW w \in Worker, NEW s \in Source, ScanSource(w, s) PROVE TypeOK'
  <2>1. batch' \in [Worker -> Batch]
    BY <1>18 DEF ScanSource, Goto, TypeOK, Batch
  <2>. QED
    BY <1>18, <2>1 DEF ScanSource, TypeOK, gate, messages, counters
<1>19. ASSUME NEW w \in Worker, Finish(w) PROVE TypeOK'
  <2>1. batch' \in [Worker -> Batch]
    <3>1. \A to \in {"check", "leave"} : [batch[w] EXCEPT !.pc = to, !.ids = {}] \in Batch
      BY DEF TypeOK, Batch
    <3>2. \E to \in {"check", "leave"} :
             batch' = [batch EXCEPT ![w] = [batch[w] EXCEPT !.pc = to, !.ids = {}]]
      BY <1>19 DEF Finish, TypeOK
    <3>. QED
      BY <3>1, <3>2 DEF TypeOK
  <2>2. /\ sched' \in [Source -> Schedule] /\ emitted' \in BOOLEAN
        /\ UNCHANGED <<catalog, owed, messages, counters>>
    BY <1>19, GiveBackType DEF Finish, GiveBack
  <2>. QED
    BY <1>19, <2>1, <2>2 DEF Finish, TypeOK, gate, catalog, messages, counters
<1>20. ASSUME NEW w \in Worker, Check(w) PROVE TypeOK'
  <2>1. batch' \in [Worker -> Batch]
    BY <1>20 DEF Check, Goto, TypeOK, Batch
  <2>. QED
    BY <1>20, <2>1 DEF Check, TypeOK, gate, catalog, timetable, messages, counters
<1>21. ASSUME NEW w \in Worker, Publish(w) PROVE TypeOK'
  <2>1. batch' \in [Worker -> Batch]
    BY <1>21 DEF Publish, Goto, TypeOK, Batch
  <2>. QED
    BY <1>21, <2>1 DEF Publish, TypeOK, gate, catalog, timetable, messages, counters
<1>22. ASSUME NEW w \in Worker, Leave(w) PROVE TypeOK'
  <2>1. batch' \in [Worker -> Batch]
    BY <1>22, <1>b DEF Leave, TypeOK
  <2>. QED
    BY <1>22, <2>1 DEF Leave, Dismiss, TypeOK, catalog, timetable, messages, counters
<1>23. ASSUME NEW w \in Worker, RoundFails(w) PROVE TypeOK'
  <2>1. batch' \in [Worker -> Batch]
    BY <1>23 DEF RoundFails, Goto, TypeOK, Batch
  <2>. QED
    BY <1>23, <2>1, SchedulerBounds DEF RoundFails, TypeOK, gate, catalog, timetable, messages
<1>24. ASSUME NEW m \in Pauser, Maintenance(m) PROVE TypeOK'
  <2>1. pauser' \in [Pauser -> Held \cup {"idle", "done"}] /\ generation' \in Nat
        /\ guards' = guards
    BY <1>24 DEF Maintenance, GateStep, Pause, Announce, Enter, Resume, Held, TypeOK
  <2>. QED
    BY <1>24, <2>1 DEF Maintenance, TypeOK, catalog, timetable, messages, counters
<1>25. CASE UNCHANGED vars
  BY <1>25 DEF TypeOK, vars, gate, catalog, timetable, messages, counters
<1>. QED
  BY <1>1, <1>2, <1>3, <1>4, <1>5, <1>6, <1>7, <1>8, <1>9, <1>10, <1>11, <1>12, <1>13, <1>14,
     <1>15, <1>16, <1>17, <1>18, <1>19, <1>20, <1>21, <1>22, <1>23, <1>24, <1>25
     DEF Next, User, Thread

\* The initial state is well-typed.
LEMMA TypeInit ==
    ASSUME Init
    PROVE  TypeOK
<1>1. NoSchedule \in Schedule /\ NoBatch \in Batch
  BY SchedulerBounds DEF NoSchedule, Schedule, NoBatch, Batch
<1>2. due \in [Source -> BOOLEAN]
  BY DEF Init
<1>3. /\ changes \in 0 .. MaxChanges /\ requests \in 0 .. MaxRequests
      /\ expiries \in 0 .. MaxExpiries /\ faults \in 0 .. MaxFaults
      /\ generation \in Nat
  BY SchedulerBounds DEF Init, GateInit
<1>. QED
  BY <1>1, <1>2, <1>3 DEF Init, GateInit, TypeOK, GateTypeOK, Held

\* The variables have their types.
THEOREM TypeCorrect == Spec => []TypeOK
<1>1. Init => TypeOK
  BY TypeInit
<1>2. TypeOK /\ [Next]_vars => TypeOK'
  BY TypeStep
<1>. QED
  BY <1>1, <1>2, PTL DEF Spec

-----------------------------------------------------------------------------
\* The inductive invariant.

Guarded == {"gated", "scan", "finish", "check", "publish", "leave"}

\* The guards of the gate are those of threads at work, and a task that has waited
\* found none.
GateInv ==
    /\ \A w \in Worker : w \in guards <=> batch[w].pc \in Guarded
    /\ (\E m \in Pauser : pauser[m] = "in") => guards = {}

\* A thread has a batch between the take and the giving back, and has published when
\* its round is over.
BatchInv ==
    \A w \in Worker :
        /\ batch[w].pc \in {"none", "check", "publish", "leave"} => batch[w].ids = {}
        /\ batch[w].pc \in {"spawned", "gated", "scan"} => ~batch[w].published
        /\ batch[w].pc \in {"spawned", "gated"} => batch[w].left = batch[w].ids

IInv == TypeOK /\ GateInv /\ BatchInv /\ OneThreadPerSource /\ ChangeRemembered /\ ReloadOutstanding

\* What is left alone by the steps of the user and of the clock.
LEMMA ScheduleOnly ==
    ASSUME IInv, TypeOK', UNCHANGED <<gate, batch, emitted>>,
           \A s \in Source :
              /\ sched'[s].running = sched[s].running
              /\ owed'[s] => \/ sched'[s].pending # None
                             \/ sched'[s].again
                             \/ /\ owed[s]
                                /\ ~(sched[s].pending # None \/ sched[s].again)
    PROVE  IInv'
<1>1. GateInv' /\ BatchInv'
  BY DEF IInv, GateInv, BatchInv, gate
<1>2. OneThreadPerSource' /\ ReloadOutstanding'
  BY DEF IInv, OneThreadPerSource, ReloadOutstanding
<1>3. ChangeRemembered'
  BY DEF IInv, ChangeRemembered
<1>. QED
  BY <1>1, <1>2, <1>3 DEF IInv

\* A step of a thread that keeps its batch, between two steps under its guard.
LEMMA ThreadOnly ==
    ASSUME IInv, TypeOK', NEW w \in Worker,
           UNCHANGED <<gate, sched, emitted>>,
           batch[w].pc \in Guarded, batch'[w].pc \in Guarded,
           batch'[w].ids = batch[w].ids,
           batch'[w].pc \in {"check", "publish", "leave"} => batch[w].ids = {},
           batch'[w].pc = "scan" => ~batch'[w].published,
           batch'[w].pc # "gated",
           \A v \in Worker \ {w} : batch'[v] = batch[v],
           \A s \in Source : owed'[s] =>
              /\ owed[s]
              /\ s \in batch[w].ids =>
                    \/ sched[s].pending # None
                    \/ sched[s].again
                    \/ batch'[w].pc = "scan" /\ s \in batch'[w].left
                    \/ batch'[w].pc = "finish" /\ ~batch'[w].published
    PROVE  IInv'
<1>1. GateInv' /\ BatchInv'
  BY DEF IInv, GateInv, BatchInv, gate, Guarded
<1>2. \A v \in Worker : batch'[v].ids = batch[v].ids
  OBVIOUS
<1>3. OneThreadPerSource' /\ ReloadOutstanding'
  BY <1>2 DEF IInv, OneThreadPerSource, ReloadOutstanding
<1>4. ChangeRemembered'
  <2>. SUFFICES ASSUME NEW s \in Source, owed'[s],
                       sched[s].pending = None, ~sched[s].again
                PROVE  \E v \in Worker :
                          /\ s \in batch'[v].ids
                          /\ \/ batch'[v].pc \in {"spawned", "gated"}
                             \/ batch'[v].pc = "scan" /\ s \in batch'[v].left
                             \/ batch'[v].pc = "finish" /\ ~batch'[v].published
    BY DEF ChangeRemembered
  <2>1. PICK v \in Worker :
           /\ s \in batch[v].ids
           /\ \/ batch[v].pc \in {"spawned", "gated"}
              \/ batch[v].pc = "scan" /\ s \in batch[v].left
              \/ batch[v].pc = "finish" /\ ~batch[v].published
    BY DEF IInv, ChangeRemembered
  <2>2. CASE v = w
    BY <2>1, <2>2
  <2>3. CASE v # w
    BY <2>1, <2>3
  <2>. QED
    BY <2>2, <2>3
<1>. QED
  BY <1>1, <1>3, <1>4 DEF IInv

\* A thread gives its batch back.
LEMMA GiveBackOnly ==
    ASSUME IInv, TypeOK', NEW w \in Worker, GiveBack(w),
           batch[w].pc \in {"spawned", "finish"},
           batch'[w].ids = {},
           \A v \in Worker \ {w} : batch'[v] = batch[v]
    PROVE  OneThreadPerSource' /\ ChangeRemembered' /\ ReloadOutstanding'
<1>. DEFINE ids == batch[w].ids
<1>1. /\ sched' = AfterBatch(w)
      /\ emitted' = (emitted \/ Reload(w))
      /\ owed' = owed
  BY DEF GiveBack
<1>2. /\ \A s \in Source : s \notin ids => sched'[s] = sched[s]
      /\ \A s \in ids :
            /\ ~sched'[s].running
            /\ ~batch[w].published => sched'[s].pending # None
            /\ sched[s].pending # None \/ sched[s].again
                 => sched'[s].pending # None \/ sched'[s].again
  BY <1>1, AfterBatchType DEF IInv
<1>3. OneThreadPerSource
  BY DEF IInv
<1>4. ids \subseteq Source
  BY DEF IInv, TypeOK, Batch
<1>5. \A s \in ids : \A v \in Worker \ {w} : s \notin batch[v].ids
  BY <1>3, <1>4 DEF OneThreadPerSource
<1>6. \A s \in Source : sched'[s].running => sched[s].running /\ s \notin ids
  BY <1>2
<1>7. OneThreadPerSource'
  BY <1>2, <1>3, <1>4, <1>5 DEF OneThreadPerSource
<1>8. ReloadOutstanding'
  <2>. SUFFICES ASSUME NEW s \in Source, sched'[s].running PROVE ~emitted'
    BY DEF ReloadOutstanding
  <2>1. ~emitted
    BY <1>6 DEF IInv, ReloadOutstanding
  <2>2. ~Reload(w)
    BY <1>1 DEF Reload
  <2>. QED
    BY <1>1, <2>1, <2>2
<1>9. ChangeRemembered'
  <2>. SUFFICES ASSUME NEW s \in Source, owed[s],
                       sched'[s].pending = None, ~sched'[s].again
                PROVE  \E v \in Worker :
                          /\ s \in batch'[v].ids
                          /\ \/ batch'[v].pc \in {"spawned", "gated"}
                             \/ batch'[v].pc = "scan" /\ s \in batch'[v].left
                             \/ batch'[v].pc = "finish" /\ ~batch'[v].published
    BY <1>1 DEF ChangeRemembered
  <2>1. sched[s].pending = None /\ ~sched[s].again
    BY <1>2
  <2>2. PICK v \in Worker :
           /\ s \in batch[v].ids
           /\ \/ batch[v].pc \in {"spawned", "gated"}
              \/ batch[v].pc = "scan" /\ s \in batch[v].left
              \/ batch[v].pc = "finish" /\ ~batch[v].published
    BY <2>1 DEF IInv, ChangeRemembered
  <2>3. CASE v # w
    BY <2>2, <2>3
  <2>4. CASE v = w
    <3>1. batch[w].published
      BY <2>2, <2>4, <1>2
    <3>2. batch[w].pc = "spawned"
      BY <3>1, <2>2, <2>4
    <3>. QED
      BY <3>1, <3>2 DEF IInv, BatchInv
  <2>. QED
    BY <2>3, <2>4
<1>. QED
  BY <1>7, <1>8, <1>9

\* Every step keeps the inductive invariant: first the steps of the scheduler and its
\* surroundings, then those of threads.
LEMMA Inductive ==
    ASSUME IInv, [Next]_vars
    PROVE  IInv'
<1>t. TypeOK /\ TypeOK'
  BY TypeStep DEF IInv
<1>s. \A s \in Source : sched[s] \in Schedule
  BY <1>t DEF TypeOK
<1>b. \A w \in Worker : batch[w] \in Batch
  BY <1>t DEF TypeOK
<1>c. ASSUME NEW ids \in SUBSET Source, ChangesOf(ids) PROVE IInv'
  <2>1. ASSUME NEW s \in Source
        PROVE  /\ sched'[s] = IF s \in ids THEN Changed(sched[s]) ELSE sched[s]
               /\ owed'[s] = (owed[s] \/ s \in ids)
    BY <1>c, <1>t DEF ChangesOf, TypeOK
  <2>2. ASSUME NEW s \in Source
        PROVE  /\ sched'[s].running = sched[s].running
               /\ owed'[s] => \/ sched'[s].pending # None
                              \/ sched'[s].again
                              \/ /\ owed[s]
                                 /\ ~(sched[s].pending # None \/ sched[s].again)
    BY <2>1, <1>s, ChangedType
  <2>3. UNCHANGED <<gate, batch, emitted>>
    BY <1>c DEF ChangesOf
  <2>. QED
    BY <2>2, <2>3, <1>t, ScheduleOnly
<1>1. CASE Tick
  <2>1. ASSUME NEW s \in Source
        PROVE  /\ sched'[s] = [sched[s] EXCEPT !.pending = Later(@), !.rate = Later(@)]
               /\ sched[s].pending # None => Later(sched[s].pending) # None
    BY <1>1, <1>s, LaterType DEF Tick
  <2>2. ASSUME NEW s \in Source
        PROVE  /\ sched'[s].running = sched[s].running
               /\ sched'[s].again = sched[s].again
               /\ sched[s].pending # None => sched'[s].pending # None
    BY <2>1, <1>s DEF Schedule
  <2>. QED
    BY <1>1, <2>2, <1>t, ScheduleOnly DEF Tick
<1>2. CASE User
  <2>1. UNCHANGED <<gate, batch, timetable>>
    BY <1>2 DEF User, RefreshAllByHand, AddSource, RemoveSource, RefreshByHand, ScanByHand,
                BecomeDue, timetable
  <2>. QED
    BY <2>1, <1>t, ScheduleOnly DEF timetable
<1>3. CASE HandleControl
  <2>1. PICK c \in control :
           LET ids == IF c = All THEN watched ELSE {c} IN
           /\ sched' = [s \in Source |-> IF s \in ids THEN Superseded(sched[s]) ELSE sched[s]]
           /\ owed' = [s \in Source |-> owed[s] /\ s \notin ids]
    BY <1>3 DEF HandleControl
  <2>2. ASSUME NEW s \in Source
        PROVE  /\ sched'[s].running = sched[s].running
               /\ owed'[s] => owed[s] /\ sched'[s] = sched[s]
    BY <2>1, <1>s, SupersededType
  <2>3. UNCHANGED <<gate, batch, emitted>>
    BY <1>3 DEF HandleControl
  <2>. QED
    BY <2>2, <2>3, <1>t, ScheduleOnly
<1>4. CASE PollCatalog
  BY <1>4, <1>t, ScheduleOnly DEF PollCatalog, timetable
<1>5. CASE WatcherOverflow
  <2>1. {s \in Source : sched[s].known} \in SUBSET Source
    OBVIOUS
  <2>. QED
    BY <1>5, <2>1, <1>c DEF WatcherOverflow
<1>6. ASSUME NEW s \in Source, WatcherChanged(s) PROVE IInv'
  BY <1>6, <1>c DEF WatcherChanged
<1>7. ASSUME NEW s \in Source, PollSource(s) PROVE IInv'
  <2>. DEFINE known == [sched[s] EXCEPT !.known = TRUE]
  <2>1. /\ known \in Schedule
        /\ known.running = sched[s].running
        /\ known.pending = sched[s].pending
        /\ known.again = sched[s].again
    BY <1>s DEF Schedule
  <2>2. \/ sched' = [sched EXCEPT ![s] = known]
        \/ sched' = [sched EXCEPT ![s] = Changed(known)]
    BY <1>7 DEF PollSource
  <2>3. /\ Changed(known).running = known.running
        /\ known.pending # None => Changed(known).pending # None
        /\ known.again => Changed(known).again
    BY <2>1, ChangedType
  <2>4. ASSUME NEW q \in Source
        PROVE  /\ sched'[q].running = sched[q].running
               /\ sched[q].pending # None => sched'[q].pending # None
               /\ sched[q].again => sched'[q].again
    <3>. HIDE DEF known
    <3>. QED
      BY <2>1, <2>2, <2>3, <1>t DEF TypeOK
  <2>5. UNCHANGED <<gate, batch, emitted, owed>>
    BY <1>7 DEF PollSource
  <2>. QED
    BY <2>4, <2>5, <1>t, ScheduleOnly
<1>8. ASSUME NEW w \in Worker, TakeDue(w) PROVE IInv'
  <2>1. /\ batch[w].pc = "none" /\ batch[w].ids = {}
        /\ emitted' = FALSE
        /\ UNCHANGED <<gate, owed>>
    BY <1>8 DEF TakeDue, IInv, BatchInv
  <2>2. /\ batch'[w].pc = "spawned" /\ batch'[w].ids = DueScans
        /\ batch'[w].left = DueScans /\ ~batch'[w].published
        /\ \A v \in Worker \ {w} : batch'[v] = batch[v]
    BY <1>8, <1>t DEF TakeDue, TypeOK, NoBatch
  <2>3. ASSUME NEW s \in Source
        PROVE  /\ s \in DueScans => ~sched[s].running /\ sched'[s].running
               /\ s \notin DueScans => sched'[s] = sched[s]
    BY <1>8, <1>s, StartedType DEF TakeDue, DueScans, IsDue
  <2>4. DueScans \subseteq Source
    BY DEF DueScans
  <2>5. GateInv' /\ BatchInv'
    BY <2>1, <2>2 DEF IInv, GateInv, BatchInv, gate, Guarded
  <2>6. OneThreadPerSource'
    <3>1. OneThreadPerSource
      BY DEF IInv
    <3>2. ASSUME NEW s \in DueScans, NEW v \in Worker PROVE s \notin batch[v].ids
      BY <2>3, <2>4, <3>1 DEF OneThreadPerSource
    <3>3. ASSUME NEW s \in Source, s \in DueScans
          PROVE  /\ sched'[s].running /\ s \in batch'[w].ids
                 /\ \A v \in Worker : s \in batch'[v].ids => v = w
      BY <2>2, <2>3, <3>2, <3>3
    <3>4. ASSUME NEW s \in Source, s \notin DueScans
          PROVE  /\ sched'[s] = sched[s]
                 /\ \A v \in Worker : s \in batch'[v].ids <=> s \in batch[v].ids
      BY <2>1, <2>2, <2>3, <3>4
    <3>. QED
      BY <3>1, <3>3, <3>4 DEF OneThreadPerSource
  <2>7. ReloadOutstanding'
    BY <2>1 DEF ReloadOutstanding
  <2>8. ChangeRemembered'
    <3>1. ASSUME NEW s \in Source, s \in DueScans
          PROVE  s \in batch'[w].ids /\ batch'[w].pc = "spawned"
      BY <2>2, <3>1
    <3>2. ASSUME NEW s \in Source, s \notin DueScans,
                 NEW v \in Worker, s \in batch[v].ids
          PROVE  sched'[s] = sched[s] /\ batch'[v] = batch[v]
      BY <2>1, <2>2, <2>3, <3>2
    <3>3. ASSUME NEW s \in Source, s \notin DueScans PROVE sched'[s] = sched[s]
      BY <2>3, <3>3
    <3>4. ChangeRemembered
      BY DEF IInv
    <3>. QED
      BY <2>1, <3>1, <3>2, <3>3, <3>4 DEF ChangeRemembered
  <2>. QED
    BY <2>5, <2>6, <2>7, <2>8, <1>t DEF IInv
<1>9. ASSUME NEW w \in Worker, Begin(w) PROVE IInv'
  <2>1. /\ batch[w].pc = "spawned" /\ batch'[w].pc = "gated"
        /\ batch'[w].ids = batch[w].ids /\ batch'[w].left = batch[w].left
        /\ batch'[w].published = batch[w].published
        /\ \A v \in Worker \ {w} : batch'[v] = batch[v]
        /\ UNCHANGED <<sched, emitted, owed>>
    BY <1>9, <1>t, <1>b DEF Begin, Goto, TypeOK, Batch, timetable
  <2>2. /\ ~Paused /\ guards' = guards \cup {w} /\ pauser' = pauser
    BY <1>9 DEF Begin, Admit
  <2>3. GateInv'
    <3>1. \A v \in Worker : v \in guards' <=> batch'[v].pc \in Guarded
      BY <2>1, <2>2 DEF IInv, GateInv, Guarded
    <3>2. ~\E m \in Pauser : pauser'[m] = "in"
      BY <2>2 DEF Paused, Held
    <3>. QED
      BY <3>1, <3>2 DEF GateInv
  <2>4. BatchInv'
    BY <2>1 DEF IInv, BatchInv
  <2>5. \A v \in Worker : batch'[v].ids = batch[v].ids
    BY <2>1
  <2>6. OneThreadPerSource' /\ ReloadOutstanding'
    BY <2>1, <2>5 DEF IInv, OneThreadPerSource, ReloadOutstanding
  <2>7. ChangeRemembered'
    BY <2>1 DEF IInv, ChangeRemembered
  <2>. QED
    BY <2>3, <2>4, <2>6, <2>7, <1>t DEF IInv
<1>10. ASSUME NEW w \in Worker, Refused(w) PROVE IInv'
  <2>1. /\ batch[w].pc = "spawned" /\ batch'[w].pc = "none" /\ batch'[w].ids = {}
        /\ \A v \in Worker \ {w} : batch'[v] = batch[v]
        /\ GiveBack(w) /\ UNCHANGED gate
    BY <1>10, <1>t DEF Refused, NoBatch, TypeOK
  <2>2. GateInv' /\ BatchInv'
    BY <2>1 DEF IInv, GateInv, BatchInv, gate, Guarded
  <2>. QED
    BY <2>1, <2>2, <1>t, GiveBackOnly DEF IInv
<1>11. ASSUME NEW w \in Worker, Select(w) PROVE IInv'
  <2>1. /\ batch[w].pc = "gated" /\ batch'[w].pc \in {"scan", "finish"}
        /\ batch'[w].ids = batch[w].ids /\ batch'[w].left = batch[w].left
        /\ batch'[w].published = batch[w].published
        /\ \A v \in Worker \ {w} : batch'[v] = batch[v]
        /\ UNCHANGED <<gate, sched, emitted, owed>>
    BY <1>11, <1>t, <1>b DEF Select, TypeOK, Batch, timetable
  <2>2. ~batch'[w].published /\ batch[w].left = batch[w].ids
    BY <2>1 DEF IInv, BatchInv
  <2>3. batch[w].pc \in Guarded /\ batch'[w].pc \in Guarded
    BY <2>1 DEF Guarded
  <2>4. batch'[w].pc \notin {"check", "publish", "leave", "gated"}
    BY <2>1
  <2>. QED
    BY <2>1, <2>2, <2>3, <2>4, <1>t, ThreadOnly
<1>12. ASSUME NEW w \in Worker, RoundFails(w) PROVE IInv'
  <2>1. /\ batch[w].pc \in {"gated", "scan"} /\ batch'[w].pc = "finish"
        /\ batch'[w].ids = batch[w].ids
        /\ batch'[w].published = batch[w].published
        /\ \A v \in Worker \ {w} : batch'[v] = batch[v]
        /\ UNCHANGED <<gate, sched, emitted, owed>>
    BY <1>12, <1>t, <1>b DEF RoundFails, Goto, TypeOK, Batch, timetable
  <2>2. ~batch'[w].published
    BY <2>1 DEF IInv, BatchInv
  <2>3. batch[w].pc \in Guarded /\ batch'[w].pc \in Guarded
    BY <2>1 DEF Guarded
  <2>4. batch'[w].pc \notin {"check", "publish", "leave", "gated"}
    BY <2>1
  <2>. QED
    BY <2>1, <2>2, <2>3, <2>4, <1>t, ThreadOnly
<1>13. ASSUME NEW w \in Worker, RoundDone(w) PROVE IInv'
  <2>1. /\ batch[w].pc = "scan" /\ batch[w].left = {} /\ batch'[w].pc = "finish"
        /\ batch'[w].ids = batch[w].ids
        /\ \A v \in Worker \ {w} : batch'[v] = batch[v]
        /\ UNCHANGED <<gate, sched, emitted, owed>>
    BY <1>13, <1>t, <1>b DEF RoundDone, TypeOK, Batch, timetable
  <2>2. ASSUME NEW s \in Source, owed[s], s \in batch[w].ids
        PROVE  sched[s].pending # None \/ sched[s].again
    <3>1. \A v \in Worker : s \in batch[v].ids => v = w
      BY <2>2 DEF IInv, OneThreadPerSource
    <3>. QED
      BY <2>1, <2>2, <3>1 DEF IInv, ChangeRemembered
  <2>3. batch[w].pc \in Guarded /\ batch'[w].pc \in Guarded
    BY <2>1 DEF Guarded
  <2>4. batch'[w].pc \notin {"check", "publish", "leave", "gated", "scan"}
    BY <2>1
  <2>. QED
    BY <2>1, <2>2, <2>3, <2>4, <1>t, ThreadOnly
<1>14. ASSUME NEW w \in Worker, NEW s \in Source, ScanSource(w, s) PROVE IInv'
  <2>1. /\ batch[w].pc = "scan"
        /\ batch'[w].ids = batch[w].ids /\ batch'[w].published = batch[w].published
        /\ \A v \in Worker \ {w} : batch'[v] = batch[v]
        /\ UNCHANGED <<gate, sched, emitted>>
        /\ \/ /\ batch'[w].pc = "scan" /\ batch'[w].left = batch[w].left \ {s}
              /\ owed' = [owed EXCEPT ![s] = FALSE]
           \/ batch'[w].pc = "finish" /\ owed' = owed
    BY <1>14, <1>t, <1>b DEF ScanSource, Goto, TypeOK, Batch
  <2>2. ~batch'[w].published
    BY <2>1 DEF IInv, BatchInv
  <2>3. batch[w].pc \in Guarded /\ batch'[w].pc \in Guarded
    BY <2>1 DEF Guarded
  <2>4. batch'[w].pc \notin {"check", "publish", "leave", "gated"}
    BY <2>1
  <2>5. ASSUME NEW q \in Source, owed'[q]
        PROVE  /\ owed[q]
               /\ q \in batch[w].ids =>
                     \/ sched[q].pending # None
                     \/ sched[q].again
                     \/ batch'[w].pc = "scan" /\ q \in batch'[w].left
                     \/ batch'[w].pc = "finish" /\ ~batch'[w].published
    <3>1. owed[q] /\ (batch'[w].pc = "scan" => q # s)
      BY <2>1, <2>5, <1>t DEF TypeOK
    <3>2. \A v \in Worker : q \in batch[v].ids /\ q \in batch[w].ids => v = w
      BY DEF IInv, OneThreadPerSource
    <3>3. q \in batch[w].ids => \/ sched[q].pending # None
                                \/ sched[q].again
                                \/ q \in batch[w].left
      BY <2>1, <3>1, <3>2 DEF IInv, ChangeRemembered
    <3>. QED
      BY <2>1, <2>2, <3>1, <3>3
  <2>. QED
    BY <2>1, <2>2, <2>3, <2>4, <2>5, <1>t, ThreadOnly
<1>15. ASSUME NEW w \in Worker, Finish(w) PROVE IInv'
  <2>1. /\ batch[w].pc = "finish" /\ batch'[w].pc \in {"check", "leave"}
        /\ batch'[w].ids = {}
        /\ \A v \in Worker \ {w} : batch'[v] = batch[v]
        /\ GiveBack(w) /\ UNCHANGED gate
    BY <1>15, <1>t, <1>b DEF Finish, TypeOK, Batch
  <2>2. GateInv' /\ BatchInv'
    BY <2>1 DEF IInv, GateInv, BatchInv, gate, Guarded
  <2>. QED
    BY <2>1, <2>2, <1>t, GiveBackOnly DEF IInv
<1>16. ASSUME NEW w \in Worker, Check(w) \/ Publish(w) PROVE IInv'
  <2>1. /\ batch[w].pc \in {"check", "publish"} /\ batch'[w].pc \in {"publish", "leave"}
        /\ batch'[w].ids = batch[w].ids
        /\ \A v \in Worker \ {w} : batch'[v] = batch[v]
        /\ UNCHANGED <<gate, sched, emitted, owed>>
    BY <1>16, <1>t, <1>b DEF Check, Publish, Goto, TypeOK, Batch, timetable
  <2>2. batch[w].ids = {}
    BY <2>1 DEF IInv, BatchInv
  <2>3. batch[w].pc \in Guarded /\ batch'[w].pc \in Guarded
    BY <2>1 DEF Guarded
  <2>4. batch'[w].pc \notin {"scan", "gated"}
    BY <2>1
  <2>. QED
    BY <2>1, <2>2, <2>3, <2>4, <1>t, ThreadOnly
<1>17. ASSUME NEW w \in Worker, Leave(w) PROVE IInv'
  <2>1. /\ batch[w].pc = "leave" /\ batch[w].ids = {}
        /\ batch'[w].pc = "none" /\ batch'[w].ids = {}
        /\ \A v \in Worker \ {w} : batch'[v] = batch[v]
        /\ guards' = guards \ {w} /\ pauser' = pauser
        /\ UNCHANGED <<sched, emitted, owed>>
    BY <1>17, <1>t DEF Leave, Dismiss, NoBatch, TypeOK, IInv, BatchInv, timetable
  <2>2. GateInv' /\ BatchInv'
    BY <2>1 DEF IInv, GateInv, BatchInv, Guarded
  <2>3. \A v \in Worker : batch'[v].ids = batch[v].ids
    BY <2>1
  <2>4. OneThreadPerSource' /\ ReloadOutstanding'
    BY <2>1, <2>3 DEF IInv, OneThreadPerSource, ReloadOutstanding
  <2>5. ChangeRemembered'
    BY <2>1 DEF IInv, ChangeRemembered
  <2>. QED
    BY <2>2, <2>4, <2>5, <1>t DEF IInv
<1>18. ASSUME NEW m \in Pauser, Maintenance(m) PROVE IInv'
  <2>1. UNCHANGED <<guards, batch, timetable>>
    BY <1>18 DEF Maintenance, GateStep, Pause, Announce, Enter, Resume
  <2>2. \A n \in Pauser : pauser'[n] = "in" => pauser[n] = "in" \/ guards = {}
    BY <1>18, <1>t DEF Maintenance, GateStep, Pause, Announce, Enter, Resume, TypeOK, GateTypeOK
  <2>3. GateInv' /\ BatchInv'
    BY <2>1, <2>2 DEF IInv, GateInv, BatchInv
  <2>4. OneThreadPerSource' /\ ReloadOutstanding' /\ ChangeRemembered'
    BY <2>1 DEF IInv, OneThreadPerSource, ReloadOutstanding, ChangeRemembered, timetable
  <2>. QED
    BY <2>3, <2>4, <1>t DEF IInv
<1>19. CASE UNCHANGED vars
  BY <1>19, <1>t, ScheduleOnly DEF vars, timetable
<1>. QED
  BY <1>1, <1>2, <1>3, <1>4, <1>5, <1>6, <1>7, <1>8, <1>9, <1>10, <1>11, <1>12, <1>13,
     <1>14, <1>15, <1>16, <1>17, <1>18, <1>19 DEF Next, Thread

\* The inductive invariant holds in every reachable state.
LEMMA Invariance == Spec => []IInv
<1>1. Init => TypeOK
  BY TypeInit
<1>2. Init => IInv
  BY <1>1 DEF Init, GateInit, IInv, GateInv, BatchInv, OneThreadPerSource, ChangeRemembered,
              ReloadOutstanding, NoBatch, NoSchedule, Guarded
<1>3. IInv /\ [Next]_vars => IInv'
  BY Inductive
<1>. QED
  BY <1>2, <1>3, PTL DEF Spec

\* The batches of the threads are disjoint, and hold exactly the sources the scheduler
\* has as running.
THEOREM BatchesDisjoint == Spec => []OneThreadPerSource
<1>1. IInv => OneThreadPerSource
  BY DEF IInv
<1>. QED
  BY <1>1, Invariance, PTL

\* What was scheduled stays scheduled until a round or a request by hand takes it.
THEOREM ChangesRemembered == Spec => []ChangeRemembered
<1>1. IInv => ChangeRemembered
  BY DEF IInv
<1>. QED
  BY <1>1, Invariance, PTL

\* The reload of a round is not given before the last of its scans.
THEOREM ReloadsOutstanding == Spec => []ReloadOutstanding
<1>1. IInv => ReloadOutstanding
  BY DEF IInv
<1>. QED
  BY <1>1, Invariance, PTL

\* The maintenance task that paused first works alone, however many others there are
\* and whatever threads ask for the gate meanwhile.
THEOREM MaintenanceAlone == Spec => []FirstPauseAlone
<1>1. IInv => FirstPauseAlone
  BY DEF IInv, TypeOK, Batch, GateInv, FirstPauseAlone, Guarded
<1>. QED
  BY <1>1, Invariance, PTL
=============================================================================
