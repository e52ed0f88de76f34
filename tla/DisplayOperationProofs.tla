----------------------- MODULE DisplayOperationProofs -----------------------
(* Proofs about DisplayOperation, for any number of sessions, processes,   *)
(* outputs, recipes, operations and faults: mutual exclusion, types, what  *)
(* the journal guarantees and what a Stop does.                            *)
(*                                                                         *)
(* The types alone are not inductive: an output that is applied must want  *)
(* a recipe and not None, `cur` must be an output while it is recovered,   *)
(* and the plan of All Displays covers connected outputs, so the batch     *)
(* must be all of them.  Shape says so, and TypeInv is inductive.          *)
(*                                                                         *)
(* The journal and the stop intents rest on mutual exclusion: another      *)
(* process that reconciles, closes or prunes rows, or withdraws stop       *)
(* intents, while this one holds its lock belongs to another session.      *)
EXTENDS DisplayOperation, FiniteSetTheorems, TLAPS

-----------------------------------------------------------------------------
(* Mutual exclusion.                                                       *)

LockType ==
    /\ lock \in [Session -> Process \cup {None}]
    /\ pc \in [Process -> Holding \cup {"idle", "waiting"}]

\* The lock of a session names the process that is past the guard.
LockInv ==
    /\ LockType
    /\ \A p \in Process : Holds(p) <=> lock[Of(p)] = p

\* What a step of process p may do to its program counter and to the lock.
Passes(p, from, to) ==
    /\ pc[p] \in from
    /\ \E c \in to : pc' = [pc EXCEPT ![p] = c]
Inside(p) == pc[p] \in Holding /\ (pc' = pc \/ Passes(p, Holding, Holding)) /\ lock' = lock
Outside(p) == Passes(p, {"idle", "waiting"}, {"idle", "waiting"}) /\ lock' = lock
Takes(p) == /\ Passes(p, {"waiting"}, Holding)
            /\ lock[Of(p)] = None /\ lock' = [lock EXCEPT ![Of(p)] = p]
Releases(p) == Passes(p, Holding, {"idle"}) /\ lock' = [lock EXCEPT ![Of(p)] = None]

LEMMA SessionOfProcess ==
    /\ SessionOf \in [Process -> Session]
    /\ \A p \in Process : p # None
  BY ConstantsAssumption

\* Every step of a process stays inside the lock, stays outside it, takes it when
\* it is free or gives it back.
ProcessStep(p) ==
    RequestApply(p) \/ RequestRestore(p) \/ RequestStop(p) \/ Advance(p) \/ Crash(p)

LEMMA StepsRespectLock ==
    ASSUME LockType, NEW p \in Process, ProcessStep(p)
    PROVE  Inside(p) \/ Outside(p) \/ Takes(p) \/ Releases(p)
<1> USE DEF Inside, Outside, Takes, Releases, Passes, Holding
<1>1. CASE Acquire(p)
  BY <1>1 DEF Acquire
<1>2. CASE AcquireTimeout(p)
  BY <1>2 DEF AcquireTimeout
<1>3. CASE Refuse(p)
  BY <1>3 DEF Refuse, Return
<1>4. CASE PlanApply(p)
  BY <1>4 DEF PlanApply
<1>5. CASE PlanRestore(p) \/ PlanRecover(p) \/ PlanSettings(p)
  BY <1>5 DEF PlanRestore, PlanRecover, PlanSettings, Planned
<1>6. CASE RecordIntent(p)
  BY <1>6 DEF RecordIntent, Return
<1>7. CASE Preflight(p) \/ PreflightStop(p) \/ Revalidate(p) \/ Recheck(p)
  BY <1>7 DEF Preflight, PreflightStop, Revalidate, Recheck
<1>8. CASE JournalBegin(p) \/ JournalFull(p)
  BY <1>8 DEF JournalBegin, JournalFull, Return
<1>9. CASE ExecuteOk(p) \/ ActionRefused(p) \/ StopFails(p) \/ ApplyFails(p) \/ Executed(p)
  BY <1>9 DEF ExecuteOk, ActionRefused, StopFails, ApplyFails, Executed, AfterFailure
<1>10. CASE VerifyOutput(p) \/ Verified(p) \/ VerifyOrCommitFails(p) \/ Commit(p) \/ Arm(p)
  BY <1>10 DEF VerifyOutput, Verified, VerifyOrCommitFails, Commit, Arm
<1>11. CASE ReportOutput(p) \/ StartRecovery(p) \/ RetireOk(p) \/ RetireFails(p) \/ Retired(p)
  BY <1>11 DEF ReportOutput, StartRecovery, RetireOk, RetireFails, Retired, Recovered
<1>12. CASE Reapply(p) \/ ConfirmRestored(p) \/ ConfirmFails(p)
  BY <1>12 DEF Reapply, ConfirmRestored, ConfirmFails, Recovered
<1>13. CASE Compensated(p) \/ ObserveStopped(p) \/ Finish(p)
  BY <1>13 DEF Compensated, ObserveStopped, Finish, Return
<1>14. CASE RequestApply(p) \/ RequestRestore(p) \/ RequestStop(p)
  BY <1>14 DEF RequestApply, RequestRestore, RequestStop, Request
<1>15. CASE Crash(p)
  BY <1>15 DEF Crash, Holds, LockType
<1>16. QED
  BY <1>1, <1>2, <1>3, <1>4, <1>5, <1>6, <1>7, <1>8, <1>9, <1>10, <1>11, <1>12, <1>13,
     <1>14, <1>15 DEF ProcessStep, Advance

LEMMA LockInit == Init => LockInv
<1> SUFFICES ASSUME Init PROVE LockInv
  OBVIOUS
<1>1. LockType
  BY DEF Init, LockType
<1>2. \A p \in Process : ~Holds(p) /\ lock[Of(p)] = None /\ None # p
  BY ConstantsAssumption DEF Init, Holds, Holding, Of
<1>3. QED
  BY <1>1, <1>2 DEF LockInv

LEMMA LockStep == LockInv /\ [Next]_vars => LockInv'
<1> SUFFICES ASSUME LockInv, [Next]_vars PROVE LockInv'
  OBVIOUS
<1> USE SessionOfProcess DEF LockInv, LockType, Holds, Of
<1>1. CASE UNCHANGED vars
  BY <1>1 DEF vars
<1>2. ASSUME NEW p \in Process, ProcessStep(p)
      PROVE  LockInv'
  <2>1. CASE Inside(p)
    <3>1. CASE pc' = pc
      BY <2>1, <3>1 DEF Inside
    <3>2. CASE Passes(p, Holding, Holding)
      BY <2>1, <3>2 DEF Inside, Passes
    <3>3. QED
      BY <2>1, <3>1, <3>2 DEF Inside
  <2>2. CASE Outside(p)
    BY <2>2 DEF Outside, Passes, Holding
  <2>3. CASE Takes(p)
    BY <2>3 DEF Takes, Passes, Holding
  <2>4. CASE Releases(p)
    BY <2>4 DEF Releases, Passes, Holding
  <2>5. QED
    BY <1>2, <2>1, <2>2, <2>3, <2>4, StepsRespectLock
<1>5. ASSUME NEW s \in Session, SessionEnds(s)
      PROVE  LockInv'
  <2>1. LockType'
    BY <1>5 DEF SessionEnds, Holding
  <2>2. ASSUME NEW p \in Process
        PROVE  (Holds(p) <=> lock[Of(p)] = p)'
    <3>1. CASE Of(p) = s
      <4>1. pc'[p] = "idle" /\ lock'[Of(p)] = None
        BY <1>5, <3>1 DEF SessionEnds
      <4>2. None # p
        OBVIOUS
      <4>3. QED
        BY <4>1, <4>2 DEF Holding
    <3>2. CASE Of(p) # s
      <4>1. pc'[p] = pc[p] /\ lock'[Of(p)] = lock[Of(p)]
        BY <1>5, <3>2 DEF SessionEnds
      <4>2. QED
        BY <4>1
    <3>3. QED
      BY <3>1, <3>2
  <2>3. QED
    BY <2>1, <2>2
<1>6. ASSUME NEW s \in Session, RendererExit(s) \/ ForeignStart(s)
      PROVE  LockInv'
  BY <1>6 DEF RendererExit, ForeignStart
<1>7. CASE Quiescent
  BY <1>7 DEF Quiescent, vars
<1>8. QED
  BY <1>1, <1>2, <1>5, <1>6, <1>7 DEF Next, ProcessStep, Environment

\* Whatever the numbers of sessions, processes and faults, at most one process of
\* a session is past the guard.
THEOREM MutualExclusion == Spec => []OneMutatorPerSession
<1>1. LockInv => OneMutatorPerSession
  BY DEF LockInv, OneMutatorPerSession
<1>2. QED
  BY <1>1, LockInit, LockStep, PTL DEF Spec

-----------------------------------------------------------------------------
(* The inductive invariant.                                                *)

\* What one session shows.
World == [Output -> SUBSET Recipe]

\* The types of the variables that describe displays.
WorldType ==
    /\ alive \subseteq Session
    /\ shown \in [Session -> World]
    /\ disturbed \in [Session -> SUBSET Output]
    /\ stopped \in [Session -> SUBSET Output]

\* The types of the saved assignments.
StoreType ==
    /\ rows \in [Target -> MaybeRecipe]
    /\ rev \in [Target -> Nat]

\* What a process at program counter c with the locals r knows beyond their types:
\* an Apply names a recipe and, if it is for All Displays, every connected output; an
\* apply action covers outputs with a recipe; a recovery is about an output, and
\* there is something to render again at "reapply".
Shape(p, r, c) ==
    /\ r.kind \in Applying => r.req \in Recipe
    /\ r.kind = "apply_all" => r.outs = Connected[Of(p)]
    /\ \A a \in r.todo : a.act = "apply" => \A o \in a.scope : r.want[o] \in Recipe
    /\ c \in {"retire", "reapply", "confirm"} => r.cur \in Output
    /\ c = "reapply" => r.before[r.cur] \in Recipe

\* The locals r of p at program counter c have their types and their shape.
Good(p, r, c) == r \in OpType /\ Shape(p, r, c)

\* The inductive invariant.
TypeInv ==
    /\ TypeOK
    /\ \A p \in Process : Shape(p, op[p], pc[p])

\* What the proofs below use of the constants.
LEMMA ConstantTypes ==
    /\ BackendOf \in [Recipe -> Backend]
    /\ Connected \in [Session -> SUBSET Output]
    /\ IsFiniteSet(Output)
  BY ConstantsAssumption

-----------------------------------------------------------------------------
(* Displays.                                                               *)

\* An output that lost renderers shows recipes.
LEMMA WithoutType ==
    ASSUME NEW w \in World, NEW scope, NEW bs
    PROVE  Without(w, scope, bs) \in World
  BY DEF World, Without

\* Launching recipes on a scope leaves every output with recipes.
LEMMA LaunchedType ==
    ASSUME NEW w \in World, NEW be, NEW scope, NEW want,
           \A o \in scope : o \in Output => want[o] \in Recipe
    PROVE  Launched(w, be, scope, want) \in World
<1> DEFINE released == Without(w, IF be \in Shared THEN Foreign(w) ELSE scope, Shared)
           again == Without(released, scope, IF be \in Shared THEN {be} ELSE {})
<1>1. released \in World
  BY WithoutType
<1>2. again \in World
  BY <1>1, WithoutType
<1> HIDE DEF released, again
<1>3. [o \in Output |-> IF o \in scope THEN again[o] \cup {want[o]} ELSE released[o]] \in World
  BY <1>1, <1>2 DEF World
<1>4. QED
  BY <1>3 DEF Launched, released, again

\* So does a mixture of two such worlds,
LEMMA MixedType ==
    ASSUME NEW f \in World, NEW g \in World, NEW w \in Mixed(f, g)
    PROVE  w \in World
  BY DEF World, Mixed

\* ... and hence every way in which an apply can fail.
LEMMA FailuresType ==
    ASSUME NEW w \in World, NEW be, NEW scope, NEW want,
           \A o \in scope : o \in Output => want[o] \in Recipe,
           NEW v \in CleanFailures(w, be, scope, want) \cup UnsureFailures(w, be, scope, want)
    PROVE  v \in World
<1>1. /\ Without(w, scope, Shared) \in World
      /\ Without(w, Foreign(w), Shared) \in World
      /\ Launched(w, be, scope, want) \in World
  BY WithoutType, LaunchedType
<1>2. QED
  BY <1>1, MixedType DEF CleanFailures, UnsureFailures

\* Every step of a process keeps the types of the displays.
LEMMA WorldStep ==
    ASSUME TypeInv, NEW p \in Process, ProcessStep(p)
    PROVE  WorldType'
<1> USE SessionOfProcess DEF WorldType, World, Of, world, store
<1>0. WorldType /\ op \in [Process -> OpType]
  BY DEF TypeInv, TypeOK
<1>1. CASE RequestApply(p) \/ RequestRestore(p) \/ RequestStop(p)
  BY <1>0, <1>1 DEF RequestApply, RequestRestore, RequestStop, Request
<1>2. CASE Acquire(p) \/ AcquireTimeout(p) \/ Refuse(p) \/ Crash(p)
  BY <1>0, <1>2 DEF Acquire, AcquireTimeout, Refuse, Crash, Return, Holds
<1>3. CASE PlanApply(p) \/ PlanRestore(p) \/ PlanRecover(p) \/ PlanSettings(p)
  BY <1>0, <1>3 DEF PlanApply, PlanRestore, PlanRecover, PlanSettings, Planned
<1>4. CASE RecordIntent(p)
  <2>1. op[p].outs \subseteq Output
    BY <1>0 DEF OpType
  <2>2. QED
    BY <1>0, <1>4, <2>1 DEF RecordIntent, Return
<1>5. CASE Preflight(p) \/ PreflightStop(p) \/ Revalidate(p) \/ Recheck(p)
  BY <1>0, <1>5 DEF Preflight, PreflightStop, Revalidate, Recheck
<1>6. CASE JournalBegin(p) \/ JournalFull(p)
  BY <1>0, <1>6 DEF JournalBegin, JournalFull, Return
<1>7. CASE ActionRefused(p) \/ Executed(p)
  BY <1>0, <1>7 DEF ActionRefused, Executed
<1>8. CASE VerifyOutput(p) \/ Verified(p) \/ VerifyOrCommitFails(p)
  BY <1>0, <1>8 DEF VerifyOutput, Verified, VerifyOrCommitFails, Seen
<1>9. CASE Commit(p)
  BY <1>0, <1>9 DEF Commit
<1>10. CASE Arm(p)
  <2>1. UNCHANGED world
    BY <1>10 DEF Arm
  <2>2. stopped' \in {stopped, [stopped EXCEPT ![Of(p)] = @ \ op[p].outs]}
    BY <1>10 DEF Arm
  <2>3. QED
    BY <1>0, <2>1, <2>2
<1>11. CASE ReportOutput(p) \/ StartRecovery(p) \/ Retired(p)
  BY <1>0, <1>11 DEF ReportOutput, StartRecovery, Retired
<1>12. CASE ConfirmRestored(p) \/ ConfirmFails(p)
  BY <1>0, <1>12 DEF ConfirmRestored, ConfirmFails, Seen
<1>13. CASE Compensated(p) \/ ObserveStopped(p) \/ Finish(p)
  BY <1>0, <1>13 DEF Compensated, ObserveStopped, Finish, Return, Seen
<1>14. ASSUME NEW w \in World, shown' = [shown EXCEPT ![Of(p)] = w],
              UNCHANGED <<alive, disturbed, stopped>>
       PROVE  WorldType'
  BY <1>0, <1>14
<1>15. shown[Of(p)] \in World
  BY <1>0
<1> HIDE DEF World, WorldType
<1>16. CASE ExecuteOk(p)
  <2>1. PICK a \in op[p].todo :
           shown' = [shown EXCEPT ![Of(p)] =
                        IF a.act = "stop" THEN Without(@, a.scope, {a.be})
                        ELSE Launched(@, a.be, a.scope, op[p].want)]
    BY <1>16 DEF ExecuteOk, NextAction
  <2>2. CASE a.act = "stop"
    BY <2>1, <2>2, <1>14, <1>15, <1>16, WithoutType DEF ExecuteOk
  <2>3. CASE a.act # "stop"
    <3>1. a.act = "apply"
      BY <1>0, <2>3 DEF OpType, Step
    <3>2. \A o \in a.scope : op[p].want[o] \in Recipe
      BY <3>1 DEF TypeInv, Shape
    <3>3. Launched(shown[Of(p)], a.be, a.scope, op[p].want) \in World
      BY <1>15, <3>2, LaunchedType
    <3>4. QED
      BY <2>1, <2>3, <1>14, <3>3, <1>16 DEF ExecuteOk
  <2>4. QED
    BY <2>2, <2>3
<1>17. CASE StopFails(p)
  <2>1. PICK a \in op[p].todo :
           \E w \in Mixed(shown[Of(p)], Without(shown[Of(p)], a.scope, {a.be})) :
              shown' = [shown EXCEPT ![Of(p)] = w]
    BY <1>17 DEF StopFails, NextAction
  <2>2. Without(shown[Of(p)], a.scope, {a.be}) \in World
    BY <1>15, WithoutType
  <2>3. QED
    BY <2>1, <2>2, <1>14, <1>15, <1>17, MixedType DEF StopFails
<1>18. CASE ApplyFails(p)
  <2>1. PICK a \in op[p].todo :
           /\ a.act = "apply"
           /\ \E w \in CleanFailures(shown[Of(p)], a.be, a.scope, op[p].want)
                        \cup UnsureFailures(shown[Of(p)], a.be, a.scope, op[p].want) :
                 shown' = [shown EXCEPT ![Of(p)] = w]
    BY <1>18 DEF ApplyFails, NextAction
  <2>2. \A o \in a.scope : op[p].want[o] \in Recipe
    BY <2>1 DEF TypeInv, Shape
  <2>3. QED
    BY <2>1, <2>2, <1>14, <1>15, <1>18, FailuresType DEF ApplyFails
<1>19. CASE RetireOk(p)
  <2>1. PICK a \in op[p].todo :
           shown' = [shown EXCEPT ![Of(p)] = Without(@, a.scope, {a.be})]
    BY <1>19 DEF RetireOk
  <2>2. QED
    BY <2>1, <1>14, <1>15, <1>19, WithoutType DEF RetireOk
<1>20. CASE RetireFails(p)
  <2>1. PICK a \in op[p].todo :
           \E w \in Mixed(shown[Of(p)], Without(shown[Of(p)], a.scope, {a.be})) :
              shown' = [shown EXCEPT ![Of(p)] = w]
    BY <1>20 DEF RetireFails
  <2>2. Without(shown[Of(p)], a.scope, {a.be}) \in World
    BY <1>15, WithoutType
  <2>3. QED
    BY <2>1, <2>2, <1>14, <1>15, <1>20, MixedType DEF RetireFails
<1>21. CASE Reapply(p)
  <2> DEFINE o == op[p].cur
             be == BackendOf[op[p].before[o]]
  <2>1. op[p].before[o] \in Recipe
    BY <1>21 DEF Reapply, TypeInv, Shape
  <2>2. PICK w \in {Launched(shown[Of(p)], be, {o}, op[p].before)}
                   \cup CleanFailures(shown[Of(p)], be, {o}, op[p].before)
                   \cup UnsureFailures(shown[Of(p)], be, {o}, op[p].before) :
           shown' = [shown EXCEPT ![Of(p)] = w]
    BY <1>21 DEF Reapply
  <2>3. w \in World
    BY <1>15, <2>1, LaunchedType, FailuresType
  <2>4. QED
    BY <2>2, <2>3, <1>14, <1>21 DEF Reapply
<1>22. QED
  BY <1>1, <1>2, <1>3, <1>4, <1>5, <1>6, <1>7, <1>8, <1>9, <1>10, <1>11, <1>12, <1>13,
     <1>16, <1>17, <1>18, <1>19, <1>20, <1>21 DEF ProcessStep, Advance

-----------------------------------------------------------------------------
(* Saved assignments.                                                      *)

\* A file can be rendered with the configured options of its backend, and with the
\* options of any recipe of the same backend.
LEMMA RenderingType ==
    ASSUME NEW r \in Recipe, NEW options,
           \/ options = Configured[BackendOf[r]]
           \/ \E x \in Recipe : BackendOf[x] = BackendOf[r] /\ options = OptionsOf[x]
    PROVE  Rendering(r, options) \in Recipe
<1>1. \A x \in Recipe : BackendOf[r] = BackendOf[x] =>
          \E y \in Recipe : /\ BackendOf[y] = BackendOf[r]
                            /\ FileOf[y] = FileOf[r] /\ OptionsOf[y] = OptionsOf[x]
  BY ConstantsAssumption
<1>2. \E y \in Recipe : /\ BackendOf[y] = BackendOf[r] /\ FileOf[y] = FileOf[r]
                        /\ OptionsOf[y] = Configured[BackendOf[r]]
  BY ConstantsAssumption
<1>3. \E y \in Recipe : /\ BackendOf[y] = BackendOf[r] /\ FileOf[y] = FileOf[r]
                        /\ OptionsOf[y] = options
  BY <1>1, <1>2
<1>4. \E y \in Recipe : SameRow(y, r) /\ OptionsOf[y] = options
  BY <1>3 DEF SameRow
<1>5. QED
  BY <1>4 DEF Rendering

\* A row inserted again is a recipe with a revision (display_recipe::preserve).
LEMMA PreservedType ==
    ASSUME StoreType, NEW t \in Target, NEW r \in Recipe
    PROVE  Preserved(t, r)[1] \in MaybeRecipe /\ Preserved(t, r)[2] \in Nat
<1>1. Rendering(r, Configured[BackendOf[r]]) \in Recipe
  BY RenderingType
<1>2. AllDisplays \in Target
  BY DEF Target
<1>3. QED
  BY <1>1, <1>2 DEF Preserved, StoreType, MaybeRecipe

\* Assignments are saved by a commit only.
LEMMA StoreWriters ==
    ASSUME NEW p \in Process, ProcessStep(p)
    PROVE  Commit(p) \/ UNCHANGED store
<1>1. CASE RequestApply(p) \/ RequestRestore(p) \/ RequestStop(p)
  BY <1>1 DEF RequestApply, RequestRestore, RequestStop, Request
<1>2. CASE Acquire(p) \/ AcquireTimeout(p) \/ Refuse(p) \/ Crash(p) \/ RecordIntent(p)
  BY <1>2 DEF Acquire, AcquireTimeout, Refuse, Crash, RecordIntent
<1>3. CASE PlanApply(p) \/ PlanRestore(p) \/ PlanRecover(p) \/ PlanSettings(p)
  BY <1>3 DEF PlanApply, PlanRestore, PlanRecover, PlanSettings, Planned
<1>4. CASE Preflight(p) \/ PreflightStop(p) \/ Revalidate(p) \/ Recheck(p)
  BY <1>4 DEF Preflight, PreflightStop, Revalidate, Recheck
<1>5. CASE ExecuteOk(p) \/ ActionRefused(p) \/ StopFails(p) \/ ApplyFails(p) \/ Executed(p)
  BY <1>5 DEF ExecuteOk, ActionRefused, StopFails, ApplyFails, Executed
<1>6. CASE VerifyOutput(p) \/ Verified(p) \/ VerifyOrCommitFails(p) \/ Arm(p)
  BY <1>6 DEF VerifyOutput, Verified, VerifyOrCommitFails, Arm
<1>7. CASE ReportOutput(p) \/ StartRecovery(p) \/ RetireOk(p) \/ RetireFails(p) \/ Retired(p)
  BY <1>7 DEF ReportOutput, StartRecovery, RetireOk, RetireFails, Retired
<1>8. CASE Reapply(p) \/ ConfirmRestored(p) \/ ConfirmFails(p)
  BY <1>8 DEF Reapply, ConfirmRestored, ConfirmFails
<1>9. CASE \/ Compensated(p) \/ ObserveStopped(p) \/ Finish(p)
           \/ JournalBegin(p) \/ JournalFull(p)
  BY <1>9 DEF Compensated, ObserveStopped, Finish, JournalBegin, JournalFull
<1>10. QED
  BY <1>1, <1>2, <1>3, <1>4, <1>5, <1>6, <1>7, <1>8, <1>9 DEF ProcessStep, Advance

\* Every step of a process keeps the types of the saved assignments.
LEMMA StoreStep ==
    ASSUME TypeInv, NEW p \in Process, ProcessStep(p)
    PROVE  StoreType'
<1> USE DEF store
<1>0. StoreType /\ op[p] \in OpType
  BY DEF TypeInv, TypeOK, StoreType
<1>1. CASE op[p].kind \in Applying /\ CommitApply(p)
  <2>1. \A t \in Target : Intended(p)[t] \in MaybeRecipe
    <3>1. op[p].req \in MaybeRecipe /\ op[p].want \in [Output -> MaybeRecipe]
          /\ op[p].base \in [Target -> MaybeRecipe] /\ op[p].outs \subseteq Output
      BY <1>0 DEF OpType
    <3>2. None \in MaybeRecipe
      BY DEF MaybeRecipe
    <3>3. QED
      BY <3>1, <3>2 DEF Intended
  <2> DEFINE Undone(t) == IF Intended(p)[t] = None THEN <<None, 0>>
                         ELSE IF t \in Written(p) THEN <<Intended(p)[t], rev[t] + 1>>
                         ELSE Preserved(t, Intended(p)[t])
  <2>2. ASSUME NEW t \in Target
        PROVE  Undone(t)[1] \in MaybeRecipe /\ Undone(t)[2] \in Nat
    <3>1. CASE Intended(p)[t] = None
      BY <3>1 DEF MaybeRecipe
    <3>2. CASE Intended(p)[t] # None /\ t \in Written(p)
      BY <3>2, <2>1, <1>0 DEF StoreType
    <3>3. CASE Intended(p)[t] # None /\ t \notin Written(p)
      <4>1. Intended(p)[t] \in Recipe
        BY <3>3, <2>1 DEF MaybeRecipe
      <4>2. QED
        BY <3>3, <4>1, <1>0, PreservedType
    <3>4. QED
      BY <3>1, <3>2, <3>3
  <2>3. /\ rows' = [t \in Target |-> Undone(t)[1]]
        /\ rev' = [t \in Target |-> Undone(t)[2]]
    BY <1>1 DEF CommitApply
  <2> HIDE DEF Undone
  <2>4. QED
    BY <2>2, <2>3 DEF StoreType
<1>2. CASE CommitSettings(p)
  <2>1. op[p].want \in [Output -> MaybeRecipe]
    BY <1>0 DEF OpType
  <2>2. op[p].outs \subseteq Output
    BY <1>0 DEF OpType
  <2>3. QED
    BY <1>0, <1>2, <2>1, <2>2 DEF CommitSettings, StoreType
<1>3. CASE UNCHANGED store
  BY <1>0, <1>3 DEF StoreType
<1>4. QED
  BY <1>1, <1>2, <1>3, StoreWriters DEF Commit

-----------------------------------------------------------------------------
(* Plans.                                                                  *)

\* The steps of a plan.
LEMMA StopIsStep ==
    ASSUME NEW b \in Backend, NEW scope \in SUBSET Output, NEW n \in Nat
    PROVE  /\ Stop(b, scope, n) \in Step /\ Stop(b, scope, n).act = "stop"
           /\ Apply(b, scope, n) \in Step /\ Apply(b, scope, n).act = "apply"
           /\ Apply(b, scope, n).scope = scope
  BY DEF Stop, Apply, Step

\* A plan consists of steps, and its applies are on outputs of the batch.
PlanOK(plan, outs) ==
    /\ plan \subseteq Step
    /\ \A a \in plan : a.act = "apply" => a.scope \subseteq outs

\* The plan of an Apply to a subset is a plan for the subset.
LEMMA PlanSetOK ==
    ASSUME NEW s \in Session, NEW outs \in SUBSET Output, NEW be \in Backend
    PROVE  PlanOK(PlanSet(s, outs, be), outs)
<1>1. ASSUME NEW b \in Backend, NEW o \in outs
      PROVE  /\ Stop(b, {o}, 1) \in Step /\ Stop(b, {o}, 1).act = "stop"
             /\ Apply(be, {o}, 4) \in Step /\ Apply(be, {o}, 4).scope \subseteq outs
  BY StopIsStep
<1>2. ASSUME NEW a \in PlanSet(s, outs, be)
      PROVE  \/ \E b \in Backend, o \in outs : a = Stop(b, {o}, 1)
             \/ \E o \in outs : a = Apply(be, {o}, 4)
  BY DEF PlanSet
<1>3. ASSUME NEW a \in PlanSet(s, outs, be)
      PROVE  a \in Step /\ (a.act = "apply" => a.scope \subseteq outs)
  <2>1. CASE \E b \in Backend, o \in outs : a = Stop(b, {o}, 1)
    BY <1>1, <2>1
  <2>2. CASE \E o \in outs : a = Apply(be, {o}, 4)
    BY <1>1, <2>2, ConstantTypes
  <2>3. QED
    BY <1>2, <2>1, <2>2
<1>4. QED
  BY <1>3 DEF PlanOK

\* The plan of a Restore, a recovery or new settings is a plan for their outputs.
LEMMA PlanStepsOK ==
    ASSUME NEW s \in Session, NEW outs \in SUBSET Output, NEW want,
           \A o \in outs : want[o] \in Recipe,
           NEW pos \in Orders(outs), NEW shared_first
    PROVE  PlanOK(PlanSteps(s, outs, want, pos, shared_first), outs)
<1> DEFINE Class(o) == IF shared_first /\ BackendOf[want[o]] \notin Shared
                       THEN Cardinality(Output) ELSE 0
           At(o) == 2 * (Class(o) + pos[o])
<1>1. ASSUME NEW o \in outs
      PROVE  At(o) \in Nat /\ At(o) + 1 \in Nat
  <2>1. Cardinality(Output) \in Nat
    BY ConstantTypes, FS_CardinalityType
  <2>2. Cardinality(outs) \in Nat
    BY ConstantTypes, FS_Subset, FS_CardinalityType
  <2>3. pos[o] \in Nat
    BY <2>2 DEF Orders
  <2>4. QED
    BY <2>1, <2>3
<1> HIDE DEF At
<1>2. ASSUME NEW b \in Backend, NEW o \in outs
      PROVE  Stop(b, {o}, At(o)) \in Step /\ Stop(b, {o}, At(o)).act = "stop"
  BY <1>1, StopIsStep
<1>3. ASSUME NEW o \in outs
      PROVE  LET a == Apply(BackendOf[want[o]], {o}, At(o) + 1)
             IN  a \in Step /\ a.scope \subseteq outs
  <2>1. BackendOf[want[o]] \in Backend
    BY ConstantTypes
  <2>2. QED
    BY <1>1, <2>1, StopIsStep
<1>4. ASSUME NEW a \in PlanSteps(s, outs, want, pos, shared_first)
      PROVE  \/ \E b \in Backend, o \in outs : a = Stop(b, {o}, At(o))
             \/ \E o \in outs : a = Apply(BackendOf[want[o]], {o}, At(o) + 1)
  BY DEF PlanSteps, At
<1>5. ASSUME NEW a \in PlanSteps(s, outs, want, pos, shared_first)
      PROVE  a \in Step /\ (a.act = "apply" => a.scope \subseteq outs)
  <2>1. CASE \E b \in Backend, o \in outs : a = Stop(b, {o}, At(o))
    BY <1>2, <2>1
  <2>2. CASE \E o \in outs : a = Apply(BackendOf[want[o]], {o}, At(o) + 1)
    BY <1>3, <2>2
  <2>3. QED
    BY <1>4, <2>1, <2>2
<1>6. QED
  BY <1>5 DEF PlanOK

\* What is observed of an output are backends and recipes.
LEMMA OwnersType ==
    ASSUME NEW s \in Session, NEW o \in Output, WorldType
    PROVE  /\ Owners(s, o) \subseteq Backend
           /\ Fingerprint(s, o) \in SUBSET (Backend \cup Recipe)
<1>1. shown[s][o] \subseteq Recipe
  BY DEF WorldType, World
<1>2. Owners(s, o) \subseteq Backend
  BY <1>1, ConstantTypes DEF Owners, OwnersIn
<1>3. QED
  BY <1>1, <1>2 DEF Fingerprint

\* The plan of All Displays is a plan for the connected outputs.
LEMMA PlanAllOK ==
    ASSUME NEW s \in Session, NEW be \in Backend, WorldType
    PROVE  PlanOK(PlanAll(s, be), Connected[s])
<1> DEFINE outs == Connected[s]
           On(b) == {o \in outs : b \in Claimed(s, o)}
           planned == {b \in Backend : On(b) # {} /\ NeedsStop(b, be)}
           implicated == UNION {Owners(s, o) : o \in Output}
           A == {Stop(b, On(b), IF b = be THEN 2 ELSE 1) : b \in planned}
           B == {Stop(b, outs, 3) : b \in {x \in implicated \ planned : NeedsStop(x, be)}}
           C == ApplyGroups(be, outs, 4)
<1>1. outs \subseteq Output
  BY ConstantTypes
<1>2. PlanOK(A, outs)
  <2>1. ASSUME NEW b \in planned
        PROVE  LET a == Stop(b, On(b), IF b = be THEN 2 ELSE 1)
               IN  a \in Step /\ a.act = "stop"
    <3>1. On(b) \in SUBSET Output /\ b \in Backend
      BY <1>1
    <3> HIDE DEF On
    <3>2. QED
      BY <3>1, StopIsStep
  <2> HIDE DEF On, planned
  <2>2. QED
    BY <2>1 DEF PlanOK
<1>3. PlanOK(B, outs)
  <2>1. implicated \subseteq Backend
    BY OwnersType
  <2> HIDE DEF planned, implicated, outs
  <2>2. ASSUME NEW b \in implicated
        PROVE  Stop(b, outs, 3) \in Step /\ Stop(b, outs, 3).act = "stop"
    BY <1>1, <2>1, StopIsStep
  <2>3. QED
    BY <2>2 DEF PlanOK
<1>4. PlanOK(C, outs)
  <2> HIDE DEF outs
  <2>1. ASSUME NEW scope \in SUBSET outs
        PROVE  /\ Apply(be, scope, 4) \in Step
               /\ Apply(be, scope, 4).scope \subseteq outs
    BY <1>1, StopIsStep
  <2>2. QED
    BY <2>1 DEF PlanOK, ApplyGroups
<1>5. PlanAll(s, be) = A \cup B \cup C
  BY DEF PlanAll
<1> HIDE DEF A, B, C
<1>6. QED
  BY <1>2, <1>3, <1>4, <1>5 DEF PlanOK

-----------------------------------------------------------------------------
(* The locals of an operation.                                             *)

\* The locals of a process that runs no operation.
LEMMA NoOpGood ==
    ASSUME NEW p \in Process
    PROVE  Good(p, NoOp, "idle") /\ Good(p, NoOp, "waiting")
  BY DEF Good, Shape, NoOp, OpType, NoRecipes, NoneTried, NoResults, Kind, Applying,
         MaybeRecipe, SwitchOutcome, Target

\* A step of p touches no locals but those of p, and leaves them well formed.
Keeps(p) == /\ op' = [op EXCEPT ![p] = op'[p]]
            /\ Good(p, op'[p], pc'[p])

\* The saved assignment of an output is a recipe or None.
LEMMA EffectiveType ==
    ASSUME StoreType, NEW o \in Output
    PROVE  Effective(rows, o) \in MaybeRecipe
  BY DEF Effective, StoreType, Target

\* So is what a Restore wants an output to show.
LEMMA SavedType ==
    ASSUME StoreType, NEW outs
    PROVE  /\ Saved(outs) \in [Output -> MaybeRecipe]
           /\ \A o \in outs \cap Output : Saved(outs)[o] = Effective(rows, o)
  BY EffectiveType DEF Saved, MaybeRecipe

\* An Apply that keeps saved options has a recipe for every output.
LEMMA KeptType ==
    ASSUME StoreType, NEW p \in Process, op[p].req \in Recipe, NEW o \in Output
    PROVE  Kept(p, o) \in Recipe
<1>1. rows[o] \in MaybeRecipe
  BY DEF StoreType, Target
<1>2. CASE rows[o] # None /\ BackendOf[rows[o]] = BackendOf[op[p].req]
  <2>1. rows[o] \in Recipe
    BY <1>1, <1>2 DEF MaybeRecipe
  <2>2. Rendering(op[p].req, OptionsOf[rows[o]]) \in Recipe
    BY <1>2, <2>1, RenderingType
  <2>3. QED
    BY <2>2 DEF Kept
<1>3. QED
  BY <1>2 DEF Kept

\* Planning an Apply keeps the locals well formed.
LEMMA PlanApplyKeeps ==
    ASSUME TypeInv, NEW p \in Process, PlanApply(p)
    PROVE  Keeps(p)
<1> DEFINE s == Of(p)
           be == BackendOf[op[p].req]
           outs == op[p].outs
           want == [o \in Output |-> IF o \in outs THEN Kept(p, o) ELSE None]
           plan == IF op[p].kind = "apply_all" THEN PlanAll(s, be)
                   ELSE PlanSet(s, outs, be)
           todo == IF \A o \in outs : want[o] = op[p].req THEN plan
                   ELSE {a \in plan : a.act = "stop"} \cup {Apply(be, {o}, 4) : o \in outs}
<1>1. /\ StoreType /\ WorldType
      /\ op \in [Process -> OpType]
      /\ Good(p, op[p], pc[p])
      /\ op[p].kind \in Applying /\ op[p].req \in Recipe
  BY DEF PlanApply, TypeInv, TypeOK, StoreType, WorldType, World, Good, Shape
<1>2. outs \in SUBSET Output /\ be \in Backend /\ s \in Session
  BY <1>1, ConstantTypes, SessionOfProcess DEF OpType, Of
<1>3. want \in [Output -> MaybeRecipe] /\ \A o \in outs : want[o] \in Recipe
  BY <1>1, <1>2, KeptType DEF MaybeRecipe
<1>4. PlanOK(plan, outs)
  <2>1. CASE op[p].kind = "apply_all"
    <3>1. outs = Connected[s]
      BY <1>1, <2>1 DEF Good, Shape
    <3>2. QED
      BY <1>1, <1>2, <2>1, <3>1, PlanAllOK
  <2>2. CASE op[p].kind # "apply_all"
    BY <1>2, <2>2, PlanSetOK
  <2>3. QED
    BY <2>1, <2>2
<1>5. ASSUME NEW o \in outs
      PROVE  LET a == Apply(be, {o}, 4) IN a \in Step /\ a.scope \subseteq outs
  BY <1>2, StopIsStep
<1>6. op' = [op EXCEPT ![p].base = rows, ![p].want = want, ![p].todo = todo]
      /\ pc' = [pc EXCEPT ![p] = "preflight"]
  BY DEF PlanApply
<1> HIDE DEF want, plan
<1>7. PlanOK(todo, outs)
  BY <1>4, <1>5 DEF PlanOK
<1> HIDE DEF todo, be, s
<1>8. pc'[p] = "preflight"
  BY <1>6 DEF TypeInv, TypeOK
<1>9. op'[p] \in OpType
  <2>1. op'[p] = [op[p] EXCEPT !.base = rows, !.want = want, !.todo = todo]
    BY <1>1, <1>6
  <2>2. todo \in SUBSET Step /\ rows \in [Target -> MaybeRecipe]
    BY <1>1, <1>7 DEF PlanOK, StoreType
  <2>3. op[p] \in OpType
    BY <1>1
  <2>4. QED
    BY <1>3, <2>1, <2>2, <2>3, ZenonT(60) DEF OpType
<1>10. Shape(p, op'[p], "preflight")
  BY <1>1, <1>3, <1>6, <1>7 DEF PlanOK, Shape, Good
<1>11. QED
  BY <1>6, <1>8, <1>9, <1>10 DEF Keeps, Good

\* So does planning one recipe per output,
LEMMA PlannedKeeps ==
    ASSUME TypeInv, NEW p \in Process, NEW outs \in SUBSET op[p].outs,
           NEW want \in [Output -> MaybeRecipe], \A o \in outs : want[o] \in Recipe,
           NEW shared_first, op[p].kind \notin Applying, Planned(p, outs, want, shared_first)
    PROVE  Keeps(p)
<1>1. op \in [Process -> OpType]
  BY DEF TypeInv, TypeOK
<1>2. outs \in SUBSET Output /\ Of(p) \in Session
  BY <1>1, SessionOfProcess DEF OpType, Of
<1>3. PICK pos \in Orders(outs) :
         op' = [op EXCEPT ![p].outs = outs, ![p].want = want,
                          ![p].todo = PlanSteps(Of(p), outs, want, pos, shared_first)]
  BY DEF Planned
<1>4. PlanOK(PlanSteps(Of(p), outs, want, pos, shared_first), outs)
  BY <1>2, PlanStepsOK
<1>5. pc'[p] = "preflight"
  BY DEF TypeInv, TypeOK, Planned
<1> DEFINE todo == PlanSteps(Of(p), outs, want, pos, shared_first)
<1> HIDE DEF todo
<1>6. op'[p] \in OpType
  <2>1. op'[p] = [op[p] EXCEPT !.outs = outs, !.want = want, !.todo = todo]
    BY <1>1, <1>3 DEF todo
  <2>2. todo \in SUBSET Step
    BY <1>4 DEF PlanOK, todo
  <2>3. op[p] \in OpType
    BY <1>1
  <2>4. QED
    BY <1>2, <2>1, <2>2, <2>3, ZenonT(60) DEF OpType
<1>7. Shape(p, op'[p], "preflight")
  BY <1>1, <1>3, <1>4 DEF PlanOK, Shape, Applying
<1>8. QED
  BY <1>3, <1>5, <1>6, <1>7 DEF Keeps, Good

\* ... as a Restore, a recovery and new settings do.
LEMMA PlansKeep ==
    ASSUME TypeInv, NEW p \in Process,
           PlanRestore(p) \/ PlanRecover(p) \/ PlanSettings(p)
    PROVE  Keeps(p)
<1>1. /\ StoreType
      /\ op[p].outs \in SUBSET Output
  BY DEF TypeInv, TypeOK, StoreType, OpType
<1>2. CASE PlanRestore(p)
  <2>1. PICK skip_confirmed \in BOOLEAN :
           LET outs == {o \in op[p].outs :
                          /\ Effective(rows, o) # None
                          /\ ~(skip_confirmed /\ shown[Of(p)][o] = {Effective(rows, o)})}
           IN  Planned(p, outs, Saved(outs), TRUE)
    BY <1>2 DEF PlanRestore
  <2> DEFINE outs == {o \in op[p].outs :
                        /\ Effective(rows, o) # None
                        /\ ~(skip_confirmed /\ shown[Of(p)][o] = {Effective(rows, o)})}
  <2>2. outs \in SUBSET op[p].outs /\ \A o \in outs : Effective(rows, o) # None
    OBVIOUS
  <2>3. Planned(p, outs, Saved(outs), TRUE)
    BY <2>1
  <2> HIDE DEF outs
  <2>4. /\ Saved(outs) \in [Output -> MaybeRecipe]
        /\ \A o \in outs : Saved(outs)[o] \in Recipe
    BY <1>1, <2>2, SavedType, EffectiveType DEF MaybeRecipe
  <2>5. op[p].kind \notin Applying
    BY <1>2 DEF PlanRestore, Applying
  <2>6. QED
    BY <2>2, <2>3, <2>4, <2>5, PlannedKeeps
<1>3. CASE PlanRecover(p)
  <2>1. /\ Saved(op[p].outs) \in [Output -> MaybeRecipe]
        /\ \A o \in op[p].outs : Saved(op[p].outs)[o] \in Recipe
    BY <1>1, <1>3, SavedType, EffectiveType DEF MaybeRecipe, PlanRecover
  <2>2. op[p].kind \notin Applying
    BY <1>3 DEF PlanRecover, Applying
  <2>3. QED
    BY <1>3, <2>1, <2>2, PlannedKeeps DEF PlanRecover
<1>4. CASE PlanSettings(p)
  <2>1. PICK r \in Recipe :
          /\ \A o \in op[p].outs : BackendOf[Effective(rows, o)] = BackendOf[r]
          /\ LET want == [o \in Output |->
                            IF o \in op[p].outs
                            THEN Rendering(Effective(rows, o), OptionsOf[r]) ELSE None]
             IN  Planned(p, op[p].outs, want, FALSE)
    BY <1>4 DEF PlanSettings
  <2> DEFINE want == [o \in Output |->
                        IF o \in op[p].outs
                        THEN Rendering(Effective(rows, o), OptionsOf[r]) ELSE None]
  <2>2. ASSUME NEW o \in op[p].outs
        PROVE  Rendering(Effective(rows, o), OptionsOf[r]) \in Recipe
    <3>1. Effective(rows, o) \in Recipe
      BY <1>1, <1>4, EffectiveType DEF PlanSettings, MaybeRecipe
    <3>2. BackendOf[r] = BackendOf[Effective(rows, o)]
      BY <2>1
    <3>3. QED
      BY <3>1, <3>2, RenderingType
  <2>3. want \in [Output -> MaybeRecipe] /\ \A o \in op[p].outs : want[o] \in Recipe
    BY <1>1, <2>2 DEF MaybeRecipe
  <2>4. op[p].kind \notin Applying /\ Planned(p, op[p].outs, want, FALSE)
    BY <1>4, <2>1 DEF PlanSettings, Applying
  <2> HIDE DEF want
  <2>5. QED
    BY <2>3, <2>4, PlannedKeeps
<1>5. QED
  BY <1>2, <1>3, <1>4

\* The end of the recovery of an output keeps the locals well formed.
LEMMA RecoveredKeeps ==
    ASSUME TypeInv, NEW p \in Process, NEW outcome \in SwitchOutcome, Recovered(p, outcome)
    PROVE  Keeps(p)
<1>1. op \in [Process -> OpType] /\ Shape(p, op[p], pc[p])
  BY DEF TypeInv, TypeOK
<1>2. pc'[p] = "compensate"
  BY DEF Recovered, TypeInv, TypeOK
<1>3. op' = [op EXCEPT ![p] = op'[p]]
  BY <1>1 DEF Recovered
<1>4. Good(p, op'[p], "compensate")
  <2> DEFINE result == [op[p].result EXCEPT ![op[p].cur] = outcome]
  <2>1. result \in [Output -> SwitchOutcome]
    BY <1>1 DEF OpType
  <2>2. op'[p] = [op[p] EXCEPT !.result = result, !.cur = None, !.todo = {}]
    BY <1>1 DEF Recovered, OpType
  <2> HIDE DEF result
  <2>3. op'[p] \in OpType
    <3>1. op[p] \in OpType
      BY <1>1
    <3>2. QED
      BY <2>1, <2>2, <3>1, ZenonT(60) DEF OpType
  <2>4. Shape(p, op'[p], "compensate")
    BY <1>1, <2>2 DEF Shape, OpType
  <2>5. QED
    BY <2>3, <2>4 DEF Good
<1>5. QED
  BY <1>2, <1>3, <1>4 DEF Keeps

\* A process that returns, gives up or dies has no locals.
LEMMA ReturnKeeps ==
    ASSUME TypeInv, NEW p \in Process,
           op' = [op EXCEPT ![p] = NoOp], pc' = [pc EXCEPT ![p] = "idle"]
    PROVE  Keeps(p)
  BY NoOpGood DEF Keeps, TypeInv, TypeOK

\* A request, and taking the lock, start from well formed locals.
LEMMA StartKeeps ==
    ASSUME TypeInv, NEW p \in Process,
           \/ RequestApply(p) \/ RequestRestore(p) \/ RequestStop(p) \/ Acquire(p)
    PROVE  Keeps(p)
<1>1. /\ op \in [Process -> OpType] /\ Good(p, op[p], pc[p])
      /\ pc \in [Process -> Holding \cup {"idle", "waiting"}]
      /\ Connected[Of(p)] \subseteq Output
  BY ConstantTypes, SessionOfProcess DEF TypeInv, TypeOK, Good, Of
<1>2. ASSUME NEW kind \in Kind, NEW outs \in SUBSET Output, NEW r \in MaybeRecipe,
             NEW explicit \in BOOLEAN, Request(p, kind, outs, r, explicit),
             kind \in Applying => r \in Recipe,
             kind = "apply_all" => outs = Connected[Of(p)]
      PROVE  Keeps(p)
  <2>1. op'[p] = [NoOp EXCEPT !.kind = kind, !.outs = outs, !.req = r,
                              !.explicit = explicit]
    BY <1>1, <1>2 DEF Request
  <2>2. pc'[p] = "waiting"
    BY <1>1, <1>2 DEF Request
  <2>3. op' = [op EXCEPT ![p] = op'[p]]
    BY <1>1, <1>2 DEF Request
  <2>4. NoOp \in OpType /\ NoOp.todo = {}
    BY NoOpGood DEF Good, NoOp
  <2>5. Good(p, op'[p], "waiting")
    BY <1>2, <2>1, <2>4, ZenonT(60) DEF Good, OpType, Shape
  <2>6. QED
    BY <2>2, <2>3, <2>5 DEF Keeps
<1>3. CASE RequestApply(p)
  BY <1>1, <1>2, <1>3 DEF RequestApply, Applying, Kind, MaybeRecipe
<1>4. CASE RequestRestore(p)
  BY <1>1, <1>2, <1>4 DEF RequestRestore, Applying, Kind, MaybeRecipe
<1>5. CASE RequestStop(p)
  BY <1>1, <1>2, <1>5 DEF RequestStop, Applying, Kind, MaybeRecipe
<1>6. CASE Acquire(p)
  <2>1. shown[Of(p)] \in [Output -> SUBSET Recipe]
    BY SessionOfProcess DEF TypeInv, TypeOK, Of
  <2>2. op'[p] = [op[p] EXCEPT !.start = shown[Of(p)]]
    BY <1>1, <1>6 DEF Acquire
  <2>3. op' = [op EXCEPT ![p] = op'[p]]
    BY <1>1, <1>6 DEF Acquire
  <2>4. pc'[p] \in {"intent", "plan"}
    BY <1>1, <1>6 DEF Acquire
  <2>5. Good(p, op'[p], pc'[p])
    BY <1>1, <2>1, <2>2, <2>4 DEF Good, OpType, Shape
  <2>6. QED
    BY <2>3, <2>5 DEF Keeps
<1>7. QED
  BY <1>3, <1>4, <1>5, <1>6

\* The overall outcome of an operation is an outcome.
LEMMA OutcomeType ==
    ASSUME NEW p \in Process
    PROVE  /\ Summary(p) \in SwitchOutcome
           /\ ErrorMark(p) \in SwitchOutcome
  BY DEF Summary, ErrorMark, SwitchOutcome

\* The backends attempted on an output are backends.
LEMMA AttemptedType ==
    ASSUME NEW p \in Process, op[p] \in OpType, NEW a \in op[p].todo
    PROVE  Attempted(p, a) \in [Output -> SUBSET Backend]
  BY DEF Attempted, OpType, Step

\* A step that changes the program counter only keeps the locals well formed.
LEMMA QuietKeeps ==
    ASSUME TypeInv, NEW p \in Process, op' = op,
           pc'[p] \in {"retire", "confirm"} => op[p].cur \in Output,
           pc'[p] = "reapply" => op[p].cur \in Output /\ op[p].before[op[p].cur] \in Recipe
    PROVE  Keeps(p)
  BY DEF Keeps, Good, TypeInv, TypeOK, Shape

\* Every step of a process keeps its locals well formed.
LEMMA StepKeeps ==
    ASSUME TypeInv, NEW p \in Process, ProcessStep(p)
    PROVE  Keeps(p)
<1>1. /\ op \in [Process -> OpType] /\ Good(p, op[p], pc[p])
      /\ pc \in [Process -> Holding \cup {"idle", "waiting"}]
      /\ StoreType /\ WorldType
      /\ Of(p) \in Session
  BY SessionOfProcess DEF TypeInv, TypeOK, Good, StoreType, WorldType, World, Of
<1>2. CASE RequestApply(p) \/ RequestRestore(p) \/ RequestStop(p) \/ Acquire(p)
  BY <1>2, StartKeeps
<1>3. CASE AcquireTimeout(p) \/ Refuse(p) \/ Crash(p) \/ JournalFull(p) \/ Finish(p)
  BY <1>3, ReturnKeeps DEF AcquireTimeout, Refuse, Crash, Return, JournalFull, Finish
<1>4. CASE PlanApply(p) \/ PlanRestore(p) \/ PlanRecover(p) \/ PlanSettings(p)
  BY <1>4, PlanApplyKeeps, PlansKeep
<1>5. CASE RecordIntent(p)
  <2>1. CASE pc' = [pc EXCEPT ![p] = "preflight"] /\ op' = op
    BY <1>1, <2>1, QuietKeeps
  <2>2. QED
    BY <1>5, <2>1, ReturnKeeps DEF RecordIntent, Return
<1>6. CASE Revalidate(p) \/ Recheck(p) \/ Verified(p) \/ Commit(p)
  BY <1>1, <1>6, QuietKeeps DEF Revalidate, Recheck, Verified, Commit
<1>7. CASE Retired(p)
  <2>1. op[p].cur \in Output /\ op[p].before[op[p].cur] \in MaybeRecipe
    BY <1>1, <1>7 DEF Retired, Good, Shape, OpType
  <2>2. QED
    BY <1>1, <1>7, <2>1, QuietKeeps DEF Retired, MaybeRecipe
<1>8. CASE Preflight(p)
  <2> DEFINE before == [o \in Output |-> IF o \in op[p].outs /\ Owners(Of(p), o) # {}
                                         THEN Effective(rows, o) ELSE None]
  <2>1. before \in [Output -> MaybeRecipe]
    BY <1>1, EffectiveType DEF MaybeRecipe
  <2>2. Snapshot(Of(p)) \in [Output -> SUBSET (Backend \cup Recipe)]
    BY <1>1, OwnersType DEF Snapshot
  <2>3. op' = [op EXCEPT ![p].revs = rev, ![p].read = rows, ![p].seen = Snapshot(Of(p)),
                         ![p].before = before]
        /\ pc'[p] = "revalidate"
    BY <1>1, <1>8 DEF Preflight
  <2> HIDE DEF before
  <2>4. op' = [op EXCEPT ![p] = op'[p]]
    BY <1>1, <2>3
  <2>5. op'[p] = [op[p] EXCEPT !.revs = rev, !.read = rows, !.seen = Snapshot(Of(p)),
                               !.before = before]
    BY <1>1, <2>3
  <2>6. Good(p, op'[p], "revalidate")
    BY <1>1, <2>1, <2>2, <2>5, ZenonT(60) DEF Good, Shape, OpType, StoreType
  <2>7. QED
    BY <2>3, <2>4, <2>6 DEF Keeps
<1>9. CASE PreflightStop(p)
  <2> DEFINE On(b) == {o \in op[p].outs : Owners(Of(p), o) = {b}}
             todo == {Stop(b, On(b), 1) : b \in {x \in Backend : On(x) # {}}}
  <2>1. PlanOK(todo, {})
    <3>1. ASSUME NEW b \in Backend
          PROVE  Stop(b, On(b), 1) \in Step /\ Stop(b, On(b), 1).act = "stop"
      <4>1. On(b) \in SUBSET Output
        BY <1>1 DEF OpType
      <4> HIDE DEF On
      <4>2. QED
        BY <4>1, StopIsStep
    <3> HIDE DEF On
    <3>2. QED
      BY <3>1 DEF PlanOK
  <2>2. Snapshot(Of(p)) \in [Output -> SUBSET (Backend \cup Recipe)]
    BY <1>1, OwnersType DEF Snapshot
  <2>3. op' = [op EXCEPT ![p].revs = rev, ![p].read = rows, ![p].seen = Snapshot(Of(p)),
                         ![p].todo = todo]
        /\ pc'[p] = "revalidate"
    BY <1>1, <1>9 DEF PreflightStop
  <2> HIDE DEF todo
  <2>4. op' = [op EXCEPT ![p] = op'[p]]
    BY <1>1, <2>3
  <2>5. op'[p] = [op[p] EXCEPT !.revs = rev, !.read = rows, !.seen = Snapshot(Of(p)),
                               !.todo = todo]
    BY <1>1, <2>3
  <2>6. Good(p, op'[p], "revalidate")
    BY <1>1, <2>1, <2>2, <2>5, ZenonT(60) DEF Good, Shape, OpType, StoreType, PlanOK
  <2>7. QED
    BY <2>3, <2>4, <2>6 DEF Keeps
<1>10. CASE JournalBegin(p)
  <2>1. Len(journal) + 1 \in Nat
    BY DEF TypeInv, TypeOK
  <2>2. op' = [op EXCEPT ![p].id = Len(journal) + 1] /\ pc'[p] = "recheck"
    BY <1>1, <1>10 DEF JournalBegin
  <2>3. op' = [op EXCEPT ![p] = op'[p]]
    BY <1>1, <2>2
  <2>4. Good(p, op'[p], "recheck")
    BY <1>1, <2>1, <2>2 DEF Good, Shape, OpType
  <2>5. QED
    BY <2>2, <2>3, <2>4 DEF Keeps
<1>11. CASE ExecuteOk(p) \/ StopFails(p) \/ ApplyFails(p)
  <2>1. PICK a \in op[p].todo, todo \in SUBSET op[p].todo, unsure \in SUBSET Output,
             outcome \in SwitchOutcome :
           op' = [op EXCEPT ![p].todo = todo, ![p].tried = Attempted(p, a),
                            ![p].unsure = unsure, ![p].outcome = outcome]
    <3>1. CASE ExecuteOk(p)
      <4>1. PICK a \in op[p].todo :
               op' = [op EXCEPT ![p].todo = @ \ {a}, ![p].tried = Attempted(p, a)]
        BY <3>1 DEF ExecuteOk, NextAction
      <4>2. op' = [op EXCEPT ![p].todo = op[p].todo \ {a}, ![p].tried = Attempted(p, a),
                             ![p].unsure = op[p].unsure, ![p].outcome = op[p].outcome]
        BY <1>1, <4>1 DEF OpType
      <4>3. op[p].unsure \subseteq Output /\ op[p].outcome \in SwitchOutcome
        BY <1>1 DEF OpType
      <4>4. QED
        BY <4>2, <4>3
    <3>2. CASE StopFails(p)
      <4>1. PICK a \in op[p].todo :
               op' = [op EXCEPT ![p].todo = {}, ![p].tried = Attempted(p, a),
                                ![p].unsure = a.scope, ![p].outcome = ErrorMark(p)]
        BY <3>2 DEF StopFails, NextAction
      <4>2. a.scope \subseteq Output
        BY <1>1 DEF OpType, Step
      <4>3. QED
        BY <4>1, <4>2, OutcomeType
    <3>3. CASE ApplyFails(p)
      <4>1. PICK a \in op[p].todo, cleanup_uncertain \in BOOLEAN :
               op' = [op EXCEPT ![p].todo = {}, ![p].tried = Attempted(p, a),
                                ![p].unsure = IF cleanup_uncertain THEN a.scope ELSE {}]
        BY <3>3 DEF ApplyFails, NextAction
      <4>2. op' = [op EXCEPT ![p].todo = {}, ![p].tried = Attempted(p, a),
                             ![p].unsure = IF cleanup_uncertain THEN a.scope ELSE {},
                             ![p].outcome = op[p].outcome]
        BY <1>1, <4>1 DEF OpType
      <4>3. /\ (IF cleanup_uncertain THEN a.scope ELSE {}) \in SUBSET Output
            /\ op[p].outcome \in SwitchOutcome
        BY <1>1 DEF OpType, Step
      <4>4. QED
        BY <4>2, <4>3
    <3>4. QED
      BY <1>11, <3>1, <3>2, <3>3
  <2>2. pc'[p] \in {"execute", "observe", "compensate"}
    BY <1>1, <1>11 DEF ExecuteOk, StopFails, ApplyFails, AfterFailure
  <2>3. op' = [op EXCEPT ![p] = op'[p]]
    BY <1>1, <2>1
  <2>4. op'[p] = [op[p] EXCEPT !.todo = todo, !.tried = Attempted(p, a),
                               !.unsure = unsure, !.outcome = outcome]
    BY <1>1, <2>1
  <2>5. Attempted(p, a) \in [Output -> SUBSET Backend]
    BY <1>1, AttemptedType
  <2>6. op[p] \in OpType /\ Shape(p, op[p], pc[p])
    BY <1>1 DEF Good
  <2>7. op'[p] \in OpType
    BY <2>4, <2>5, <2>6, ZenonT(60) DEF OpType
  <2>8. Shape(p, op'[p], pc'[p])
    BY <2>2, <2>4, <2>6 DEF Shape, OpType
  <2>9. QED
    BY <2>3, <2>7, <2>8 DEF Keeps, Good
<1>12. CASE ActionRefused(p)
  <2>1. op' = [op EXCEPT ![p].todo = {}, ![p].outcome = ErrorMark(p)]
        /\ pc'[p] \in {"observe", "compensate"}
    BY <1>1, <1>12 DEF ActionRefused, AfterFailure
  <2>2. QED
    BY <1>1, <2>1, OutcomeType DEF Keeps, Good, Shape, OpType
<1>13. CASE Executed(p)
  <2>1. CASE op' = op /\ pc' = [pc EXCEPT ![p] = "observe"]
    BY <1>1, <2>1, QuietKeeps
  <2>2. CASE op' = [op EXCEPT ![p].left = op[p].outs] /\ pc' = [pc EXCEPT ![p] = "verify"]
    BY <1>1, <2>2 DEF Keeps, Good, Shape, OpType
  <2>3. QED
    BY <1>13, <2>1, <2>2 DEF Executed
<1>14. CASE VerifyOutput(p) \/ VerifyOrCommitFails(p)
  <2>1. PICK left \in SUBSET Output : op' = [op EXCEPT ![p].left = left]
    <3>1. op[p].left \subseteq Output
      BY <1>1 DEF OpType
    <3>2. CASE VerifyOutput(p)
      <4>1. PICK o \in op[p].left : op' = [op EXCEPT ![p].left = @ \ {o}]
        BY <3>2 DEF VerifyOutput
      <4>2. op' = [op EXCEPT ![p].left = op[p].left \ {o}]
        BY <1>1, <4>1 DEF OpType
      <4>3. QED
        BY <3>1, <4>2
    <3>3. QED
      BY <1>14, <3>2 DEF VerifyOrCommitFails
  <2>2. pc'[p] \in {"verify", "compensate"}
    BY <1>1, <1>14 DEF VerifyOutput, VerifyOrCommitFails
  <2>3. QED
    BY <1>1, <2>1, <2>2 DEF Keeps, Good, Shape, OpType
<1>15. CASE Arm(p)
  <2> DEFINE result == [o \in Output |-> IF o \in op[p].outs THEN "Applied" ELSE "none"]
  <2>1. result \in [Output -> SwitchOutcome]
    BY DEF SwitchOutcome
  <2>2. op' = [op EXCEPT ![p].outcome = "Applied", ![p].result = result]
        /\ pc'[p] = "finish"
    BY <1>1, <1>15 DEF Arm
  <2> HIDE DEF result
  <2>3. QED
    BY <1>1, <2>1, <2>2, ZenonT(60) DEF Keeps, Good, Shape, OpType, SwitchOutcome
<1>16. CASE ReportOutput(p)
  <2>1. PICK o \in op[p].outs, c \in SwitchOutcome : op' = [op EXCEPT ![p].result[o] = c]
    BY <1>16 DEF ReportOutput, SwitchOutcome
  <2>2. pc' = pc /\ pc[p] = "compensate"
    BY <1>16 DEF ReportOutput
  <2>3. QED
    BY <1>1, <2>1, <2>2 DEF Keeps, Good, Shape, OpType
<1>17. CASE StartRecovery(p)
  <2>1. PICK o \in op[p].outs :
           op' = [op EXCEPT ![p].cur = o,
                            ![p].todo = {Stop(b, {o}, 1) : b \in op[p].tried[o]}]
    BY <1>17 DEF StartRecovery
  <2> DEFINE todo == {Stop(b, {o}, 1) : b \in op[p].tried[o]}
  <2>2. o \in Output /\ op[p].tried[o] \subseteq Backend
    BY <1>1 DEF OpType
  <2>3. PlanOK(todo, {})
    BY <2>2, StopIsStep DEF PlanOK
  <2>4. pc'[p] = "retire" /\ op' = [op EXCEPT ![p].cur = o, ![p].todo = todo]
    BY <1>1, <1>17, <2>1 DEF StartRecovery
  <2> HIDE DEF todo
  <2>5. QED
    BY <1>1, <2>2, <2>3, <2>4 DEF Keeps, Good, Shape, OpType, PlanOK
<1>18. CASE RetireOk(p)
  <2>1. PICK a \in op[p].todo : op' = [op EXCEPT ![p].todo = @ \ {a}]
    BY <1>18 DEF RetireOk
  <2>2. pc' = pc /\ pc[p] = "retire"
    BY <1>18 DEF RetireOk
  <2>3. QED
    BY <1>1, <2>1, <2>2 DEF Keeps, Good, Shape, OpType
<1>19. CASE RetireFails(p) \/ ConfirmRestored(p) \/ ConfirmFails(p)
  BY <1>19, RecoveredKeeps DEF RetireFails, ConfirmRestored, ConfirmFails, SwitchOutcome
<1>20. CASE Reapply(p)
  <2>1. CASE Recovered(p, "RecoveryFailed")
    BY <2>1, RecoveredKeeps DEF SwitchOutcome
  <2>2. CASE op' = op /\ pc' = [pc EXCEPT ![p] = "confirm"]
    <3>1. op[p].cur \in Output
      BY <1>1, <1>20 DEF Reapply, Good, Shape
    <3>2. QED
      BY <1>1, <2>2, <3>1, QuietKeeps
  <2>3. QED
    BY <1>20, <2>1, <2>2 DEF Reapply
<1>21. CASE Compensated(p)
  BY <1>1, <1>21, OutcomeType DEF Compensated, Keeps, Good, Shape, OpType
<1>22. CASE ObserveStopped(p)
  <2>1. PICK result \in [Output -> SwitchOutcome], outcome \in SwitchOutcome :
           op' = [op EXCEPT ![p].result = result, ![p].outcome = outcome]
    <3>1. PICK inspected \in BOOLEAN :
       LET Vacant(o) == inspected /\ Owners(Of(p), o) = {} IN
       op' = [op EXCEPT
                ![p].result = [o \in Output |->
                    IF o \notin op[p].outs THEN "none"
                    ELSE IF Vacant(o) THEN "Stopped" ELSE "Unknown"],
                ![p].outcome = IF @ = "Partial" \/ \E o \in op[p].outs : ~Vacant(o)
                               THEN "Partial" ELSE "Stopped"]
      BY <1>22 DEF ObserveStopped
    <3> DEFINE Vacant(o) == inspected /\ Owners(Of(p), o) = {}
               result == [o \in Output |->
                    IF o \notin op[p].outs THEN "none"
                    ELSE IF Vacant(o) THEN "Stopped" ELSE "Unknown"]
               outcome == IF op[p].outcome = "Partial" \/ \E o \in op[p].outs : ~Vacant(o)
                          THEN "Partial" ELSE "Stopped"
    <3>2. result \in [Output -> SwitchOutcome] /\ outcome \in SwitchOutcome
      BY DEF SwitchOutcome
    <3>3. op' = [op EXCEPT ![p].result = result, ![p].outcome = outcome]
      BY <1>1, <3>1
    <3> HIDE DEF result, outcome
    <3>4. QED
      BY <3>2, <3>3
  <2>2. pc'[p] = "finish"
    BY <1>1, <1>22 DEF ObserveStopped
  <2>3. QED
    BY <1>1, <2>1, <2>2 DEF Keeps, Good, Shape, OpType
<1>23. QED
  BY <1>2, <1>3, <1>4, <1>5, <1>6, <1>7, <1>8, <1>9, <1>10, <1>11, <1>12, <1>13, <1>14,
     <1>15, <1>16, <1>17, <1>18, <1>19, <1>20, <1>21, <1>22 DEF ProcessStep, Advance

-----------------------------------------------------------------------------
(* The journal and the counters.                                           *)

\* A journal whose rows were updated in place is a journal.
LEMMA RowUpdateType ==
    ASSUME NEW j \in Seq(Row), NEW f \in [DOMAIN j -> Row]
    PROVE  f \in Seq(Row) /\ DOMAIN f = DOMAIN j
<1>1. DOMAIN j = 1..Len(j) /\ Len(j) \in Nat
  OBVIOUS
<1>2. \E n \in Nat : f \in [1..n -> Row]
  BY <1>1
<1>3. QED
  BY <1>2

\* Rows are journalled by a begin and a finish only.
LEMMA JournalWriters ==
    ASSUME NEW p \in Process, ProcessStep(p)
    PROVE  JournalBegin(p) \/ JournalFull(p) \/ Finish(p) \/ UNCHANGED journal
<1>1. CASE RequestApply(p) \/ RequestRestore(p) \/ RequestStop(p)
  BY <1>1 DEF RequestApply, RequestRestore, RequestStop, Request
<1>2. CASE Acquire(p) \/ AcquireTimeout(p) \/ Refuse(p) \/ Crash(p) \/ RecordIntent(p)
  BY <1>2 DEF Acquire, AcquireTimeout, Refuse, Crash, RecordIntent
<1>3. CASE PlanApply(p) \/ PlanRestore(p) \/ PlanRecover(p) \/ PlanSettings(p)
  BY <1>3 DEF PlanApply, PlanRestore, PlanRecover, PlanSettings, Planned
<1>4. CASE Preflight(p) \/ PreflightStop(p) \/ Revalidate(p) \/ Recheck(p)
  BY <1>4 DEF Preflight, PreflightStop, Revalidate, Recheck
<1>5. CASE ExecuteOk(p) \/ ActionRefused(p) \/ StopFails(p) \/ ApplyFails(p) \/ Executed(p)
  BY <1>5 DEF ExecuteOk, ActionRefused, StopFails, ApplyFails, Executed
<1>6. CASE VerifyOutput(p) \/ Verified(p) \/ VerifyOrCommitFails(p) \/ Commit(p) \/ Arm(p)
  BY <1>6 DEF VerifyOutput, Verified, VerifyOrCommitFails, Commit, Arm
<1>7. CASE ReportOutput(p) \/ StartRecovery(p) \/ RetireOk(p) \/ RetireFails(p) \/ Retired(p)
  BY <1>7 DEF ReportOutput, StartRecovery, RetireOk, RetireFails, Retired
<1>8. CASE Reapply(p) \/ ConfirmRestored(p) \/ ConfirmFails(p)
  BY <1>8 DEF Reapply, ConfirmRestored, ConfirmFails
<1>9. CASE Compensated(p) \/ ObserveStopped(p)
  BY <1>9 DEF Compensated, ObserveStopped
<1>10. QED
  BY <1>1, <1>2, <1>3, <1>4, <1>5, <1>6, <1>7, <1>8, <1>9 DEF ProcessStep, Advance

\* Every step of a process keeps the type of the journal.
LEMMA JournalStep ==
    ASSUME TypeInv, NEW p \in Process, ProcessStep(p)
    PROVE  journal' \in Seq(Row)
<1>1. journal \in Seq(Row) /\ Of(p) \in Session
  BY SessionOfProcess DEF TypeInv, TypeOK, Of
<1>2. \A i \in DOMAIN journal : journal[i] \in Row
  BY <1>1
<1>3. Reconciled(Of(p)) \in Seq(Row)
  <2>1. Reconciled(Of(p)) \in [DOMAIN journal -> Row]
    BY <1>2 DEF Reconciled, Row
  <2>2. QED
    BY <1>1, <2>1, RowUpdateType
<1>4. CASE JournalBegin(p)
  <2>1. [session |-> Of(p), by |-> p, phase |-> "executing"] \in Row
    BY <1>1 DEF Row
  <2>2. PICK j \in {journal, Reconciled(Of(p))} :
           journal' = Append(j, [session |-> Of(p), by |-> p, phase |-> "executing"])
    BY <1>4 DEF JournalBegin
  <2>3. QED
    BY <1>1, <1>3, <2>1, <2>2
<1>5. CASE JournalFull(p)
  BY <1>1, <1>3, <1>5 DEF JournalFull
<1>6. CASE Finish(p)
  <2> DEFINE j == [i \in DOMAIN journal |->
                      IF i = op[p].id /\ journal[i].phase # "deleted"
                      THEN [journal[i] EXCEPT !.phase = "finished"] ELSE journal[i]]
  <2>1. j \in [DOMAIN journal -> Row]
    BY <1>2 DEF Row
  <2>2. j \in Seq(Row)
    BY <1>1, <2>1, RowUpdateType
  <2>3. journal' \in {journal, Pruned(j)}
    BY <1>6 DEF Finish
  <2> HIDE DEF j
  <2>4. Pruned(j) \in Seq(Row)
    <3>1. \A i \in DOMAIN j : j[i] \in Row
      BY <2>2
    <3>2. Pruned(j) \in [DOMAIN j -> Row]
      BY <3>1 DEF Pruned, Row
    <3>3. QED
      BY <2>2, <3>2, RowUpdateType
  <2>5. QED
    BY <1>1, <2>3, <2>4
<1>7. CASE UNCHANGED journal
  BY <1>1, <1>7
<1>8. QED
  BY <1>4, <1>5, <1>6, <1>7, JournalWriters

\* Every step of a process keeps the types of the counters.
LEMMA CountersStep ==
    ASSUME TypeInv, NEW p \in Process, ProcessStep(p)
    PROVE  ops' \in Nat /\ faults' \in Nat
<1>1. ops \in Nat /\ faults \in Nat
  BY DEF TypeInv, TypeOK
<1>2. CASE Crash(p)
  BY <1>1, <1>2 DEF Crash
<1>3. CASE RequestApply(p) \/ RequestRestore(p) \/ RequestStop(p)
  <2>1. ops' = ops + 1 /\ faults' = faults
    BY <1>3 DEF RequestApply, RequestRestore, RequestStop, Request
  <2>2. QED
    BY <1>1, <2>1
<1>4. CASE UNCHANGED <<ops, faults>>
  BY <1>1, <1>4
<1>9. CASE Acquire(p) \/ AcquireTimeout(p) \/ Refuse(p) \/ RecordIntent(p)
  BY <1>4, <1>9 DEF Acquire, AcquireTimeout, Refuse, RecordIntent
<1>10. CASE PlanApply(p) \/ PlanRestore(p) \/ PlanRecover(p) \/ PlanSettings(p)
  BY <1>4, <1>10 DEF PlanApply, PlanRestore, PlanRecover, PlanSettings, Planned
<1>11. CASE Preflight(p) \/ PreflightStop(p) \/ Revalidate(p) \/ Recheck(p)
  BY <1>4, <1>11 DEF Preflight, PreflightStop, Revalidate, Recheck
<1>12. CASE ExecuteOk(p) \/ ActionRefused(p) \/ StopFails(p) \/ ApplyFails(p) \/ Executed(p)
  BY <1>4, <1>12 DEF ExecuteOk, ActionRefused, StopFails, ApplyFails, Executed
<1>13. CASE VerifyOutput(p) \/ Verified(p) \/ VerifyOrCommitFails(p) \/ Commit(p) \/ Arm(p)
  BY <1>4, <1>13 DEF VerifyOutput, Verified, VerifyOrCommitFails, Commit, Arm
<1>14. CASE ReportOutput(p) \/ StartRecovery(p) \/ RetireOk(p) \/ RetireFails(p) \/ Retired(p)
  BY <1>4, <1>14 DEF ReportOutput, StartRecovery, RetireOk, RetireFails, Retired
<1>15. CASE Reapply(p) \/ ConfirmRestored(p) \/ ConfirmFails(p)
  BY <1>4, <1>15 DEF Reapply, ConfirmRestored, ConfirmFails
<1>16. CASE \/ Compensated(p) \/ ObserveStopped(p) \/ Finish(p)
            \/ JournalBegin(p) \/ JournalFull(p)
  BY <1>4, <1>16 DEF Compensated, ObserveStopped, Finish, JournalBegin, JournalFull
<1>17. QED
  BY <1>2, <1>3, <1>9, <1>10, <1>11, <1>12, <1>13, <1>14, <1>15, <1>16
     DEF ProcessStep, Advance

-----------------------------------------------------------------------------
(* Type correctness.                                                       *)

\* The invariant holds initially.
LEMMA TypeInit == Init => TypeInv
<1> SUFFICES ASSUME Init PROVE TypeInv
  OBVIOUS
<1>1. rows \in [Target -> MaybeRecipe]
  BY ConstantsAssumption DEF Init
<1>2. rev \in [Target -> Nat]
  BY DEF Init
<1>3. shown \in [Session -> [Output -> SUBSET Recipe]]
  <2>1. \A o \in Output : Effective(rows, o) \in MaybeRecipe
    BY <1>1 DEF Effective, Target
  <2>2. QED
    BY <2>1 DEF Init, MaybeRecipe
<1>4. op \in [Process -> OpType]
  BY NoOpGood DEF Init, Good
<1>5. journal \in Seq(Row)
  BY DEF Init
<1>6. /\ alive \subseteq Session
      /\ lock \in [Session -> Process \cup {None}]
      /\ disturbed \in [Session -> SUBSET Output]
      /\ stopped \in [Session -> SUBSET Output]
      /\ pc \in [Process -> Holding \cup {"idle", "waiting"}]
      /\ ops \in Nat /\ faults \in Nat
  BY DEF Init
<1>7. \A p \in Process : Shape(p, op[p], pc[p])
  BY NoOpGood DEF Init, Good
<1>8. QED
  BY <1>1, <1>2, <1>3, <1>4, <1>5, <1>6, <1>7 DEF TypeInv, TypeOK

\* Every step preserves the invariant; LockInv supplies the types of the lock and of
\* the program counters.
LEMMA TypeStep == LockInv /\ TypeInv /\ [Next]_vars => TypeInv'
<1> SUFFICES ASSUME LockInv, TypeInv, [Next]_vars PROVE TypeInv'
  OBVIOUS
<1>1. LockType'
  BY LockStep DEF LockInv
<1>2. CASE UNCHANGED vars
  BY <1>2 DEF vars, TypeInv, TypeOK, Shape
<1>3. ASSUME NEW p \in Process, ProcessStep(p)
      PROVE  TypeInv'
  <2>1. /\ WorldType' /\ StoreType' /\ journal' \in Seq(Row)
        /\ ops' \in Nat /\ faults' \in Nat /\ Keeps(p)
    BY <1>3, WorldStep, StoreStep, JournalStep, CountersStep, StepKeeps
  <2>2. op' \in [Process -> OpType]
    BY <2>1 DEF Keeps, Good, TypeInv, TypeOK
  <2>3. ASSUME NEW q \in Process
        PROVE  Shape(q, op'[q], pc'[q])
    <3>1. CASE q = p
      BY <2>1, <3>1 DEF Keeps, Good
    <3>2. CASE q # p
      <4>1. op'[q] = op[q]
        BY <2>1, <3>2 DEF Keeps, TypeInv, TypeOK
      <4>2. pc'[q] = pc[q]
        BY <1>3, <3>2, StepsRespectLock
           DEF Inside, Outside, Takes, Releases, Passes, LockInv, LockType
      <4>3. QED
        BY <4>1, <4>2 DEF TypeInv
    <3>3. QED
      BY <3>1, <3>2
  <2>4. TypeOK'
    BY <1>1, <2>1, <2>2 DEF TypeOK, LockType, WorldType, World, StoreType
  <2>5. QED
    BY <2>3, <2>4 DEF TypeInv
<1>4. ASSUME NEW s \in Session, SessionEnds(s)
      PROVE  TypeInv'
  <2>1. op' \in [Process -> OpType]
    BY <1>4, NoOpGood DEF SessionEnds, Good, TypeInv, TypeOK
  <2>2. NoneTried \in [Output -> SUBSET Recipe]
    BY DEF NoneTried
  <2>3. WorldType' /\ StoreType' /\ journal' \in Seq(Row) /\ ops' \in Nat /\ faults' \in Nat
    BY <1>4, <2>2 DEF SessionEnds, WorldType, World, StoreType, store, TypeInv, TypeOK
  <2>4. ASSUME NEW q \in Process
        PROVE  Shape(q, op'[q], pc'[q])
    BY <1>4, NoOpGood DEF SessionEnds, Good, TypeInv, TypeOK
  <2>5. TypeOK'
    BY <1>1, <2>1, <2>3 DEF TypeOK, LockType, WorldType, World, StoreType
  <2>6. QED
    BY <2>4, <2>5 DEF TypeInv
<1>5. ASSUME NEW s \in Session, RendererExit(s) \/ ForeignStart(s)
      PROVE  TypeInv'
  <2>1. /\ StoreType' /\ journal' \in Seq(Row) /\ ops' \in Nat /\ faults' \in Nat
        /\ pc' = pc /\ op' = op /\ alive' \subseteq Session
        /\ stopped' \in [Session -> SUBSET Output]
    BY <1>5 DEF RendererExit, ForeignStart, StoreType, store, TypeInv, TypeOK
  <2>2. shown' \in [Session -> [Output -> SUBSET Recipe]]
    <3>1. PICK o \in Output, rs \in SUBSET Recipe : shown' = [shown EXCEPT ![s][o] = rs]
      <4>1. \A o \in Output : shown[s][o] \subseteq Recipe
        BY DEF TypeInv, TypeOK
      <4>2. CASE RendererExit(s)
        <5>1. PICK o \in Output, r \in Recipe :
                 shown' = [shown EXCEPT ![s][o] = @ \ {r}]
          BY <4>2 DEF RendererExit
        <5>2. shown' = [shown EXCEPT ![s][o] = shown[s][o] \ {r}]
          BY <5>1 DEF TypeInv, TypeOK
        <5>3. QED
          BY <4>1, <5>2
      <4>3. CASE ForeignStart(s)
        <5>1. PICK o \in Output, r \in Recipe :
                 shown' = [shown EXCEPT ![s][o] =
                    {r} \cup IF BackendOf[r] \in Shared
                             THEN {x \in @ : BackendOf[x] # BackendOf[r]} ELSE @]
          BY <4>3, ConstantTypes DEF ForeignStart
        <5> DEFINE rs == {r} \cup IF BackendOf[r] \in Shared
                                  THEN {x \in shown[s][o] : BackendOf[x] # BackendOf[r]}
                                  ELSE shown[s][o]
        <5>2. shown' = [shown EXCEPT ![s][o] = rs]
          BY <5>1 DEF TypeInv, TypeOK
        <5>3. rs \in SUBSET Recipe
          BY <4>1
        <5> HIDE DEF rs
        <5>4. QED
          BY <5>2, <5>3
      <4>4. QED
        BY <1>5, <4>2, <4>3
    <3>2. QED
      BY <3>1 DEF TypeInv, TypeOK
  <2>3. disturbed' \in [Session -> SUBSET Output]
    <3>1. PICK o \in Output : Disturb(s, o)
      BY <1>5, ConstantTypes DEF RendererExit, ForeignStart
    <3>2. QED
      BY <3>1 DEF Disturb, TypeInv, TypeOK
  <2>4. op' \in [Process -> OpType] /\ \A q \in Process : Shape(q, op'[q], pc'[q])
    BY <2>1 DEF TypeInv, TypeOK
  <2>5. TypeOK'
    BY <1>1, <2>1, <2>2, <2>3, <2>4 DEF TypeOK, LockType, StoreType
  <2>6. QED
    BY <2>4, <2>5 DEF TypeInv
<1>6. CASE Quiescent
  BY <1>2, <1>6 DEF Quiescent
<1>7. QED
  BY <1>2, <1>3, <1>4, <1>5, <1>6 DEF Next, ProcessStep, Environment

\* Every variable has its type in every reachable state, for every value of the
\* constants that satisfies ConstantsAssumption.
THEOREM TypeCorrect == Spec => []TypeOK
<1>1. TypeInv => TypeOK
  BY DEF TypeInv
<1>2. QED
  BY <1>1, LockInit, LockStep, TypeInit, TypeStep, PTL DEF Spec

-----------------------------------------------------------------------------
(* How an operation moves on once it is in the journal.                    *)

\* The request and its row stay the same.
SameOperation(p) == op'[p].id = op[p].id /\ op'[p].kind = op[p].kind

\* An operation enters the journal by JournalBegin only, and keeps its row.
LEMMA JournaledSteps ==
    ASSUME TypeInv, NEW p \in Process, ProcessStep(p), pc'[p] \in Journaled
    PROVE  JournalBegin(p) \/ (pc[p] \in Journaled /\ SameOperation(p))
<1> USE DEF SameOperation
<1>1. /\ op \in [Process -> OpType]
      /\ pc \in [Process -> Holding \cup {"idle", "waiting"}]
  BY DEF TypeInv, TypeOK
<1>2. CASE RequestApply(p) \/ RequestRestore(p) \/ RequestStop(p)
  <2>1. pc'[p] = "waiting"
    BY <1>1, <1>2 DEF RequestApply, RequestRestore, RequestStop, Request
  <2>2. QED
    BY <2>1 DEF Journaled
<1>3. CASE Acquire(p)
  BY <1>1, <1>3 DEF Acquire, Journaled
<1>4. CASE AcquireTimeout(p) \/ Refuse(p) \/ Crash(p) \/ JournalFull(p) \/ Finish(p)
  BY <1>1, <1>4 DEF AcquireTimeout, Refuse, Crash, JournalFull, Finish, Return, Journaled
<1>5. CASE \/ PlanApply(p) \/ PlanRestore(p) \/ PlanRecover(p) \/ PlanSettings(p)
           \/ RecordIntent(p) \/ Preflight(p) \/ PreflightStop(p) \/ Revalidate(p)
  <2>1. pc'[p] \in {"idle", "preflight", "revalidate", "begin"}
    BY <1>1, <1>5 DEF PlanApply, PlanRestore, PlanRecover, PlanSettings, Planned,
                      RecordIntent, Return, Preflight, PreflightStop, Revalidate
  <2>2. QED
    BY <2>1 DEF Journaled
<1>6. CASE Recheck(p) \/ Verified(p) \/ Commit(p) \/ Retired(p)
  BY <1>6 DEF Recheck, Verified, Commit, Retired, Journaled
<1>7. CASE ExecuteOk(p)
  BY <1>1, <1>7 DEF ExecuteOk, OpType, Journaled
<1>8. CASE ActionRefused(p)
  BY <1>1, <1>8 DEF ActionRefused, OpType, Journaled
<1>9. CASE StopFails(p)
  BY <1>1, <1>9 DEF StopFails, OpType, Journaled
<1>10. CASE ApplyFails(p)
  BY <1>1, <1>10 DEF ApplyFails, OpType, Journaled
<1>11. CASE Executed(p)
  BY <1>1, <1>11 DEF Executed, OpType, Journaled
<1>12. CASE VerifyOutput(p)
  BY <1>1, <1>12 DEF VerifyOutput, OpType, Journaled
<1>13. CASE VerifyOrCommitFails(p) \/ Arm(p)
  BY <1>1, <1>13 DEF VerifyOrCommitFails, Arm, OpType, Journaled
<1>14. CASE ReportOutput(p)
  BY <1>1, <1>14 DEF ReportOutput, OpType, Journaled
<1>15. CASE StartRecovery(p) \/ RetireOk(p)
  <2>1. CASE StartRecovery(p)
    BY <1>1, <2>1 DEF StartRecovery, OpType, Journaled
  <2>2. CASE RetireOk(p)
    BY <1>1, <2>2 DEF RetireOk, OpType, Journaled
  <2>3. QED
    BY <1>15, <2>1, <2>2
<1>16. CASE RetireFails(p)
  BY <1>1, <1>16 DEF RetireFails, Recovered, OpType, Journaled
<1>17. CASE Reapply(p) \/ ConfirmRestored(p) \/ ConfirmFails(p)
  BY <1>1, <1>17 DEF Reapply, ConfirmRestored, ConfirmFails, Recovered, OpType, Journaled
<1>18. CASE Compensated(p) \/ ObserveStopped(p)
  BY <1>1, <1>18 DEF Compensated, ObserveStopped, OpType, Journaled
<1>19. QED
  BY <1>2, <1>3, <1>4, <1>5, <1>6, <1>7, <1>8, <1>9, <1>10, <1>11, <1>12, <1>13, <1>14,
     <1>15, <1>16, <1>17, <1>18 DEF ProcessStep, Advance

-----------------------------------------------------------------------------
(* The journal.                                                            *)

\* A row of its own for every journaled operation, and no other executing row in
\* the session of one that reconciled.
JournalInv == JournalCoversMutation /\ AbandonedRowsClosed

\* Reconciling closes the executing rows of one session and changes no other row.
LEMMA ReconciledRows ==
    ASSUME TypeInv, NEW s \in Session
    PROVE  LET j == Reconciled(s) IN
           /\ j \in Seq(Row) /\ DOMAIN j = DOMAIN journal /\ Len(j) = Len(journal)
           /\ \A i \in DOMAIN journal :
                 /\ j[i].session = journal[i].session
                 /\ journal[i].session # s => j[i] = journal[i]
                 /\ journal[i].session = s => j[i].phase # "executing"
<1>1. journal \in Seq(Row)
  BY DEF TypeInv, TypeOK
<1>2. \A i \in DOMAIN journal : journal[i] \in Row
  BY <1>1
<1>3. Reconciled(s) \in [DOMAIN journal -> Row]
  BY <1>2 DEF Reconciled, Row
<1>4. Reconciled(s) \in Seq(Row) /\ DOMAIN Reconciled(s) = DOMAIN journal
  BY <1>1, <1>3, RowUpdateType
<1>5. Len(Reconciled(s)) = Len(journal)
  BY <1>1, <1>4
<1>6. ASSUME NEW i \in DOMAIN journal
      PROVE  /\ Reconciled(s)[i].session = journal[i].session
             /\ journal[i].session # s => Reconciled(s)[i] = journal[i]
             /\ journal[i].session = s => Reconciled(s)[i].phase # "executing"
  BY <1>2, <1>6 DEF Reconciled, Executing, Row
<1>7. QED
  BY <1>4, <1>5, <1>6

\* A process that writes the journal leaves the executing rows of other sessions as
\* they are, and adds none to them.
LEMMA OtherSessionsRows ==
    ASSUME TypeInv, JournalInv, NEW q \in Process,
           JournalBegin(q) \/ JournalFull(q) \/ Finish(q)
    PROVE  \A i \in DOMAIN journal \cup DOMAIN journal' :
              /\ \/ /\ i \in DOMAIN journal /\ journal[i].session # Of(q)
                    /\ journal[i].phase = "executing"
                 \/ /\ i \in DOMAIN journal' /\ journal'[i].session # Of(q)
                    /\ journal'[i].phase = "executing"
              => i \in DOMAIN journal /\ i \in DOMAIN journal' /\ journal'[i] = journal[i]
<1> DEFINE OthersSurvive(j) ==
        /\ DOMAIN j = DOMAIN journal
        /\ \A i \in DOMAIN journal :
              /\ j[i].session = journal[i].session
              /\ journal[i].session # Of(q) =>
                    \/ j[i] = journal[i]
                    \/ journal[i].phase # "executing" /\ j[i].phase # "executing"
<1>1. journal \in Seq(Row) /\ Of(q) \in Session
  BY SessionOfProcess DEF TypeInv, TypeOK, Of
<1>2. OthersSurvive(journal)
  OBVIOUS
<1>3. OthersSurvive(Reconciled(Of(q))) /\ Reconciled(Of(q)) \in Seq(Row)
  BY <1>1, ReconciledRows
<1>4. CASE JournalBegin(q)
  <2>1. PICK j \in {journal, Reconciled(Of(q))} :
           journal' = Append(j, [session |-> Of(q), by |-> q, phase |-> "executing"])
    BY <1>4 DEF JournalBegin
  <2>2. OthersSurvive(j) /\ j \in Seq(Row)
    BY <1>1, <1>2, <1>3
  <2>3. /\ DOMAIN journal' = DOMAIN j \cup {Len(j) + 1}
        /\ \A i \in DOMAIN j : journal'[i] = j[i]
        /\ journal'[Len(j) + 1].session = Of(q)
    BY <2>1, <2>2
  <2>4. QED
    BY <2>2, <2>3
<1>5. CASE JournalFull(q)
  <2>1. OthersSurvive(journal')
    BY <1>2, <1>3, <1>5 DEF JournalFull
  <2>2. QED
    BY <2>1
<1>6. CASE Finish(q)
  <2> DEFINE j == [i \in DOMAIN journal |->
                      IF i = op[q].id /\ journal[i].phase # "deleted"
                      THEN [journal[i] EXCEPT !.phase = "finished"] ELSE journal[i]]
  <2>1. journal[op[q].id].session = Of(q)
    <3>1. pc[q] \in Journaled
      BY <1>6 DEF Finish, Journaled
    <3>2. journal[op[q].id] = [session |-> Of(q), by |-> q, phase |-> "executing"]
      BY <3>1 DEF JournalInv, JournalCoversMutation
    <3>3. QED
      BY <3>2
  <2>2. \A i \in DOMAIN journal : journal[i] \in Row
    BY <1>1
  <2>3. OthersSurvive(j)
    BY <2>1, <2>2 DEF Row
  <2>4. OthersSurvive(Pruned(j))
    <3>1. \A i \in DOMAIN j : j[i] \in Row
      BY <2>2 DEF Row
    <3> HIDE DEF j
    <3>2. ASSUME NEW i \in DOMAIN j
          PROVE  /\ Pruned(j)[i].session = j[i].session
                 /\ \/ Pruned(j)[i] = j[i]
                    \/ j[i].phase # "executing" /\ Pruned(j)[i].phase # "executing"
      BY <3>1 DEF Pruned, Row
    <3>3. DOMAIN Pruned(j) = DOMAIN j
      BY DEF Pruned
    <3>4. QED
      BY <2>3, <3>2, <3>3
  <2>5. journal' = journal \/ journal' = Pruned(j)
    BY <1>6 DEF Finish
  <2> HIDE DEF j
  <2>6. OthersSurvive(journal')
    BY <1>2, <2>4, <2>5
  <2>7. QED
    BY <2>6
<1>7. QED
  BY <1>4, <1>5, <1>6

\* A process that begins its row owns it and, having reconciled, is alone with it.
LEMMA BeginsRow ==
    ASSUME TypeInv, NEW p \in Process, JournalBegin(p)
    PROVE  /\ op'[p].id \in DOMAIN journal'
           /\ journal'[op'[p].id] = [session |-> Of(p), by |-> p, phase |-> "executing"]
           /\ op'[p].kind # "stop" =>
                 \A i \in Executing(journal') : journal'[i].session = Of(p) => i = op'[p].id
<1> DEFINE s == Of(p)
           j == IF op[p].kind = "stop" THEN journal ELSE Reconciled(s)
<1>1. journal \in Seq(Row) /\ s \in Session /\ op \in [Process -> OpType]
  BY SessionOfProcess DEF TypeInv, TypeOK, Of
<1>2. j \in Seq(Row) /\ Len(j) = Len(journal) /\ DOMAIN j = DOMAIN journal
  BY <1>1, ReconciledRows
<1>3. journal' = Append(j, [session |-> s, by |-> p, phase |-> "executing"])
  BY DEF JournalBegin
<1>4. op'[p].id = Len(journal) + 1 /\ op'[p].kind = op[p].kind
  BY <1>1 DEF JournalBegin, OpType
<1>5. op[p].kind # "stop" =>
         \A i \in DOMAIN j : journal[i].session = s => j[i].phase # "executing"
  BY <1>1, ReconciledRows
<1>6. \A i \in DOMAIN j : j[i].session = journal[i].session
  BY <1>1, ReconciledRows
<1> HIDE DEF j
<1>7. /\ DOMAIN journal' = DOMAIN j \cup {Len(journal) + 1}
      /\ \A i \in DOMAIN j : journal'[i] = j[i]
      /\ journal'[Len(journal) + 1] = [session |-> s, by |-> p, phase |-> "executing"]
  BY <1>2, <1>3
<1>8. QED
  BY <1>4, <1>5, <1>6, <1>7 DEF Executing

\* What JournalInv says of one process.
Covered(p) ==
    pc[p] \in Journaled =>
        /\ op[p].id \in DOMAIN journal
        /\ journal[op[p].id] = [session |-> Of(p), by |-> p, phase |-> "executing"]
        /\ op[p].kind # "stop" =>
              \A i \in Executing(journal) : journal[i].session = Of(p) => i = op[p].id

\* Every step keeps the rows of the journaled operations: their own steps by
\* JournaledSteps, those of other processes because they are in another session.
LEMMA JournalStepSafe ==
    LockInv /\ TypeInv /\ JournalInv /\ [Next]_vars => JournalInv'
<1> SUFFICES ASSUME LockInv, TypeInv, JournalInv, [Next]_vars,
                    NEW p \in Process
             PROVE  Covered(p)'
  BY DEF Covered, JournalInv, JournalCoversMutation, AbandonedRowsClosed
<1>1. Covered(p)
  BY DEF Covered, JournalInv, JournalCoversMutation, AbandonedRowsClosed
<1>2. CASE pc'[p] = pc[p] /\ op'[p] = op[p] /\ journal' = journal
  BY <1>1, <1>2 DEF Covered, Executing
<1>3. ASSUME NEW q \in Process, ProcessStep(q)
      PROVE  Covered(p)'
  <2>1. \/ JournalBegin(q) \/ JournalFull(q) \/ Finish(q)
        \/ UNCHANGED journal
    BY <1>3, JournalWriters
  <2>2. CASE q = p
    <3>1. SUFFICES ASSUME pc'[p] \in Journaled
                   PROVE  Covered(p)'
      BY DEF Covered
    <3>2. CASE JournalBegin(p)
      BY <3>2, BeginsRow DEF Covered
    <3>3. CASE ~JournalBegin(p)
      <4>1. pc[p] \in Journaled /\ SameOperation(p)
        BY <1>3, <2>2, <3>1, <3>3, JournaledSteps
      <4>2. pc'[p] # "idle"
        BY <3>1 DEF Journaled
      <4>3. pc \in [Process -> Holding \cup {"idle", "waiting"}]
        BY DEF TypeInv, TypeOK
      <4>4. ~JournalFull(p) /\ ~Finish(p)
        BY <4>2, <4>3 DEF JournalFull, Finish, Return
      <4>5. journal' = journal
        BY <2>1, <2>2, <3>3, <4>4
      <4>6. QED
        BY <1>1, <4>1, <4>5 DEF Covered, SameOperation, Executing
    <3>4. QED
      BY <3>2, <3>3
  <2>3. CASE q # p
    <3>1. op'[p] = op[p]
      BY <1>3, <2>3, StepKeeps DEF Keeps, TypeInv, TypeOK
    <3>2. pc'[p] = pc[p]
      BY <1>3, <2>3, StepsRespectLock
         DEF Inside, Outside, Takes, Releases, Passes, LockInv, LockType
    <3>3. CASE UNCHANGED journal
      BY <1>2, <3>1, <3>2, <3>3
    <3>4. CASE JournalBegin(q) \/ JournalFull(q) \/ Finish(q)
      <4>1. SUFFICES ASSUME pc[p] \in Journaled
                     PROVE  Covered(p)'
        BY <3>2 DEF Covered
      <4>2. Holds(q) /\ Holds(p)
        BY <3>4, <4>1 DEF JournalBegin, JournalFull, Finish, Holds, Holding, Journaled
      <4>3. Of(p) # Of(q)
        BY <2>3, <4>2 DEF LockInv
      <4>4. journal'[op[p].id] = journal[op[p].id] /\ op[p].id \in DOMAIN journal'
        BY <1>1, <3>4, <4>1, <4>3, OtherSessionsRows DEF Covered
      <4>5. ASSUME NEW i \in Executing(journal'), journal'[i].session = Of(p)
            PROVE  i \in Executing(journal) /\ journal[i].session = Of(p)
        BY <3>4, <4>3, <4>5, OtherSessionsRows DEF Executing
      <4>6. QED
        BY <1>1, <3>1, <4>1, <4>4, <4>5 DEF Covered
    <3>5. QED
      BY <2>1, <3>3, <3>4
  <2>4. QED
    BY <2>2, <2>3
<1>4. ASSUME NEW s \in Session, SessionEnds(s)
      PROVE  Covered(p)'
  <2>1. CASE Of(p) = s
    BY <1>4, <2>1 DEF SessionEnds, Covered, Journaled
  <2>2. CASE Of(p) # s
    BY <1>2, <1>4, <2>2 DEF SessionEnds
  <2>3. QED
    BY <2>1, <2>2
<1>5. CASE \E s \in Session : RendererExit(s) \/ ForeignStart(s)
  BY <1>2, <1>5 DEF RendererExit, ForeignStart
<1>6. CASE Quiescent \/ UNCHANGED vars
  BY <1>2, <1>6 DEF Quiescent, vars
<1>7. QED
  BY <1>3, <1>4, <1>5, <1>6 DEF Next, ProcessStep, Environment

\* Nothing is journaled initially.
LEMMA JournalInitSafe == Init => JournalInv
  BY DEF Init, JournalInv, JournalCoversMutation, AbandonedRowsClosed, Journaled

\* Displays change only under a row of the journal that belongs to the operation
\* and is executing, however many sessions share the journal.
THEOREM JournalCovers == Spec => []JournalCoversMutation
<1>1. JournalInv => JournalCoversMutation
  BY DEF JournalInv
<1>2. QED
  BY <1>1, LockInit, LockStep, TypeInit, TypeStep, JournalInitSafe, JournalStepSafe, PTL
     DEF Spec

\* What a crash left executing is closed before its session changes displays again.
THEOREM AbandonedClosed == Spec => []AbandonedRowsClosed
<1>1. JournalInv => AbandonedRowsClosed
  BY DEF JournalInv
<1>2. QED
  BY <1>1, LockInit, LockStep, TypeInit, TypeStep, JournalInitSafe, JournalStepSafe, PTL
     DEF Spec

-----------------------------------------------------------------------------
(* A Stop.                                                                 *)

\* What a Stop has done once it is past its intent, and that only a Stop reports
\* an output as stopped.
StopOk(p) ==
    op[p].kind = "stop" =>
        /\ pc[p] \in {"idle", "waiting", "intent", "preflight", "revalidate", "begin",
                      "recheck", "execute", "observe", "finish"}
        /\ pc[p] \notin {"idle", "waiting", "intent"} => op[p].outs \subseteq stopped[Of(p)]
        /\ \A a \in op[p].todo : a.act = "stop"
ReportOk(p) ==
    op[p].kind # "stop" =>
        /\ pc[p] # "observe"
        /\ \A o \in Output : op[p].result[o] # "Stopped"

StopInv == \A p \in Process : StopOk(p) /\ ReportOk(p)

\* A Stop that records its intent and an operation that succeeded are the only ones
\* to change the stop intents.
LEMMA IntentWriters ==
    ASSUME NEW p \in Process, ProcessStep(p)
    PROVE  RecordIntent(p) \/ Arm(p) \/ UNCHANGED stopped
<1>1. CASE RequestApply(p) \/ RequestRestore(p) \/ RequestStop(p)
  BY <1>1 DEF RequestApply, RequestRestore, RequestStop, Request
<1>2. CASE Acquire(p) \/ AcquireTimeout(p) \/ Refuse(p) \/ Crash(p)
  BY <1>2 DEF Acquire, AcquireTimeout, Refuse, Crash
<1>3. CASE PlanApply(p) \/ PlanRestore(p) \/ PlanRecover(p) \/ PlanSettings(p)
  BY <1>3 DEF PlanApply, PlanRestore, PlanRecover, PlanSettings, Planned
<1>4. CASE Preflight(p) \/ PreflightStop(p) \/ Revalidate(p) \/ Recheck(p)
  BY <1>4 DEF Preflight, PreflightStop, Revalidate, Recheck
<1>5. CASE ExecuteOk(p) \/ ActionRefused(p) \/ StopFails(p) \/ ApplyFails(p) \/ Executed(p)
  BY <1>5 DEF ExecuteOk, ActionRefused, StopFails, ApplyFails, Executed
<1>6. CASE VerifyOutput(p) \/ Verified(p) \/ VerifyOrCommitFails(p) \/ Commit(p)
  BY <1>6 DEF VerifyOutput, Verified, VerifyOrCommitFails, Commit
<1>7. CASE ReportOutput(p) \/ StartRecovery(p) \/ RetireOk(p) \/ RetireFails(p) \/ Retired(p)
  BY <1>7 DEF ReportOutput, StartRecovery, RetireOk, RetireFails, Retired
<1>8. CASE Reapply(p) \/ ConfirmRestored(p) \/ ConfirmFails(p)
  BY <1>8 DEF Reapply, ConfirmRestored, ConfirmFails
<1>9. CASE \/ Compensated(p) \/ ObserveStopped(p) \/ Finish(p)
           \/ JournalBegin(p) \/ JournalFull(p)
  BY <1>9 DEF Compensated, ObserveStopped, Finish, JournalBegin, JournalFull
<1>10. QED
  BY <1>1, <1>2, <1>3, <1>4, <1>5, <1>6, <1>7, <1>8, <1>9 DEF ProcessStep, Advance

\* A Stop keeps to its path and to its stops, and leaves its intent alone.
LEMMA StopStep ==
    ASSUME TypeInv, NEW p \in Process, ProcessStep(p), StopOk(p)
    PROVE  StopOk(p)'
<1> USE DEF StopOk
<1>1. /\ op \in [Process -> OpType]
      /\ pc \in [Process -> Holding \cup {"idle", "waiting"}]
      /\ stopped \in [Session -> SUBSET Output] /\ Of(p) \in Session
  BY SessionOfProcess DEF TypeInv, TypeOK, Of
<1>2. NoOp.kind # "stop"
  BY DEF NoOp
<1>3. CASE RequestApply(p) \/ RequestRestore(p) \/ RequestStop(p)
  <2>1. PICK kind, outs, r, explicit : Request(p, kind, outs, r, explicit)
    BY <1>3 DEF RequestApply, RequestRestore, RequestStop
  <2>2. op'[p].todo = {} /\ pc'[p] = "waiting"
    BY <1>1, <2>1 DEF Request, NoOp
  <2>3. QED
    BY <2>2
<1>4. CASE Acquire(p)
  BY <1>1, <1>4 DEF Acquire, OpType
<1>5. CASE AcquireTimeout(p) \/ Refuse(p) \/ Crash(p) \/ JournalFull(p) \/ Finish(p)
  BY <1>1, <1>2, <1>5 DEF AcquireTimeout, Refuse, Crash, JournalFull, Finish, Return
<1>6. CASE PlanApply(p) \/ PlanRestore(p) \/ PlanRecover(p) \/ PlanSettings(p)
  <2>1. op[p].kind # "stop"
    BY <1>6 DEF PlanApply, PlanRestore, PlanRecover, PlanSettings, Applying
  <2>2. ASSUME NEW outs, NEW want, NEW shared_first, Planned(p, outs, want, shared_first)
        PROVE  op'[p].kind = op[p].kind
    BY <1>1, <2>2 DEF Planned, OpType
  <2>3. CASE PlanApply(p)
    <3>1. \E base, want, todo : op' = [op EXCEPT ![p].base = base, ![p].want = want,
                                                 ![p].todo = todo]
      BY <2>3, Zenon DEF PlanApply
    <3>2. op'[p].kind = op[p].kind
      BY <1>1, <3>1 DEF OpType
    <3>3. QED
      BY <2>1, <3>2
  <2>4. CASE PlanRestore(p) \/ PlanRecover(p) \/ PlanSettings(p)
    <3>1. op'[p].kind = op[p].kind
      BY <2>2, <2>4 DEF PlanRestore, PlanRecover, PlanSettings
    <3>2. QED
      BY <2>1, <3>1
  <2>5. QED
    BY <1>6, <2>3, <2>4
<1>7. CASE RecordIntent(p)
  <2>1. CASE Return(p)
    BY <1>1, <1>2, <2>1 DEF Return
  <2>2. CASE pc' = [pc EXCEPT ![p] = "preflight"] /\ op' = op
    BY <1>1, <1>7, <2>2 DEF RecordIntent
  <2>3. QED
    BY <1>7, <2>1, <2>2 DEF RecordIntent
<1>8. CASE Preflight(p)
  BY <1>1, <1>8 DEF Preflight, OpType
<1>9. CASE PreflightStop(p)
  BY <1>1, <1>9 DEF PreflightStop, OpType, Stop
<1>10. CASE Revalidate(p) \/ Recheck(p)
  BY <1>1, <1>10 DEF Revalidate, Recheck
<1>11. CASE JournalBegin(p)
  BY <1>1, <1>11 DEF JournalBegin, OpType
<1>12. CASE ExecuteOk(p)
  <2>1. PICK a \in op[p].todo :
           op' = [op EXCEPT ![p].todo = @ \ {a}, ![p].tried = Attempted(p, a)]
    BY <1>12 DEF ExecuteOk, NextAction
  <2>2. UNCHANGED <<pc, stopped>>
    BY <1>12 DEF ExecuteOk
  <2>3. QED
    BY <1>1, <2>1, <2>2 DEF OpType
<1>13. CASE ActionRefused(p)
  BY <1>1, <1>13 DEF ActionRefused, AfterFailure, OpType
<1>14. CASE StopFails(p)
  BY <1>1, <1>14 DEF StopFails, AfterFailure, OpType
<1>15. CASE ApplyFails(p)
  <2>1. PICK a \in op[p].todo, cleanup_uncertain \in BOOLEAN :
           /\ a.act = "apply"
           /\ op' = [op EXCEPT ![p].todo = {}, ![p].tried = Attempted(p, a),
                               ![p].unsure = IF cleanup_uncertain THEN a.scope ELSE {}]
    BY <1>15 DEF ApplyFails, NextAction
  <2>2. QED
    BY <1>1, <2>1 DEF OpType
<1>16. CASE Executed(p)
  BY <1>1, <1>16 DEF Executed, OpType
<1>17. CASE ObserveStopped(p)
  BY <1>1, <1>17 DEF ObserveStopped, OpType
<1>18. CASE \/ VerifyOutput(p) \/ Verified(p) \/ VerifyOrCommitFails(p) \/ Commit(p)
            \/ Arm(p) \/ ReportOutput(p) \/ StartRecovery(p) \/ RetireOk(p)
            \/ RetireFails(p) \/ Retired(p) \/ Reapply(p) \/ ConfirmRestored(p)
            \/ ConfirmFails(p) \/ Compensated(p)
  <2>1. /\ pc[p] \in {"verify", "commit", "arm", "compensate", "retire", "reapply", "confirm"}
        /\ pc'[p] \in Journaled
    BY <1>1, <1>18
       DEF VerifyOutput, Verified, VerifyOrCommitFails, Commit, Arm, ReportOutput,
           StartRecovery, RetireOk, RetireFails, Retired, Reapply, ConfirmRestored,
           ConfirmFails, Compensated, Recovered, Journaled
  <2>2. op[p].kind # "stop" /\ ~JournalBegin(p)
    BY <2>1 DEF JournalBegin
  <2>3. op'[p].kind = op[p].kind
    BY <2>1, <2>2, JournaledSteps DEF SameOperation
  <2>4. QED
    BY <2>2, <2>3
<1>19. QED
  BY <1>3, <1>4, <1>5, <1>6, <1>7, <1>8, <1>9, <1>10, <1>11, <1>12, <1>13, <1>14, <1>15,
     <1>16, <1>17, <1>18 DEF ProcessStep, Advance

\* Only the observation at the end of a Stop reports an output as stopped.
LEMMA ReportStep ==
    ASSUME TypeInv, NEW p \in Process, ProcessStep(p), ReportOk(p)
    PROVE  ReportOk(p)'
<1> USE DEF ReportOk
<1>1. /\ op \in [Process -> OpType]
      /\ pc \in [Process -> Holding \cup {"idle", "waiting"}]
  BY DEF TypeInv, TypeOK
<1>2. \A o \in Output : NoOp.result[o] = "none"
  BY DEF NoOp, NoResults
<1>3. CASE op'[p].result = op[p].result /\ op'[p].kind = op[p].kind /\ pc'[p] # "observe"
  BY <1>3
<1>4. CASE RequestApply(p) \/ RequestRestore(p) \/ RequestStop(p)
  <2>1. PICK kind, outs, r, explicit : Request(p, kind, outs, r, explicit)
    BY <1>4 DEF RequestApply, RequestRestore, RequestStop
  <2>2. op'[p].result = NoOp.result /\ pc'[p] = "waiting"
    BY <1>1, <2>1 DEF Request, NoOp
  <2>3. QED
    BY <1>2, <2>2
<1>5. CASE Acquire(p)
  BY <1>1, <1>3, <1>5 DEF Acquire, OpType
<1>6. CASE AcquireTimeout(p) \/ Refuse(p) \/ Crash(p) \/ JournalFull(p) \/ Finish(p)
  <2>1. op'[p] = NoOp /\ pc'[p] = "idle"
    BY <1>1, <1>6 DEF AcquireTimeout, Refuse, Crash, JournalFull, Finish, Return
  <2>2. QED
    BY <1>2, <2>1
<1>7. CASE PlanApply(p)
  <2>1. \E base, want, todo : op' = [op EXCEPT ![p].base = base, ![p].want = want,
                                               ![p].todo = todo]
    BY <1>7, Zenon DEF PlanApply
  <2>2. pc'[p] = "preflight"
    BY <1>1, <1>7 DEF PlanApply
  <2>3. QED
    BY <1>1, <1>3, <2>1, <2>2 DEF OpType
<1>8. CASE PlanRestore(p) \/ PlanRecover(p) \/ PlanSettings(p)
  <2>1. ASSUME NEW outs, NEW want, NEW shared_first, Planned(p, outs, want, shared_first)
        PROVE  /\ op'[p].result = op[p].result /\ op'[p].kind = op[p].kind
               /\ pc'[p] # "observe"
    BY <1>1, <2>1 DEF Planned, OpType
  <2>2. QED
    BY <1>3, <1>8, <2>1 DEF PlanRestore, PlanRecover, PlanSettings
<1>9. CASE RecordIntent(p)
  <2>1. CASE Return(p)
    BY <1>1, <1>2, <2>1 DEF Return
  <2>2. CASE pc' = [pc EXCEPT ![p] = "preflight"] /\ op' = op
    BY <1>1, <1>3, <2>2
  <2>3. QED
    BY <1>9, <2>1, <2>2 DEF RecordIntent
<1>10. CASE Preflight(p)
  BY <1>1, <1>3, <1>10 DEF Preflight, OpType
<1>11. CASE PreflightStop(p)
  BY <1>1, <1>3, <1>11 DEF PreflightStop, OpType
<1>12. CASE Revalidate(p) \/ Recheck(p) \/ Verified(p) \/ Commit(p) \/ Retired(p)
  BY <1>1, <1>3, <1>12 DEF Revalidate, Recheck, Verified, Commit, Retired
<1>13. CASE JournalBegin(p)
  BY <1>1, <1>3, <1>13 DEF JournalBegin, OpType
<1>14. CASE ExecuteOk(p)
  BY <1>1, <1>3, <1>14 DEF ExecuteOk, OpType
<1>15. CASE ActionRefused(p)
  BY <1>1, <1>15 DEF ActionRefused, AfterFailure, OpType
<1>16. CASE StopFails(p)
  BY <1>1, <1>16 DEF StopFails, AfterFailure, OpType
<1>17. CASE ApplyFails(p)
  BY <1>1, <1>3, <1>17 DEF ApplyFails, OpType
<1>18. CASE Executed(p)
  <2>1. CASE op[p].kind = "stop"
    BY <1>18, <2>1 DEF Executed
  <2>2. CASE op[p].kind # "stop"
    BY <1>1, <1>3, <1>18, <2>2 DEF Executed, OpType
  <2>3. QED
    BY <2>1, <2>2
<1>19. CASE VerifyOutput(p)
  BY <1>1, <1>3, <1>19 DEF VerifyOutput, OpType
<1>20. CASE VerifyOrCommitFails(p)
  BY <1>1, <1>3, <1>20 DEF VerifyOrCommitFails, OpType
<1>21. CASE Arm(p)
  BY <1>1, <1>21 DEF Arm, OpType
<1>22. CASE ReportOutput(p)
  <2>1. PICK o \in op[p].outs, c \in {"Unchanged", "Unknown", "RecoveryFailed"} :
           op' = [op EXCEPT ![p].result[o] = c]
    BY <1>22 DEF ReportOutput
  <2>2. pc'[p] = "compensate"
    BY <1>22 DEF ReportOutput
  <2>3. QED
    BY <1>1, <2>1, <2>2 DEF OpType
<1>23. CASE StartRecovery(p)
  BY <1>1, <1>3, <1>23 DEF StartRecovery, OpType
<1>24. CASE RetireOk(p)
  BY <1>1, <1>3, <1>24 DEF RetireOk, OpType
<1>25. ASSUME NEW outcome, Recovered(p, outcome), outcome # "Stopped"
       PROVE  ReportOk(p)'
  <2>1. pc'[p] = "compensate" /\ op'[p].kind = op[p].kind
    BY <1>1, <1>25 DEF Recovered, OpType
  <2>2. op'[p].result = [op[p].result EXCEPT ![op[p].cur] = outcome]
    BY <1>1, <1>25 DEF Recovered, OpType
  <2>3. op[p].result \in [Output -> SwitchOutcome]
    BY <1>1 DEF OpType
  <2>4. QED
    BY <1>25, <2>1, <2>2, <2>3
<1>26. CASE RetireFails(p) \/ ConfirmRestored(p) \/ ConfirmFails(p)
  BY <1>25, <1>26 DEF RetireFails, ConfirmRestored, ConfirmFails
<1>27. CASE Reapply(p)
  <2>1. CASE op' = op /\ pc' = [pc EXCEPT ![p] = "confirm"]
    BY <1>1, <1>3, <2>1
  <2>2. QED
    BY <1>25, <1>27, <2>1 DEF Reapply
<1>28. CASE Compensated(p)
  BY <1>1, <1>3, <1>28 DEF Compensated, OpType
<1>29. CASE ObserveStopped(p)
  BY <1>1, <1>29 DEF ObserveStopped, OpType
<1>30. QED
  BY <1>4, <1>5, <1>6, <1>7, <1>8, <1>9, <1>10, <1>11, <1>12, <1>13, <1>14, <1>15, <1>16,
     <1>17, <1>18, <1>19, <1>20, <1>21, <1>22, <1>23, <1>24, <1>26, <1>27, <1>28, <1>29
     DEF ProcessStep, Advance

\* Another process withdraws intents of its own session only, where no Stop can be
\* under way while it holds the lock.
LEMMA StopInvStep ==
    LockInv /\ TypeInv /\ StopInv /\ [Next]_vars => StopInv'
<1> SUFFICES ASSUME LockInv, TypeInv, StopInv, [Next]_vars,
                    NEW p \in Process
             PROVE  StopOk(p)' /\ ReportOk(p)'
  BY DEF StopInv
<1>1. /\ StopOk(p) /\ ReportOk(p)
      /\ stopped \in [Session -> SUBSET Output] /\ Of(p) \in Session
      /\ op \in [Process -> OpType]
  BY SessionOfProcess DEF StopInv, TypeInv, TypeOK, Of
<1>2. CASE pc'[p] = pc[p] /\ op'[p] = op[p] /\ stopped'[Of(p)] = stopped[Of(p)]
  BY <1>1, <1>2 DEF StopOk, ReportOk
<1>3. ASSUME NEW q \in Process, ProcessStep(q)
      PROVE  StopOk(p)' /\ ReportOk(p)'
  <2>1. CASE q = p
    BY <1>1, <1>3, <2>1, StopStep, ReportStep
  <2>2. CASE q # p
    <3>1. op'[p] = op[p]
      BY <1>3, <2>2, StepKeeps DEF Keeps, TypeInv, TypeOK
    <3>2. pc'[p] = pc[p]
      BY <1>3, <2>2, StepsRespectLock
         DEF Inside, Outside, Takes, Releases, Passes, LockInv, LockType
    <3>3. CASE UNCHANGED stopped
      BY <1>2, <3>1, <3>2, <3>3
    <3>4. CASE RecordIntent(q)
      <4>1. stopped[Of(p)] \subseteq stopped'[Of(p)]
        BY <1>1, <3>4 DEF RecordIntent
      <4>2. QED
        BY <1>1, <3>1, <3>2, <4>1 DEF StopOk, ReportOk
    <3>5. CASE Arm(q)
      <4>1. CASE Of(p) # Of(q)
        <5>1. stopped'[Of(p)] = stopped[Of(p)]
          BY <1>1, <3>5, <4>1 DEF Arm
        <5>2. QED
          BY <1>2, <3>1, <3>2, <5>1
      <4>2. CASE Of(p) = Of(q)
        <5>1. Holds(q)
          BY <3>5 DEF Arm, Holds, Holding
        <5>2. ~Holds(p)
          BY <2>2, <4>2, <5>1 DEF LockInv
        <5>3. pc[p] \in {"idle", "waiting"}
          BY <5>2 DEF Holds, TypeInv, TypeOK
        <5>4. QED
          BY <1>1, <3>1, <3>2, <5>3 DEF StopOk, ReportOk
      <4>3. QED
        BY <4>1, <4>2
    <3>6. QED
      BY <1>3, <3>3, <3>4, <3>5, IntentWriters
  <2>3. QED
    BY <2>1, <2>2
<1>4. ASSUME NEW s \in Session, SessionEnds(s)
      PROVE  StopOk(p)' /\ ReportOk(p)'
  <2>1. CASE Of(p) = s
    <3>1. op'[p] = NoOp /\ pc'[p] = "idle"
      BY <1>4, <2>1 DEF SessionEnds
    <3>2. QED
      BY <3>1 DEF StopOk, ReportOk, NoOp, NoResults
  <2>2. CASE Of(p) # s
    BY <1>1, <1>2, <1>4, <2>2 DEF SessionEnds
  <2>3. QED
    BY <2>1, <2>2
<1>5. CASE \E s \in Session : RendererExit(s) \/ ForeignStart(s)
  BY <1>2, <1>5 DEF RendererExit, ForeignStart
<1>6. CASE Quiescent \/ UNCHANGED vars
  BY <1>2, <1>6 DEF Quiescent, vars
<1>7. QED
  BY <1>3, <1>4, <1>5, <1>6 DEF Next, ProcessStep, Environment

\* No Stop is under way initially.
LEMMA StopInvInit == Init => StopInv
  BY DEF Init, StopInv, StopOk, ReportOk, NoOp, NoResults

\* A Stop that reports an output as stopped has left an intent that keeps the
\* watcher from bringing it back, whatever the other processes of any session do.
THEOREM StopLasts == Spec => []StoppedStaysStopped
<1>1. TypeInv /\ StopInv => StoppedStaysStopped
  <2>1. SUFFICES ASSUME TypeInv, StopInv, NEW p \in Process, pc[p] = "finish",
                        NEW o \in op[p].outs, op[p].result[o] = "Stopped"
                 PROVE  o \in stopped[Of(p)]
    BY DEF StoppedStaysStopped
  <2>2. o \in Output
    BY <2>1 DEF TypeInv, TypeOK, OpType
  <2>3. QED
    BY <2>1, <2>2 DEF StopInv, StopOk, ReportOk
<1>2. QED
  BY <1>1, LockInit, LockStep, TypeInit, TypeStep, StopInvInit, StopInvStep, PTL DEF Spec
=============================================================================
