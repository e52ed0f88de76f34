---------------------- MODULE DisplayOperationReports ----------------------
(* Proofs about DisplayOperation: what an operation does to displays, and  *)
(* what it says of them, for any number of sessions, processes, outputs,   *)
(* recipes, operations and faults.                                         *)
(*                                                                         *)
(* None of these properties is inductive.  A report is made output by      *)
(* output, long before it is returned, from what was attempted on each;    *)
(* and a renderer command may touch outputs it was not given, because the  *)
(* shared daemon lets go of outputs that other renderers cover.  ReportInv *)
(* follows, for the locals of every operation, which outputs nothing was   *)
(* attempted on, which were verified, restored or reported, and that each  *)
(* of them shows what that says, unless something else changed it.         *)
EXTENDS DisplayOperationProofs

-----------------------------------------------------------------------------
(* What renderer commands leave alone.                                     *)

\* What is rendered on output o is of one backend, if anything is.
Sole(w, o) == \A r, x \in w[o] : BackendOf[r] = BackendOf[x]

\* That is what an unambiguous observation says.
LEMMA SoleOwner ==
    ASSUME NEW w \in World, NEW o \in Output,
           Cardinality(OwnersIn(w, o)) <= 1 \/ ~(Cardinality(OwnersIn(w, o)) > 1)
    PROVE  Sole(w, o)
<1> SUFFICES ASSUME NEW r \in w[o], NEW x \in w[o], BackendOf[r] # BackendOf[x]
             PROVE  FALSE
  BY DEF Sole
<1> DEFINE a == BackendOf[r]
           b == BackendOf[x]
<1>1. OwnersIn(w, o) \subseteq Backend /\ IsFiniteSet(Backend)
  BY ConstantsAssumption, ConstantTypes DEF OwnersIn, World
<1>2. IsFiniteSet(OwnersIn(w, o))
  BY <1>1, FS_Subset
<1>3. {a} \cup {b} \in SUBSET OwnersIn(w, o)
  BY DEF OwnersIn
<1>4. Cardinality({a}) = 1 /\ IsFiniteSet({a})
  BY FS_Singleton
<1>5. Cardinality({a} \cup {b}) = 2
  <2>1. Cardinality({a} \cup {b}) = IF b \in {a} THEN Cardinality({a}) ELSE Cardinality({a}) + 1
    BY <1>4, FS_AddElement
  <2>2. b \notin {a}
    OBVIOUS
  <2>3. QED
    BY <1>4, <2>1, <2>2
<1>6. Cardinality({a} \cup {b}) <= Cardinality(OwnersIn(w, o))
  BY <1>2, <1>3, FS_Subset
<1>7. Cardinality(OwnersIn(w, o)) \in Nat
  BY <1>2, FS_CardinalityType
<1>8. QED
  BY <1>5, <1>6, <1>7

\* Outside its scope a command starts nothing, and takes nothing from an output that
\* one backend renders on.
Spared(w, v, scope) ==
    \A o \in Output \ scope : v[o] \subseteq w[o] /\ (Sole(w, o) => v[o] = w[o])

\* A stop takes nothing at all outside its scope.
LEMMA WithoutSpares ==
    ASSUME NEW w \in World, NEW scope, NEW bs
    PROVE  Spared(w, Without(w, scope, bs), scope)
  BY DEF Spared, Without, World

\* The shared daemon lets go of the outputs renderer processes cover.
LEMMA ReleaseSpares ==
    ASSUME NEW w \in World, NEW scope
    PROVE  Spared(w, Without(w, Foreign(w), Shared), scope)
<1> SUFFICES ASSUME NEW o \in Output
             PROVE  LET v == Without(w, Foreign(w), Shared)
                    IN  v[o] \subseteq w[o] /\ (Sole(w, o) => v[o] = w[o])
  BY DEF Spared
<1>1. CASE o \notin Foreign(w)
  BY <1>1 DEF Without
<1>2. CASE o \in Foreign(w)
  <2>1. PICK r \in w[o] : BackendOf[r] \notin Shared
    BY <1>2 DEF Foreign, OwnersIn
  <2>2. Sole(w, o) => \A x \in w[o] : BackendOf[x] \notin Shared
    BY <2>1 DEF Sole
  <2>3. Without(w, Foreign(w), Shared)[o] = {x \in w[o] : BackendOf[x] \notin Shared}
    BY <1>2 DEF Without
  <2>4. QED
    BY <2>2, <2>3
<1>3. QED
  BY <1>1, <1>2

\* So does launching recipes,
LEMMA LaunchedSpares ==
    ASSUME NEW w \in World, NEW be, NEW scope, NEW want
    PROVE  Spared(w, Launched(w, be, scope, want), scope)
<1> DEFINE released == Without(w, IF be \in Shared THEN Foreign(w) ELSE scope, Shared)
<1>1. Spared(w, released, scope)
  BY WithoutSpares, ReleaseSpares
<1>2. \A o \in Output \ scope : Launched(w, be, scope, want)[o] = released[o]
  BY DEF Launched
<1> HIDE DEF released
<1>3. QED
  BY <1>1, <1>2 DEF Spared

\* ... a mixture of two such worlds,
LEMMA MixedSpares ==
    ASSUME NEW w, NEW f, NEW g, NEW v \in Mixed(f, g), NEW scope,
           Spared(w, f, scope), Spared(w, g, scope)
    PROVE  Spared(w, v, scope)
  BY DEF Spared, Mixed

\* ... and every way in which an apply can fail.
LEMMA FailuresSpare ==
    ASSUME NEW w \in World, NEW be, NEW scope, NEW want,
           NEW v \in CleanFailures(w, be, scope, want) \cup UnsureFailures(w, be, scope, want)
    PROVE  Spared(w, v, scope)
<1>1. /\ Spared(w, w, scope)
      /\ Spared(w, Without(w, scope, Shared), scope)
      /\ Spared(w, Without(w, Foreign(w), Shared), scope)
      /\ Spared(w, Launched(w, be, scope, want), scope)
  BY WithoutSpares, ReleaseSpares, LaunchedSpares DEF Spared
<1>2. QED
  BY <1>1, MixedSpares DEF CleanFailures, UnsureFailures

\* The steps that run renderer commands.
Runs(p) == \/ ExecuteOk(p) \/ StopFails(p) \/ ApplyFails(p)
           \/ RetireOk(p) \/ RetireFails(p) \/ Reapply(p)

\* A step that runs a command changes one session, and spares what is not in its scope.
LEMMA RunsSpare ==
    ASSUME TypeInv, NEW p \in Process, Runs(p)
    PROVE  /\ \A s \in Session : s # Of(p) => shown'[s] = shown[s]
           /\ (ExecuteOk(p) \/ StopFails(p) \/ ApplyFails(p)) =>
                 \E a \in op[p].todo : /\ op'[p].tried = Attempted(p, a)
                                       /\ Spared(shown[Of(p)], shown'[Of(p)], a.scope)
           /\ (RetireOk(p) \/ RetireFails(p)) =>
                 \E a \in op[p].todo : Spared(shown[Of(p)], shown'[Of(p)], a.scope)
           /\ Reapply(p) => Spared(shown[Of(p)], shown'[Of(p)], {op[p].cur})
<1> DEFINE s == Of(p)
           w == shown[s]
<1>1. /\ shown \in [Session -> World] /\ s \in Session /\ w \in World
      /\ op \in [Process -> OpType]
  BY SessionOfProcess DEF TypeInv, TypeOK, Of, World
<1>2. ASSUME NEW v, shown' = [shown EXCEPT ![s] = v]
      PROVE  shown'[s] = v /\ \A x \in Session : x # s => shown'[x] = shown[x]
  BY <1>1, <1>2
<1>3. CASE ExecuteOk(p)
  <2>1. PICK a \in op[p].todo :
          /\ shown' = [shown EXCEPT ![s] =
                IF a.act = "stop" THEN Without(@, a.scope, {a.be})
                ELSE Launched(@, a.be, a.scope, op[p].want)]
          /\ op' = [op EXCEPT ![p].todo = @ \ {a}, ![p].tried = Attempted(p, a)]
    BY <1>3 DEF ExecuteOk, NextAction
  <2> DEFINE v == IF a.act = "stop" THEN Without(w, a.scope, {a.be})
                  ELSE Launched(w, a.be, a.scope, op[p].want)
  <2>2. Spared(w, v, a.scope)
    BY <1>1, WithoutSpares, LaunchedSpares
  <2>3. shown' = [shown EXCEPT ![s] = v]
    BY <1>1, <2>1
  <2>4. op'[p].tried = Attempted(p, a)
    BY <1>1, <2>1 DEF OpType
  <2>5. pc[p] = "execute"
    BY <1>3 DEF ExecuteOk
  <2> HIDE DEF v, w, s
  <2>6. /\ shown'[s] = v /\ \A x \in Session : x # s => shown'[x] = shown[x]
    BY <1>2, <2>3
  <2>7. QED
    BY <2>2, <2>4, <2>5, <2>6 DEF RetireOk, RetireFails, Reapply, s, w
<1>4. CASE StopFails(p)
  <2>1. PICK a \in op[p].todo :
          /\ \E v \in Mixed(w, Without(w, a.scope, {a.be})) : shown' = [shown EXCEPT ![s] = v]
          /\ op' = [op EXCEPT ![p].todo = {}, ![p].tried = Attempted(p, a),
                              ![p].unsure = a.scope, ![p].outcome = ErrorMark(p)]
    BY <1>4 DEF StopFails, NextAction
  <2>2. PICK v \in Mixed(w, Without(w, a.scope, {a.be})) : shown' = [shown EXCEPT ![s] = v]
    BY <2>1
  <2>3. Spared(w, w, a.scope) /\ Spared(w, Without(w, a.scope, {a.be}), a.scope)
    BY <1>1, WithoutSpares DEF Spared
  <2>4. op'[p].tried = Attempted(p, a)
    BY <1>1, <2>1 DEF OpType
  <2>5. pc[p] = "execute"
    BY <1>4 DEF StopFails
  <2> HIDE DEF w, s
  <2>6. Spared(w, v, a.scope)
    BY <2>3, MixedSpares
  <2>7. /\ shown'[s] = v /\ \A x \in Session : x # s => shown'[x] = shown[x]
    BY <1>2, <2>2
  <2>8. QED
    BY <2>4, <2>5, <2>6, <2>7 DEF RetireOk, RetireFails, Reapply, s, w
<1>5. CASE ApplyFails(p)
  <2>1. PICK a \in op[p].todo :
          /\ \E v \in CleanFailures(w, a.be, a.scope, op[p].want)
                      \cup UnsureFailures(w, a.be, a.scope, op[p].want) :
                shown' = [shown EXCEPT ![s] = v]
          /\ \E unsure : op' = [op EXCEPT ![p].todo = {}, ![p].tried = Attempted(p, a),
                                          ![p].unsure = unsure]
    BY <1>5 DEF ApplyFails, NextAction
  <2>2. PICK v \in CleanFailures(w, a.be, a.scope, op[p].want)
                   \cup UnsureFailures(w, a.be, a.scope, op[p].want) :
           shown' = [shown EXCEPT ![s] = v]
    BY <2>1
  <2>3. op'[p].tried = Attempted(p, a)
    BY <1>1, <2>1 DEF OpType
  <2>4. pc[p] = "execute"
    BY <1>5 DEF ApplyFails
  <2> HIDE DEF w, s
  <2>5. Spared(w, v, a.scope)
    BY <1>1, <2>2, FailuresSpare
  <2>6. /\ shown'[s] = v /\ \A x \in Session : x # s => shown'[x] = shown[x]
    BY <1>2, <2>2
  <2>7. QED
    BY <2>3, <2>4, <2>5, <2>6 DEF RetireOk, RetireFails, Reapply, s, w
<1>6. CASE RetireOk(p) \/ RetireFails(p)
  <2>1. PICK a \in op[p].todo :
           \E v \in Mixed(w, Without(w, a.scope, {a.be})) : shown' = [shown EXCEPT ![s] = v]
    <3>1. CASE RetireOk(p)
      <4>1. PICK a \in op[p].todo : shown' = [shown EXCEPT ![s] = Without(w, a.scope, {a.be})]
        BY <1>1, <3>1 DEF RetireOk
      <4>2. Without(w, a.scope, {a.be}) \in Mixed(w, Without(w, a.scope, {a.be}))
        <5> DEFINE g == Without(w, a.scope, {a.be})
        <5>1. g = [o \in Output |-> IF o \in Output THEN g[o] ELSE w[o]]
          BY DEF Without
        <5>2. QED
          BY <5>1 DEF Mixed
      <4>3. QED
        BY <4>1, <4>2
    <3>2. CASE RetireFails(p)
      BY <3>2 DEF RetireFails
    <3>3. QED
      BY <1>6, <3>1, <3>2
  <2>2. PICK v \in Mixed(w, Without(w, a.scope, {a.be})) : shown' = [shown EXCEPT ![s] = v]
    BY <2>1
  <2>3. Spared(w, w, a.scope) /\ Spared(w, Without(w, a.scope, {a.be}), a.scope)
    BY <1>1, WithoutSpares DEF Spared
  <2>4. pc[p] = "retire"
    BY <1>6 DEF RetireOk, RetireFails
  <2> HIDE DEF w, s
  <2>5. Spared(w, v, a.scope)
    BY <2>3, MixedSpares
  <2>6. /\ shown'[s] = v /\ \A x \in Session : x # s => shown'[x] = shown[x]
    BY <1>2, <2>2
  <2>7. QED
    BY <2>4, <2>5, <2>6 DEF ExecuteOk, StopFails, ApplyFails, Reapply, s, w
<1>7. CASE Reapply(p)
  <2> DEFINE scope == {op[p].cur}
             be == BackendOf[op[p].before[op[p].cur]]
  <2>1. PICK v \in {Launched(w, be, scope, op[p].before)}
                   \cup CleanFailures(w, be, scope, op[p].before)
                   \cup UnsureFailures(w, be, scope, op[p].before) :
           shown' = [shown EXCEPT ![s] = v]
    BY <1>1, <1>7 DEF Reapply
  <2>2. pc[p] = "reapply"
    BY <1>7 DEF Reapply
  <2> HIDE DEF w, s, scope, be
  <2>3. Spared(w, v, scope)
    BY <1>1, <2>1, LaunchedSpares, FailuresSpare
  <2>4. /\ shown'[s] = v /\ \A x \in Session : x # s => shown'[x] = shown[x]
    BY <1>2, <2>1
  <2>5. QED
    BY <2>2, <2>3, <2>4 DEF ExecuteOk, StopFails, ApplyFails, RetireOk, RetireFails, s, w, scope
<1>8. QED
  BY <1>3, <1>4, <1>5, <1>6, <1>7 DEF Runs

-----------------------------------------------------------------------------
(* What an operation knows of its own progress.                            *)

Preparing == {"preflight", "revalidate", "begin", "recheck", "execute"}
Verifying == {"verify", "commit", "arm"}
Recovering == {"retire", "reapply", "confirm"}
Compensating == {"compensate"} \cup Recovering

\* A plan stays within the batch and leaves no output of it out.
Covers(plan, outs) ==
    /\ \A a \in plan : a.scope \subseteq outs
    /\ \A o \in outs : \E a \in plan : o \in a.scope

\* What is still to do stays within the batch; before an output is verified something
\* was attempted on it, and if anything is put back, that is an output with an attempt
\* and a certain cleanup, one at a time and once.  What is reported before the end is
\* the report of such an output, or that nothing was attempted.
Batch(r, c) ==
    /\ c \in {"waiting", "plan", "intent"} => r.todo = {}
    /\ c = "intent" => r.kind = "stop"
    /\ c \in Preparing => \A a \in r.todo : a.scope \subseteq r.outs
    /\ c \in Preparing /\ r.kind # "stop" =>
          \A o \in r.outs : r.tried[o] # {} \/ \E a \in r.todo : o \in a.scope
    /\ c \in Verifying => /\ r.left \subseteq r.outs
                          /\ c # "verify" => r.left = {}
                          /\ \A o \in r.outs : r.tried[o] # {}
    /\ c \in Recovering => /\ r.cur \in r.outs \ r.unsure
                           /\ r.tried[r.cur] # {} /\ r.result[r.cur] = "none"
    /\ c = "retire" => \A a \in r.todo : a.scope = {r.cur}
    /\ c \notin Compensating \cup {"finish"} => \A o \in Output : r.result[o] = "none"
    /\ c \in Compensating =>
          /\ r.kind # "stop"
          /\ \A o \in Output : r.result[o] \in {"none", "Unchanged", "Unknown",
                                                "RecoveryFailed", "RestoredPrevious"}
    /\ c \in Compensating \cup {"finish"} =>
          \A o \in r.outs : r.result[o] = "Unchanged" => r.kind # "stop" /\ r.tried[o] = {}
    /\ c = "finish" =>
          /\ r.outcome = "Unchanged" => r.kind # "stop" /\ \A o \in r.outs : r.tried[o] = {}
          /\ r.outcome = "RestoredPrevious" =>
                \A o \in r.outs : r.result[o] \in {"Unchanged", "RestoredPrevious"}

\* The plans cover their batch.
LEMMA PlanSetCovers ==
    ASSUME NEW s, NEW outs, NEW be
    PROVE  Covers(PlanSet(s, outs, be), outs)
<1>1. ASSUME NEW a \in PlanSet(s, outs, be)
      PROVE  \E o \in outs : a.scope = {o}
  <2>1. \/ \E b \in Backend, o \in outs : a = Stop(b, {o}, 1)
        \/ \E o \in outs : a = Apply(be, {o}, 4)
    BY DEF PlanSet
  <2>2. QED
    BY <2>1 DEF Stop, Apply
<1>2. ASSUME NEW o \in outs
      PROVE  Apply(be, {o}, 4) \in PlanSet(s, outs, be) /\ o \in Apply(be, {o}, 4).scope
  BY DEF PlanSet, Apply
<1>3. QED
  BY <1>1, <1>2 DEF Covers

LEMMA PlanStepsCover ==
    ASSUME NEW s, NEW outs, NEW want, NEW pos, NEW shared_first
    PROVE  Covers(PlanSteps(s, outs, want, pos, shared_first), outs)
<1> DEFINE Class(o) == IF shared_first /\ BackendOf[want[o]] \notin Shared
                       THEN Cardinality(Output) ELSE 0
           At(o) == 2 * (Class(o) + pos[o])
           plan == PlanSteps(s, outs, want, pos, shared_first)
<1> HIDE DEF At
<1>1. ASSUME NEW a \in plan
      PROVE  \E o \in outs : a.scope = {o}
  <2>1. \/ \E b \in Backend, o \in outs : a = Stop(b, {o}, At(o))
        \/ \E o \in outs : a = Apply(BackendOf[want[o]], {o}, At(o) + 1)
    BY DEF PlanSteps, At
  <2>2. QED
    BY <2>1 DEF Stop, Apply
<1>2. ASSUME NEW o \in outs
      PROVE  /\ Apply(BackendOf[want[o]], {o}, At(o) + 1) \in plan
             /\ o \in Apply(BackendOf[want[o]], {o}, At(o) + 1).scope
  BY DEF PlanSteps, Apply, At
<1>3. QED
  BY <1>1, <1>2 DEF Covers

LEMMA PlanAllCovers ==
    ASSUME NEW s, NEW be
    PROVE  Covers(PlanAll(s, be), Connected[s])
<1> DEFINE outs == Connected[s]
           On(b) == {o \in outs : b \in Claimed(s, o)}
           planned == {b \in Backend : On(b) # {} /\ NeedsStop(b, be)}
           implicated == UNION {Owners(s, o) : o \in Output}
           A == {Stop(b, On(b), IF b = be THEN 2 ELSE 1) : b \in planned}
           B == {Stop(b, outs, 3) : b \in {x \in implicated \ planned : NeedsStop(x, be)}}
           C == ApplyGroups(be, outs, 4)
<1>1. \A a \in A : a.scope \subseteq outs
  <2>1. ASSUME NEW b \in planned
        PROVE  Stop(b, On(b), IF b = be THEN 2 ELSE 1).scope \subseteq outs
    BY DEF Stop
  <2> HIDE DEF On, planned
  <2>2. QED
    BY <2>1
<1>2. \A a \in B : a.scope \subseteq outs
  BY DEF Stop
<1>3. Covers(C, outs)
  <2> HIDE DEF outs
  <2>1. CASE be \in Shared
    <3>1. C = {Apply(be, outs, 4)}
      BY <2>1 DEF ApplyGroups
    <3>2. Apply(be, outs, 4).scope = outs
      BY DEF Apply
    <3> HIDE DEF C
    <3>3. QED
      BY <3>1, <3>2 DEF Covers
  <2>2. CASE be \notin Shared
    <3>1. C = {Apply(be, {o}, 4) : o \in outs}
      BY <2>2 DEF ApplyGroups
    <3> HIDE DEF C
    <3>2. ASSUME NEW a \in C
          PROVE  a.scope \subseteq outs
      BY <3>1 DEF Apply
    <3>3. ASSUME NEW o \in outs
          PROVE  Apply(be, {o}, 4) \in C /\ o \in Apply(be, {o}, 4).scope
      BY <3>1 DEF Apply
    <3>4. QED
      BY <3>2, <3>3 DEF Covers
  <2>3. QED
    BY <2>1, <2>2
<1>4. PlanAll(s, be) = A \cup B \cup C
  BY DEF PlanAll
<1> HIDE DEF A, B, C, outs
<1>5. QED
  BY <1>1, <1>2, <1>3, <1>4 DEF Covers, outs

\* So does the plan of an Apply that goes output by output.
LEMMA PlanApplyCovers ==
    ASSUME TypeInv, NEW p \in Process, PlanApply(p)
    PROVE  \E base, want, todo :
              /\ op' = [op EXCEPT ![p].base = base, ![p].want = want, ![p].todo = todo]
              /\ Covers(todo, op[p].outs)
<1> DEFINE s == Of(p)
           be == BackendOf[op[p].req]
           outs == op[p].outs
           want == [o \in Output |-> IF o \in outs THEN Kept(p, o) ELSE None]
           plan == IF op[p].kind = "apply_all" THEN PlanAll(s, be)
                   ELSE PlanSet(s, outs, be)
           todo == IF \A o \in outs : want[o] = op[p].req THEN plan
                   ELSE {a \in plan : a.act = "stop"} \cup {Apply(be, {o}, 4) : o \in outs}
<1>1. op' = [op EXCEPT ![p].base = rows, ![p].want = want, ![p].todo = todo]
  BY DEF PlanApply
<1>2. op[p].kind = "apply_all" => outs = Connected[s]
  BY DEF TypeInv, Shape
<1>3. Covers(plan, outs)
  BY <1>2, PlanAllCovers, PlanSetCovers
<1> HIDE DEF plan, want
<1>4. Covers({a \in plan : a.act = "stop"} \cup {Apply(be, {o}, 4) : o \in outs}, outs)
  <2> DEFINE each == {Apply(be, {o}, 4) : o \in outs}
  <2>1. ASSUME NEW a \in each
        PROVE  a.scope \subseteq outs
    BY DEF Apply
  <2>2. ASSUME NEW o \in outs
        PROVE  Apply(be, {o}, 4) \in each /\ o \in Apply(be, {o}, 4).scope
    BY DEF Apply
  <2> HIDE DEF each
  <2>3. Covers({a \in plan : a.act = "stop"} \cup each, outs)
    BY <1>3, <2>1, <2>2 DEF Covers
  <2>4. QED
    BY <2>3 DEF each
<1>5. Covers(todo, outs)
  BY <1>3, <1>4
<1> HIDE DEF todo
<1>6. QED
  BY <1>1, <1>5


\* Planning one recipe per output replaces the batch and the plan.
LEMMA PlannedCovers ==
    ASSUME TypeInv, NEW p \in Process, NEW outs, NEW want, NEW shared_first,
           Planned(p, outs, want, shared_first)
    PROVE  \E todo : /\ op'[p] = [op[p] EXCEPT !.outs = outs, !.want = want, !.todo = todo]
                     /\ pc[p] = "plan" /\ pc'[p] = "preflight" /\ Covers(todo, outs)
<1>1. op \in [Process -> OpType] /\ pc \in [Process -> Holding \cup {"idle", "waiting"}]
  BY DEF TypeInv, TypeOK
<1>2. PICK pos \in Orders(outs) :
         op' = [op EXCEPT ![p].outs = outs, ![p].want = want,
                          ![p].todo = PlanSteps(Of(p), outs, want, pos, shared_first)]
  BY DEF Planned
<1>3. Covers(PlanSteps(Of(p), outs, want, pos, shared_first), outs)
  BY PlanStepsCover
<1>4. pc[p] = "plan" /\ pc'[p] = "preflight"
  BY <1>1 DEF Planned
<1> DEFINE todo == PlanSteps(Of(p), outs, want, pos, shared_first)
<1> HIDE DEF todo
<1>5. op'[p] = [op[p] EXCEPT !.outs = outs, !.want = want, !.todo = todo]
  BY <1>1, <1>2 DEF todo
<1>6. QED
  BY <1>3, <1>4, <1>5 DEF todo

\* Every plan covers the batch it leaves.
Plans(p) ==
    \E base, outs, want, todo :
       /\ op'[p] = [op[p] EXCEPT !.base = base, !.outs = outs, !.want = want, !.todo = todo]
       /\ Covers(todo, outs)

LEMMA PlansCover ==
    ASSUME TypeInv, NEW p \in Process,
           PlanApply(p) \/ PlanRestore(p) \/ PlanRecover(p) \/ PlanSettings(p)
    PROVE  /\ pc[p] = "plan" /\ pc'[p] = "preflight" /\ op[p].kind # "stop"
           /\ Plans(p)
<1>1. op \in [Process -> OpType] /\ pc \in [Process -> Holding \cup {"idle", "waiting"}]
  BY DEF TypeInv, TypeOK
<1>2. op[p].kind # "stop"
  BY DEF PlanApply, PlanRestore, PlanRecover, PlanSettings, Applying
<1>3. CASE PlanApply(p)
  <2>1. PICK base, want, todo :
           /\ op' = [op EXCEPT ![p].base = base, ![p].want = want, ![p].todo = todo]
           /\ Covers(todo, op[p].outs)
    BY <1>3, PlanApplyCovers
  <2>2. pc[p] = "plan" /\ pc'[p] = "preflight"
    BY <1>1, <1>3 DEF PlanApply
  <2>3. op'[p] = [op[p] EXCEPT !.base = base, !.outs = op[p].outs, !.want = want, !.todo = todo]
    BY <1>1, <2>1 DEF OpType
  <2>4. Plans(p)
    <3> SUFFICES \E b, o, w, t : /\ op'[p] = [op[p] EXCEPT !.base = b, !.outs = o, !.want = w, !.todo = t]
                                 /\ Covers(t, o)
      BY DEF Plans
    <3> WITNESS base, op[p].outs, want, todo
    <3> QED
      BY <2>1, <2>3
  <2>5. QED
    BY <1>2, <2>2, <2>4
<1>4. CASE PlanRestore(p) \/ PlanRecover(p) \/ PlanSettings(p)
  <2>1. PICK outs, want, shared_first : Planned(p, outs, want, shared_first)
    <3>1. CASE PlanRestore(p)
      BY <3>1 DEF PlanRestore
    <3>2. CASE PlanRecover(p)
      BY <3>2 DEF PlanRecover
    <3>3. CASE PlanSettings(p)
      BY <3>3 DEF PlanSettings
    <3>4. QED
      BY <1>4, <3>1, <3>2, <3>3
  <2>2. PICK todo : /\ op'[p] = [op[p] EXCEPT !.outs = outs, !.want = want, !.todo = todo]
                    /\ pc[p] = "plan" /\ pc'[p] = "preflight" /\ Covers(todo, outs)
    BY <2>1, PlannedCovers
  <2>3. op'[p] = [op[p] EXCEPT !.base = op[p].base, !.outs = outs, !.want = want, !.todo = todo]
    BY <1>1, <2>2 DEF OpType
  <2>4. Plans(p)
    <3> SUFFICES \E b, o, w, t : /\ op'[p] = [op[p] EXCEPT !.base = b, !.outs = o, !.want = w, !.todo = t]
                                 /\ Covers(t, o)
      BY DEF Plans
    <3> WITNESS op[p].base, outs, want, todo
    <3> QED
      BY <2>2, <2>3
  <2>5. QED
    BY <1>2, <2>2, <2>4
<1>5. QED
  BY <1>3, <1>4

\* A process that runs no operation knows nothing.
LEMMA IdleBatch == Batch(NoOp, "idle")
  BY DEF Batch, NoOp, NoResults, Preparing, Verifying, Recovering, Compensating

\* Every step of a process keeps what its operation knows.
LEMMA BatchStep ==
    ASSUME TypeInv, NEW p \in Process, ProcessStep(p), StopOk(p), Batch(op[p], pc[p])
    PROVE  Batch(op'[p], pc'[p])
<1> DEFINE r == op[p]
<1>1. /\ op \in [Process -> OpType] /\ r \in OpType
      /\ pc \in [Process -> Holding \cup {"idle", "waiting"}]
  BY DEF TypeInv, TypeOK
<1> USE DEF Preparing, Verifying, Recovering, Compensating
<1>2. CASE RequestApply(p) \/ RequestRestore(p) \/ RequestStop(p)
  <2>1. PICK kind, outs, q, explicit : Request(p, kind, outs, q, explicit)
    BY <1>2 DEF RequestApply, RequestRestore, RequestStop
  <2>2. /\ op'[p].todo = {} /\ \A o \in Output : op'[p].result[o] = "none"
        /\ pc'[p] = "waiting"
    BY <1>1, <2>1 DEF Request, NoOp, NoResults
  <2>3. QED
    BY <2>2 DEF Batch
<1>3. CASE Acquire(p)
  <2>1. /\ op'[p].todo = r.todo /\ op'[p].result = r.result /\ op'[p].kind = r.kind
        /\ pc[p] = "waiting" /\ pc'[p] = IF r.kind = "stop" THEN "intent" ELSE "plan"
    BY <1>1, <1>3 DEF Acquire, OpType
  <2>2. QED
    BY <2>1 DEF Batch
<1>4. CASE AcquireTimeout(p) \/ Refuse(p) \/ Crash(p) \/ JournalFull(p) \/ Finish(p)
  <2>1. op'[p] = NoOp /\ pc'[p] = "idle"
    BY <1>1, <1>4 DEF AcquireTimeout, Refuse, Crash, JournalFull, Finish, Return
  <2>2. QED
    BY <2>1, IdleBatch
<1>5. CASE PlanApply(p) \/ PlanRestore(p) \/ PlanRecover(p) \/ PlanSettings(p)
  <2>1. pc[p] = "plan" /\ pc'[p] = "preflight" /\ r.kind # "stop" /\ Plans(p)
    BY <1>5, PlansCover
  <2>2. PICK base, outs, want, todo :
           /\ op'[p] = [op[p] EXCEPT !.base = base, !.outs = outs, !.want = want, !.todo = todo]
           /\ Covers(todo, outs)
    BY <2>1, Zenon DEF Plans
  <2>3. /\ op'[p].outs = outs /\ op'[p].todo = todo
        /\ op'[p].result = r.result /\ op'[p].tried = r.tried
    BY <1>1, <2>2 DEF OpType
  <2>4. QED
    BY <2>1, <2>2, <2>3 DEF Batch, Covers
<1>6. CASE RecordIntent(p)
  <2>1. CASE Return(p)
    BY <1>1, <2>1, IdleBatch DEF Return
  <2>2. CASE pc' = [pc EXCEPT ![p] = "preflight"] /\ op' = op
    BY <1>1, <1>6, <2>2 DEF RecordIntent, Batch
  <2>3. QED
    BY <1>6, <2>1, <2>2 DEF RecordIntent
<1>7. CASE Preflight(p)
  <2>1. /\ op'[p].todo = r.todo /\ op'[p].result = r.result /\ op'[p].kind = r.kind
        /\ op'[p].outs = r.outs /\ op'[p].tried = r.tried
        /\ pc[p] = "preflight" /\ pc'[p] = "revalidate"
    BY <1>1, <1>7 DEF Preflight, OpType
  <2>2. QED
    BY <2>1 DEF Batch
<1>8. CASE PreflightStop(p)
  <2> DEFINE On(b) == {o \in op[p].outs : Owners(Of(p), o) = {b}}
  <2>1. /\ op'[p].todo = {Stop(b, On(b), 1) : b \in {x \in Backend : On(x) # {}}}
        /\ op'[p].result = r.result /\ op'[p].kind = r.kind /\ op'[p].outs = r.outs
        /\ pc[p] = "preflight" /\ pc'[p] = "revalidate" /\ r.kind = "stop"
    BY <1>1, <1>8 DEF PreflightStop, OpType
  <2>2. \A b : Stop(b, On(b), 1).scope \subseteq r.outs
    BY DEF Stop
  <2> HIDE DEF On
  <2>3. \A a \in op'[p].todo : a.scope \subseteq r.outs
    BY <2>1, <2>2
  <2>4. QED
    BY <2>1, <2>3 DEF Batch
<1>9. CASE Revalidate(p) \/ Recheck(p)
  <2>1. op'[p] = r /\ pc[p] \in Preparing /\ pc'[p] \in Preparing
    BY <1>1, <1>9 DEF Revalidate, Recheck
  <2>2. QED
    BY <2>1 DEF Batch
<1>10. CASE JournalBegin(p)
  <2>1. /\ op'[p].todo = r.todo /\ op'[p].result = r.result /\ op'[p].kind = r.kind
        /\ op'[p].outs = r.outs /\ op'[p].tried = r.tried
        /\ pc[p] = "begin" /\ pc'[p] = "recheck"
    BY <1>1, <1>10 DEF JournalBegin, OpType
  <2>2. QED
    BY <2>1 DEF Batch
<1>11. CASE ExecuteOk(p)
  <2>1. PICK a \in r.todo :
           op' = [op EXCEPT ![p].todo = @ \ {a}, ![p].tried = Attempted(p, a)]
    BY <1>11 DEF ExecuteOk, NextAction
  <2>2. /\ op'[p].todo = r.todo \ {a} /\ op'[p].tried = Attempted(p, a)
        /\ op'[p].result = r.result /\ op'[p].kind = r.kind /\ op'[p].outs = r.outs
        /\ pc[p] = "execute" /\ pc'[p] = "execute"
    BY <1>1, <1>11, <2>1 DEF ExecuteOk, OpType
  <2>3. \A o \in Output : IF o \in a.scope THEN Attempted(p, a)[o] # {}
                          ELSE Attempted(p, a)[o] = r.tried[o]
    BY DEF Attempted
  <2>4. r.outs \subseteq Output
    BY <1>1 DEF OpType
  <2>5. QED
    BY <2>2, <2>3, <2>4 DEF Batch
<1>12. CASE ActionRefused(p) \/ StopFails(p) \/ ApplyFails(p)
  <2>1. /\ op'[p].result = r.result /\ op'[p].kind = r.kind /\ op'[p].outs = r.outs
        /\ pc[p] = "execute"
        /\ \/ r.kind # "stop" /\ pc'[p] = "compensate"
           \/ r.kind = "stop" /\ pc'[p] = "observe"
    <3>1. CASE ActionRefused(p)
      BY <1>1, <3>1 DEF ActionRefused, AfterFailure, OpType
    <3>2. CASE StopFails(p)
      BY <1>1, <3>2 DEF StopFails, AfterFailure, OpType
    <3>3. CASE ApplyFails(p)
      <4>1. \E a \in r.todo : a.act = "apply"
        BY <3>3 DEF ApplyFails, NextAction
      <4>2. r.kind # "stop"
        BY <4>1 DEF StopOk
      <4>3. QED
        BY <1>1, <3>3, <4>2 DEF ApplyFails, OpType
    <3>4. QED
      BY <1>12, <3>1, <3>2, <3>3
  <2>2. r.outs \subseteq Output
    BY <1>1 DEF OpType
  <2>3. QED
    BY <2>1, <2>2 DEF Batch
<1>13. CASE Executed(p)
  <2>1. CASE r.kind = "stop"
    BY <1>1, <1>13, <2>1 DEF Executed, Batch
  <2>2. CASE r.kind # "stop"
    <3>1. /\ op'[p].left = r.outs /\ op'[p].outs = r.outs /\ op'[p].tried = r.tried
          /\ op'[p].result = r.result /\ r.todo = {}
          /\ pc[p] = "execute" /\ pc'[p] = "verify"
      BY <1>1, <1>13, <2>2 DEF Executed, OpType
    <3>2. QED
      BY <2>2, <3>1 DEF Batch
  <2>3. QED
    BY <2>1, <2>2
<1>14. CASE VerifyOutput(p)
  <2>1. /\ op'[p].left \subseteq r.left /\ op'[p].outs = r.outs /\ op'[p].tried = r.tried
        /\ op'[p].result = r.result /\ pc[p] = "verify" /\ pc'[p] = "verify"
    BY <1>1, <1>14 DEF VerifyOutput, OpType
  <2>2. QED
    BY <2>1 DEF Batch
<1>15. CASE Verified(p) \/ Commit(p)
  <2>1. op'[p] = r /\ r.left = {} /\ pc[p] \in Verifying /\ pc'[p] \in {"commit", "arm"}
    BY <1>1, <1>15 DEF Verified, Commit, Batch
  <2>2. QED
    BY <2>1 DEF Batch
<1>16. CASE VerifyOrCommitFails(p)
  <2>1. /\ op'[p].outs = r.outs /\ op'[p].result = r.result /\ op'[p].kind = r.kind
        /\ pc[p] \in Verifying /\ pc'[p] = "compensate"
    BY <1>1, <1>16 DEF VerifyOrCommitFails, OpType
  <2>2. r.kind # "stop" /\ r.outs \subseteq Output
    BY <1>1, <2>1 DEF StopOk, OpType
  <2>3. QED
    BY <2>1, <2>2 DEF Batch
<1>17. CASE Arm(p)
  <2>1. /\ op'[p].outs = r.outs /\ op'[p].outcome = "Applied"
        /\ \A o \in Output : op'[p].result[o] \in {"Applied", "none"}
        /\ pc'[p] = "finish"
    BY <1>1, <1>17 DEF Arm, OpType
  <2>2. r.outs \subseteq Output
    BY <1>1 DEF OpType
  <2>3. QED
    BY <2>1, <2>2 DEF Batch
<1>18. CASE ReportOutput(p)
  <2>1. PICK o \in r.outs :
          /\ r.result[o] = "none"
          /\ op' = [op EXCEPT ![p].result[o] =
                       IF r.tried[o] = {} THEN "Unchanged"
                       ELSE IF o \in r.unsure THEN "Unknown" ELSE "RecoveryFailed"]
    BY <1>18 DEF ReportOutput
  <2> DEFINE res == IF r.tried[o] = {} THEN "Unchanged"
                    ELSE IF o \in r.unsure THEN "Unknown" ELSE "RecoveryFailed"
  <2>2. /\ op'[p].outs = r.outs /\ op'[p].kind = r.kind /\ op'[p].tried = r.tried
        /\ op'[p].result = [r.result EXCEPT ![o] = res]
        /\ pc[p] = "compensate" /\ pc'[p] = "compensate"
    BY <1>1, <1>18, <2>1 DEF ReportOutput, OpType
  <2>3. res \in {"Unchanged", "Unknown", "RecoveryFailed"} /\ (res = "Unchanged" => r.tried[o] = {})
    OBVIOUS
  <2> HIDE DEF res
  <2>4. r.outs \subseteq Output /\ r.result \in [Output -> SwitchOutcome]
    BY <1>1 DEF OpType
  <2>5. QED
    BY <2>2, <2>3, <2>4 DEF Batch
<1>19. CASE StartRecovery(p)
  <2>1. PICK o \in r.outs \ r.unsure :
          /\ r.result[o] = "none" /\ r.tried[o] # {}
          /\ op' = [op EXCEPT ![p].cur = o, ![p].todo = {Stop(b, {o}, 1) : b \in r.tried[o]}]
    BY <1>19 DEF StartRecovery
  <2>2. /\ op'[p].cur = o /\ op'[p].todo = {Stop(b, {o}, 1) : b \in r.tried[o]}
        /\ op'[p].outs = r.outs /\ op'[p].unsure = r.unsure
        /\ op'[p].result = r.result /\ op'[p].tried = r.tried /\ op'[p].kind = r.kind
        /\ pc[p] = "compensate" /\ pc'[p] = "retire"
    BY <1>1, <1>19, <2>1 DEF StartRecovery, OpType
  <2>3. \A b : Stop(b, {o}, 1).scope = {o}
    BY DEF Stop
  <2>4. \A a \in op'[p].todo : a.scope = {o}
    BY <2>2, <2>3
  <2>5. o \in r.outs \ r.unsure /\ r.result[o] = "none" /\ r.tried[o] # {}
    BY <2>1
  <2>6. QED
    BY <2>2, <2>4, <2>5 DEF Batch
<1>20. CASE RetireOk(p)
  <2>1. /\ op'[p].todo \subseteq r.todo /\ op'[p].cur = r.cur
        /\ op'[p].outs = r.outs /\ op'[p].unsure = r.unsure
        /\ op'[p].result = r.result /\ op'[p].tried = r.tried /\ op'[p].kind = r.kind
        /\ pc[p] = "retire" /\ pc'[p] = "retire"
    BY <1>1, <1>20 DEF RetireOk, OpType
  <2>2. QED
    BY <2>1 DEF Batch
<1>21. ASSUME NEW outcome \in {"RecoveryFailed", "RestoredPrevious"}, Recovered(p, outcome),
              pc[p] \in Recovering
       PROVE  Batch(op'[p], pc'[p])
  <2>1. /\ op'[p].result = [r.result EXCEPT ![r.cur] = outcome]
        /\ op'[p].outs = r.outs /\ op'[p].kind = r.kind /\ op'[p].tried = r.tried
        /\ pc'[p] = "compensate"
    BY <1>1, <1>21 DEF Recovered, OpType
  <2>2. r.outs \subseteq Output /\ r.result \in [Output -> SwitchOutcome]
    BY <1>1 DEF OpType
  <2>3. QED
    BY <1>21, <2>1, <2>2 DEF Batch
<1>22. CASE RetireFails(p) \/ ConfirmRestored(p) \/ ConfirmFails(p)
  BY <1>21, <1>22 DEF RetireFails, ConfirmRestored, ConfirmFails
<1>23. CASE Retired(p)
  <2>1. op'[p] = r /\ pc[p] = "retire" /\ pc'[p] \in {"confirm", "reapply"}
    BY <1>1, <1>23 DEF Retired
  <2>2. QED
    BY <2>1 DEF Batch
<1>24. CASE Reapply(p)
  <2>1. CASE op' = op /\ pc' = [pc EXCEPT ![p] = "confirm"]
    <3>1. op'[p] = r /\ pc[p] = "reapply" /\ pc'[p] = "confirm"
      BY <1>1, <1>24, <2>1 DEF Reapply
    <3>2. QED
      BY <3>1 DEF Batch
  <2>2. QED
    BY <1>21, <1>24, <2>1 DEF Reapply
<1>25. CASE Compensated(p)
  <2>1. /\ op'[p].outcome = Summary(p) /\ op'[p].outs = r.outs /\ op'[p].kind = r.kind
        /\ op'[p].tried = r.tried /\ op'[p].result = r.result
        /\ pc[p] = "compensate" /\ pc'[p] = "finish"
        /\ \A o \in r.outs : r.result[o] # "none"
    BY <1>1, <1>25 DEF Compensated, OpType
  <2>2. r.outs \subseteq Output
    BY <1>1 DEF OpType
  <2>3. Summary(p) = "Unchanged" => \A o \in r.outs : r.tried[o] = {}
    BY DEF Summary
  <2>4. Summary(p) = "RestoredPrevious" =>
           \A o \in r.outs : r.result[o] \notin {"RecoveryFailed", "Unknown"}
    BY DEF Summary
  <2>5. QED
    BY <2>1, <2>2, <2>3, <2>4 DEF Batch
<1>26. CASE ObserveStopped(p)
  <2>1. /\ op'[p].outs = r.outs /\ op'[p].outcome \in {"Partial", "Stopped"}
        /\ \A o \in Output : op'[p].result[o] \in {"none", "Stopped", "Unknown"}
        /\ pc'[p] = "finish"
    BY <1>1, <1>26 DEF ObserveStopped, OpType
  <2>2. r.outs \subseteq Output
    BY <1>1 DEF OpType
  <2>3. QED
    BY <2>1, <2>2 DEF Batch
<1>27. QED
  BY <1>2, <1>3, <1>4, <1>5, <1>6, <1>7, <1>8, <1>9, <1>10, <1>11, <1>12, <1>13, <1>14,
     <1>15, <1>16, <1>17, <1>18, <1>19, <1>20, <1>22, <1>23, <1>24, <1>25, <1>26
     DEF ProcessStep, Advance


-----------------------------------------------------------------------------
(* What an operation knows of the displays.                                *)

\* Before and after the preflight has looked at the displays.
Early == {"plan", "intent", "preflight"}
Late == Holding \ Early

\* Previous, of the locals r.
Back(r, o) == IF r.before[o] = None THEN {} ELSE {r.before[o]}

\* On displays w, of which others have changed those in d, every output shows what it
\* did under the new lock while nothing was attempted on it, unless two backends
\* rendered on it outside the batch: the daemon may have let go of such an output.
Untouched(r, c, w, d) ==
    /\ c \in Early => \A o \in Output \ d : w[o] = r.start[o]
    /\ c \in Late => \A o \in Output \ d :
          Sole(r.start, o) /\ (o \notin r.outs \/ (r.kind # "stop" /\ r.tried[o] = {}))
             => w[o] = r.start[o]
    /\ c \in Late /\ r.kind # "stop" =>
          \A o \in r.outs \ d : r.tried[o] = {} => Sole(r.start, o)

\* What has been verified, restored or reported is shown.
Reported(r, c, w, d) ==
    /\ c \in Verifying => \A o \in r.outs \ (d \cup r.left) : w[o] = {r.want[o]}
    /\ c \in Compensating \cup {"finish"} =>
          \A o \in r.outs \ d : r.result[o] = "RestoredPrevious" => w[o] = Back(r, o)
    /\ c = "finish" =>
          \A o \in r.outs \ d : /\ r.result[o] = "Applied" => w[o] = {r.want[o]}
                                /\ r.result[o] = "Stopped" => w[o] = {}

Shows(r, c, w, d) == Untouched(r, c, w, d) /\ Reported(r, c, w, d)

\* Where displays differ only on outputs that count as disturbed, nothing is lost.
LEMMA DisturbedShows ==
    ASSUME NEW r, NEW c, NEW w, NEW v, NEW d, NEW e, r.outs \subseteq Output,
           d \subseteq e, \A o \in Output \ e : v[o] = w[o], Shows(r, c, w, d)
    PROVE  Shows(r, c, v, e)
  BY DEF Shows, Untouched, Reported

\* Who holds no lock knows nothing.
LEMMA OutsideShows ==
    ASSUME NEW r, NEW c \in {"idle", "waiting"}, NEW w, NEW d
    PROVE  Shows(r, c, w, d)
  BY DEF Shows, Untouched, Reported, Early, Late, Holding, Verifying, Compensating, Recovering

\* Every step of a process keeps what it has not attempted as it was.
LEMMA UntouchedStep ==
    ASSUME TypeInv, NEW p \in Process, ProcessStep(p), ReportOk(p), Batch(op[p], pc[p]),
           Untouched(op[p], pc[p], shown[Of(p)], disturbed[Of(p)])
    PROVE  Untouched(op'[p], pc'[p], shown'[Of(p)], disturbed'[Of(p)])
<1> DEFINE r == op[p]
           s == Of(p)
           w == shown[s]
           d == disturbed[s]
<1>1. /\ op \in [Process -> OpType] /\ r \in OpType /\ r.outs \subseteq Output
      /\ pc \in [Process -> Holding \cup {"idle", "waiting"}]
      /\ s \in Session /\ shown \in [Session -> World] /\ w \in World
      /\ disturbed \in [Session -> SUBSET Output]
  BY SessionOfProcess DEF TypeInv, TypeOK, OpType, Of, World
<1>2. ASSUME op'[p].outs = r.outs, op'[p].kind = r.kind, op'[p].start = r.start,
             pc[p] \in Late, pc'[p] \in Late,
             \A o \in Output \ disturbed'[s] :
                o \notin r.outs \/ (r.kind # "stop" /\ op'[p].tried[o] = {}) =>
                   /\ o \notin d
                   /\ o \in r.outs => r.tried[o] = {}
                   /\ Sole(w, o) => shown'[s][o] = w[o]
      PROVE  Untouched(op'[p], pc'[p], shown'[s], disturbed'[s])
  <2>1. ASSUME NEW o \in Output \ disturbed'[s], Sole(r.start, o),
               o \notin r.outs \/ (r.kind # "stop" /\ op'[p].tried[o] = {})
        PROVE  shown'[s][o] = r.start[o]
    <3>1. w[o] = r.start[o]
      BY <1>2, <2>1 DEF Untouched
    <3>2. Sole(w, o)
      BY <2>1, <3>1 DEF Sole
    <3>3. QED
      BY <1>2, <2>1, <3>1, <3>2
  <2>2. ASSUME r.kind # "stop", NEW o \in r.outs \ disturbed'[s], op'[p].tried[o] = {}
        PROVE  Sole(r.start, o)
    BY <1>1, <1>2, <2>2 DEF Untouched
  <2>3. pc'[p] \notin Early
    BY <1>2 DEF Late
  <2>4. QED
    BY <1>2, <2>1, <2>2, <2>3 DEF Untouched
<1>2q. ASSUME op'[p].outs = r.outs, op'[p].kind = r.kind, op'[p].start = r.start,
              op'[p].tried = r.tried, pc[p] \in Late, pc'[p] \in Late,
              shown' = shown, disturbed' = disturbed
       PROVE  Untouched(op'[p], pc'[p], shown'[s], disturbed'[s])
  BY <1>1, <1>2, <1>2q
<1>3. CASE RequestApply(p) \/ RequestRestore(p) \/ RequestStop(p)
  <2>1. pc'[p] = "waiting"
    BY <1>1, <1>3 DEF RequestApply, RequestRestore, RequestStop, Request
  <2>2. QED
    BY <2>1, OutsideShows DEF Shows
<1>4. CASE Acquire(p)
  <2>1. op'[p].start = w /\ shown' = shown /\ pc'[p] \in {"intent", "plan"}
    BY <1>1, <1>4 DEF Acquire, OpType
  <2>2. QED
    BY <2>1 DEF Untouched, Early, Late
<1>5. CASE AcquireTimeout(p) \/ Refuse(p) \/ Crash(p) \/ JournalFull(p) \/ Finish(p)
  <2>1. pc'[p] = "idle"
    BY <1>1, <1>5 DEF AcquireTimeout, Refuse, Crash, JournalFull, Finish, Return
  <2>2. QED
    BY <2>1, OutsideShows DEF Shows
<1>6. CASE PlanApply(p) \/ PlanRestore(p) \/ PlanRecover(p) \/ PlanSettings(p)
  <2>1. pc[p] = "plan" /\ pc'[p] = "preflight" /\ Plans(p)
    BY <1>6, PlansCover
  <2>2. op'[p].start = r.start
    <3>1. PICK base, outs, want, todo :
            /\ op'[p] = [op[p] EXCEPT !.base = base, !.outs = outs, !.want = want, !.todo = todo]
            /\ Covers(todo, outs)
      BY <2>1, Zenon DEF Plans
    <3>2. QED
      BY <1>1, <3>1 DEF OpType
  <2>3. shown' = shown /\ disturbed' = disturbed
    BY <1>6 DEF PlanApply, PlanRestore, PlanRecover, PlanSettings, Planned, world
  <2>4. QED
    BY <2>1, <2>2, <2>3 DEF Untouched, Early, Late
<1>7. CASE RecordIntent(p)
  <2>1. CASE Return(p)
    BY <1>1, <2>1, OutsideShows DEF Return, Shows
  <2>2. CASE pc' = [pc EXCEPT ![p] = "preflight"] /\ UNCHANGED <<op, lock, disturbed>>
    <3>1. /\ op'[p] = r /\ pc[p] = "intent" /\ pc'[p] = "preflight"
          /\ shown' = shown /\ disturbed' = disturbed
      BY <1>1, <1>7, <2>2 DEF RecordIntent
    <3>2. QED
      BY <3>1 DEF Untouched, Early, Late
  <2>3. QED
    BY <1>7, <2>1, <2>2 DEF RecordIntent
<1>8. CASE Preflight(p) \/ PreflightStop(p)
  <2>1. /\ op'[p].outs = r.outs /\ op'[p].kind = r.kind /\ op'[p].start = r.start
        /\ op'[p].tried = r.tried /\ pc[p] = "preflight" /\ pc'[p] = "revalidate"
        /\ shown' = shown /\ disturbed' = disturbed
    BY <1>1, <1>8 DEF Preflight, PreflightStop, world, OpType
  <2>2. \A o \in Output \ d : w[o] = r.start[o]
    BY <2>1 DEF Untouched, Early
  <2>3. r.kind # "stop" => \A o \in r.outs : Sole(w, o)
    <3>1. r.kind # "stop" => \A o \in r.outs : ~(Cardinality(OwnersIn(w, o)) > 1)
      BY <1>8 DEF Preflight, PreflightStop, Recoverable, Ambiguous, Owners
    <3>2. QED
      BY <1>1, <3>1, SoleOwner
  <2>4. r.kind # "stop" => \A o \in r.outs \ d : Sole(r.start, o)
    BY <1>1, <2>2, <2>3 DEF Sole
  <2>5. QED
    BY <2>1, <2>2, <2>4 DEF Untouched, Early, Late
<1>9. CASE Revalidate(p) \/ Recheck(p) \/ Verified(p) \/ Commit(p) \/ Retired(p)
  <2>1. /\ op'[p] = r /\ pc[p] \in Late /\ pc'[p] \in Late
        /\ shown' = shown /\ disturbed' = disturbed
    BY <1>1, <1>9 DEF Revalidate, Recheck, Verified, Commit, Retired, world, Late, Holding, Early
  <2>2. QED
    BY <1>2q, <2>1
<1>10. CASE JournalBegin(p) \/ ActionRefused(p) \/ Executed(p)
  <2>1. /\ op'[p].outs = r.outs /\ op'[p].kind = r.kind /\ op'[p].start = r.start
        /\ op'[p].tried = r.tried
    <3>1. CASE JournalBegin(p)
      BY <1>1, <3>1 DEF JournalBegin, OpType
    <3>2. CASE ActionRefused(p)
      BY <1>1, <3>2 DEF ActionRefused, OpType
    <3>3. CASE Executed(p)
      BY <1>1, <3>3 DEF Executed, OpType
    <3>4. QED
      BY <1>10, <3>1, <3>2, <3>3
  <2>2. pc[p] \in Late /\ pc'[p] \in Late /\ shown' = shown /\ disturbed' = disturbed
    BY <1>1, <1>10 DEF JournalBegin, ActionRefused, Executed, AfterFailure, world, Late,
                       Holding, Early
  <2>3. QED
    BY <1>2q, <2>1, <2>2
<1>11. CASE VerifyOrCommitFails(p) \/ Arm(p) \/ StartRecovery(p) \/ ConfirmFails(p)
            \/ Compensated(p) \/ ReportOutput(p)
  <2>1. /\ op'[p].outs = r.outs /\ op'[p].kind = r.kind /\ op'[p].start = r.start
        /\ op'[p].tried = r.tried
    <3>1. CASE VerifyOrCommitFails(p) \/ Arm(p)
      BY <1>1, <3>1 DEF VerifyOrCommitFails, Arm, OpType
    <3>2. CASE StartRecovery(p)
      BY <1>1, <3>2 DEF StartRecovery, OpType
    <3>3. CASE ConfirmFails(p)
      BY <1>1, <3>3 DEF ConfirmFails, Recovered, OpType
    <3>4. CASE Compensated(p)
      BY <1>1, <3>4 DEF Compensated, OpType
    <3>5. CASE ReportOutput(p)
      BY <1>1, <3>5 DEF ReportOutput, OpType
    <3>6. QED
      BY <1>11, <3>1, <3>2, <3>3, <3>4, <3>5
  <2>2. pc[p] \in Late /\ pc'[p] \in Late /\ shown' = shown /\ disturbed' = disturbed
    BY <1>1, <1>11 DEF VerifyOrCommitFails, Arm, StartRecovery, ConfirmFails, Compensated,
                       ReportOutput, Recovered, world, Late, Holding, Early
  <2>3. QED
    BY <1>2q, <2>1, <2>2
<1>12. CASE ExecuteOk(p) \/ StopFails(p) \/ ApplyFails(p)
  <2>1. PICK a \in r.todo : op'[p].tried = Attempted(p, a) /\ Spared(w, shown'[s], a.scope)
    BY <1>12, RunsSpare DEF Runs
  <2>2. /\ op'[p].outs = r.outs /\ op'[p].kind = r.kind /\ op'[p].start = r.start
    <3>1. CASE ExecuteOk(p)
      BY <1>1, <3>1 DEF ExecuteOk, OpType
    <3>2. CASE StopFails(p)
      BY <1>1, <3>2 DEF StopFails, OpType
    <3>3. CASE ApplyFails(p)
      BY <1>1, <3>3 DEF ApplyFails, OpType
    <3>4. QED
      BY <1>12, <3>1, <3>2, <3>3
  <2>3. /\ pc[p] = "execute" /\ pc[p] \in Late /\ pc'[p] \in Late /\ disturbed' = disturbed
    BY <1>1, <1>12 DEF ExecuteOk, StopFails, ApplyFails, AfterFailure, Late, Holding, Early
  <2>4. a.scope \subseteq r.outs
    BY <2>3 DEF Batch, Preparing
  <2>5. \A o \in Output : IF o \in a.scope THEN op'[p].tried[o] # {}
                          ELSE op'[p].tried[o] = r.tried[o]
    BY <2>1 DEF Attempted
  <2>6. QED
    BY <1>1, <2>1, <2>2, <2>3, <2>4, <2>5, <1>2 DEF Spared
<1>13. CASE RetireOk(p) \/ RetireFails(p) \/ Reapply(p)
  <2>1. /\ r.cur \in r.outs /\ r.tried[r.cur] # {}
        /\ pc[p] = "retire" => \A a \in r.todo : a.scope = {r.cur}
    BY <1>13 DEF RetireOk, RetireFails, Reapply, Batch, Recovering
  <2>2. Spared(w, shown'[s], {r.cur})
    BY <1>13, <2>1, RunsSpare DEF Runs, RetireOk, RetireFails
  <2>3. /\ op'[p].outs = r.outs /\ op'[p].kind = r.kind /\ op'[p].start = r.start
        /\ op'[p].tried = r.tried
    <3>1. CASE RetireOk(p)
      BY <1>1, <3>1 DEF RetireOk, OpType
    <3>2. CASE RetireFails(p)
      BY <1>1, <3>2 DEF RetireFails, Recovered, OpType
    <3>3. CASE Reapply(p)
      BY <1>1, <3>3 DEF Reapply, Recovered, OpType
    <3>4. QED
      BY <1>13, <3>1, <3>2, <3>3
  <2>4. /\ pc[p] \in Late /\ pc'[p] \in Late /\ disturbed' = disturbed
    BY <1>1, <1>13 DEF RetireOk, RetireFails, Reapply, Recovered, Late, Holding, Early
  <2>5. QED
    BY <1>1, <2>1, <2>2, <2>3, <2>4, <1>2 DEF Spared
<1>14. CASE VerifyOutput(p) \/ ConfirmRestored(p)
  <2>1. PICK x \in r.outs : r.tried[x] # {} /\ disturbed'[s] = d \ {x}
    <3>1. CASE VerifyOutput(p)
      <4>1. PICK x \in r.left : Seen(p, {x})
        BY <3>1 DEF VerifyOutput
      <4>2. x \in r.outs /\ r.tried[x] # {}
        BY <3>1 DEF VerifyOutput, Batch, Verifying
      <4>3. QED
        BY <1>1, <4>1, <4>2 DEF Seen
    <3>2. CASE ConfirmRestored(p)
      <4>1. r.cur \in r.outs /\ r.tried[r.cur] # {}
        BY <3>2 DEF ConfirmRestored, Batch, Recovering
      <4>2. QED
        BY <1>1, <3>2, <4>1 DEF ConfirmRestored, Seen
    <3>3. QED
      BY <1>14, <3>1, <3>2
  <2>2. /\ op'[p].outs = r.outs /\ op'[p].kind = r.kind /\ op'[p].start = r.start
        /\ op'[p].tried = r.tried
    <3>1. CASE VerifyOutput(p)
      BY <1>1, <3>1 DEF VerifyOutput, OpType
    <3>2. CASE ConfirmRestored(p)
      BY <1>1, <3>2 DEF ConfirmRestored, Recovered, OpType
    <3>3. QED
      BY <1>14, <3>1, <3>2
  <2>3. pc[p] \in Late /\ pc'[p] \in Late /\ shown' = shown
    BY <1>1, <1>14 DEF VerifyOutput, ConfirmRestored, Recovered, Late, Holding, Early
  <2>4. QED
    BY <1>1, <2>1, <2>2, <2>3, <1>2
<1>15. CASE ObserveStopped(p)
  <2>1. r.kind = "stop"
    BY <1>15 DEF ObserveStopped, ReportOk
  <2>2. op'[p].outs = r.outs /\ op'[p].kind = r.kind /\ op'[p].start = r.start
    BY <1>1, <1>15 DEF ObserveStopped, OpType
  <2>3. /\ pc[p] \in Late /\ pc'[p] \in Late /\ shown' = shown
        /\ disturbed'[s] = d \ r.outs
    BY <1>1, <1>15 DEF ObserveStopped, Seen, Late, Holding, Early
  <2>4. QED
    BY <1>1, <2>1, <2>2, <2>3, <1>2
<1>16. QED
  BY <1>3, <1>4, <1>5, <1>6, <1>7, <1>8, <1>9, <1>10, <1>11, <1>12, <1>13, <1>14, <1>15
     DEF ProcessStep, Advance


\* Every step of a process keeps its reports true.
LEMMA ReportedStep ==
    ASSUME TypeInv, NEW p \in Process, ProcessStep(p), StopOk(p), Batch(op[p], pc[p]),
           Reported(op[p], pc[p], shown[Of(p)], disturbed[Of(p)])
    PROVE  Reported(op'[p], pc'[p], shown'[Of(p)], disturbed'[Of(p)])
<1> DEFINE r == op[p]
           s == Of(p)
           w == shown[s]
           d == disturbed[s]
<1>1. /\ op \in [Process -> OpType] /\ r \in OpType /\ r.outs \subseteq Output
      /\ pc \in [Process -> Holding \cup {"idle", "waiting"}]
      /\ s \in Session /\ shown \in [Session -> World] /\ w \in World
      /\ disturbed \in [Session -> SUBSET Output]
      /\ r.result \in [Output -> SwitchOutcome]
  BY SessionOfProcess DEF TypeInv, TypeOK, OpType, Of, World
<1> USE DEF Verifying, Compensating, Recovering
<1>2. ASSUME pc'[p] \notin Verifying \cup Compensating \cup {"finish"}
      PROVE  Reported(op'[p], pc'[p], shown'[s], disturbed'[s])
  BY <1>2 DEF Reported
<1>3. ASSUME pc'[p] = "compensate", op'[p].outs = r.outs, op'[p].result = r.result,
             pc[p] \notin Compensating \cup {"finish"}
      PROVE  Reported(op'[p], pc'[p], shown'[s], disturbed'[s])
  BY <1>1, <1>3 DEF Reported, Batch
<1>4. CASE \/ RequestApply(p) \/ RequestRestore(p) \/ RequestStop(p)
           \/ Acquire(p) \/ AcquireTimeout(p) \/ Refuse(p) \/ Crash(p)
           \/ JournalFull(p) \/ Finish(p)
  <2>1. pc'[p] \in {"idle", "waiting", "intent", "plan"}
    BY <1>1, <1>4 DEF RequestApply, RequestRestore, RequestStop, Request, Acquire,
                      AcquireTimeout, Refuse, Crash, JournalFull, Finish, Return
  <2>2. QED
    BY <1>2, <2>1
<1>5. CASE \/ PlanApply(p) \/ PlanRestore(p) \/ PlanRecover(p) \/ PlanSettings(p)
           \/ RecordIntent(p) \/ Preflight(p) \/ PreflightStop(p) \/ Revalidate(p)
           \/ JournalBegin(p) \/ Recheck(p) \/ ExecuteOk(p)
  <2>1. pc'[p] \in Preparing \cup {"idle"}
    BY <1>1, <1>5 DEF PlanApply, PlanRestore, PlanRecover, PlanSettings, Planned, RecordIntent,
                      Return, Preflight, PreflightStop, Revalidate, JournalBegin, Recheck,
                      ExecuteOk, Preparing
  <2>2. QED
    BY <1>2, <2>1 DEF Preparing
<1>6. CASE ActionRefused(p)
  <2>1. /\ pc'[p] \in {"observe", "compensate"} /\ pc[p] = "execute"
        /\ op'[p].outs = r.outs /\ op'[p].result = r.result
    BY <1>1, <1>6 DEF ActionRefused, AfterFailure, OpType
  <2>2. QED
    BY <1>2, <1>3, <2>1
<1>7. CASE StopFails(p)
  <2>1. /\ pc'[p] \in {"observe", "compensate"} /\ pc[p] = "execute"
        /\ op'[p].outs = r.outs /\ op'[p].result = r.result
    BY <1>1, <1>7 DEF StopFails, AfterFailure, OpType
  <2>2. QED
    BY <1>2, <1>3, <2>1
<1>8. CASE ApplyFails(p)
  <2>1. /\ pc'[p] = "compensate" /\ pc[p] = "execute"
        /\ op'[p].outs = r.outs /\ op'[p].result = r.result
    BY <1>1, <1>8 DEF ApplyFails, OpType
  <2>2. QED
    BY <1>3, <2>1
<1>9. CASE VerifyOrCommitFails(p)
  <2>1. /\ pc'[p] = "compensate" /\ pc[p] \in {"verify", "commit"}
        /\ op'[p].outs = r.outs /\ op'[p].result = r.result
    BY <1>1, <1>9 DEF VerifyOrCommitFails, OpType
  <2>2. QED
    BY <1>3, <2>1
<1>10. CASE Executed(p)
  <2>1. CASE r.kind = "stop"
    BY <1>1, <1>2, <1>10, <2>1 DEF Executed
  <2>2. CASE r.kind # "stop"
    <3>1. pc'[p] = "verify" /\ op'[p].left = r.outs /\ op'[p].outs = r.outs
      BY <1>1, <1>10, <2>2 DEF Executed, OpType
    <3>2. QED
      BY <3>1 DEF Reported
  <2>3. QED
    BY <2>1, <2>2
<1>11. CASE VerifyOutput(p)
  <2>1. PICK o \in r.left :
          /\ w[o] = {r.want[o]}
          /\ op' = [op EXCEPT ![p].left = @ \ {o}]
          /\ Seen(p, {o})
    BY <1>11 DEF VerifyOutput
  <2>2. /\ op'[p].left = r.left \ {o} /\ op'[p].outs = r.outs /\ op'[p].want = r.want
        /\ pc[p] = "verify" /\ pc'[p] = "verify"
        /\ shown' = shown /\ disturbed'[s] = d \ {o}
    BY <1>1, <1>11, <2>1 DEF VerifyOutput, Seen, OpType
  <2>3. QED
    BY <2>1, <2>2 DEF Reported
<1>12. CASE Verified(p) \/ Commit(p)
  <2>1. /\ op'[p] = r /\ pc[p] \in Verifying /\ pc'[p] \in Verifying
        /\ shown' = shown /\ disturbed' = disturbed
    BY <1>1, <1>12 DEF Verified, Commit, world
  <2>2. QED
    BY <2>1 DEF Reported
<1>13. CASE Arm(p)
  <2>1. /\ op'[p].outs = r.outs /\ op'[p].want = r.want
        /\ \A o \in Output : op'[p].result[o] \in {"Applied", "none"}
        /\ pc[p] = "arm" /\ pc'[p] = "finish"
        /\ shown' = shown /\ disturbed' = disturbed
    BY <1>1, <1>13 DEF Arm, OpType, world
  <2>2. \A o \in r.outs \ d : w[o] = {r.want[o]}
    BY <2>1 DEF Reported, Batch
  <2>3. \A o \in r.outs : op'[p].result[o] # "RestoredPrevious" /\ op'[p].result[o] # "Stopped"
    BY <1>1, <2>1
  <2>4. QED
    BY <2>1, <2>2, <2>3 DEF Reported
<1>14. CASE ReportOutput(p)
  <2>1. PICK o \in r.outs, c \in {"Unchanged", "Unknown", "RecoveryFailed"} :
           op' = [op EXCEPT ![p].result[o] = c]
    BY <1>14 DEF ReportOutput
  <2>2. /\ op'[p].outs = r.outs /\ op'[p].before = r.before
        /\ op'[p].result = [r.result EXCEPT ![o] = c]
        /\ pc[p] = "compensate" /\ pc'[p] = "compensate"
        /\ shown' = shown /\ disturbed' = disturbed
    BY <1>1, <1>14, <2>1 DEF ReportOutput, OpType, world
  <2>3. ASSUME NEW x \in r.outs \ d, op'[p].result[x] = "RestoredPrevious"
        PROVE  w[x] = Back(op'[p], x)
    <3>1. r.result[x] = "RestoredPrevious"
      BY <1>1, <2>2, <2>3
    <3>2. w[x] = Back(r, x)
      BY <2>2, <2>3, <3>1 DEF Reported
    <3>3. QED
      BY <2>2, <3>2 DEF Back
  <2>4. QED
    BY <2>2, <2>3 DEF Reported
<1>15. CASE StartRecovery(p)
  <2>1. /\ op'[p].outs = r.outs /\ op'[p].before = r.before /\ op'[p].result = r.result
        /\ pc[p] = "compensate" /\ pc'[p] = "retire"
        /\ shown' = shown /\ disturbed' = disturbed
    BY <1>1, <1>15 DEF StartRecovery, OpType, world
  <2>2. QED
    BY <2>1 DEF Reported, Back
<1>16. CASE Retired(p)
  <2>1. /\ op'[p] = r /\ pc[p] = "retire" /\ pc'[p] \in {"confirm", "reapply"}
        /\ shown' = shown /\ disturbed' = disturbed
    BY <1>1, <1>16 DEF Retired, world
  <2>2. QED
    BY <2>1 DEF Reported
<1>17. ASSUME pc[p] \in Recovering, pc'[p] \in Compensating, disturbed' = disturbed,
              Spared(w, shown'[s], {r.cur}), op'[p].outs = r.outs, op'[p].before = r.before,
              op'[p].result \in {r.result, [r.result EXCEPT ![r.cur] = "RecoveryFailed"]}
       PROVE  Reported(op'[p], pc'[p], shown'[s], disturbed'[s])
  <2>1. SUFFICES ASSUME NEW o \in r.outs \ d, op'[p].result[o] = "RestoredPrevious"
                 PROVE  shown'[s][o] = Back(r, o)
    BY <1>17 DEF Reported, Back
  <2>2. r.result[r.cur] = "none" /\ r.cur \in r.outs
    BY <1>17 DEF Batch
  <2>3. o # r.cur /\ r.result[o] = "RestoredPrevious"
    BY <1>1, <1>17, <2>1, <2>2
  <2>4. w[o] = Back(r, o)
    BY <1>17, <2>3 DEF Reported
  <2>5. Sole(w, o)
    BY <2>4 DEF Sole, Back
  <2>6. QED
    BY <1>1, <1>17, <2>3, <2>4, <2>5 DEF Spared
<1>18. CASE RetireOk(p) \/ RetireFails(p) \/ Reapply(p)
  <2>1. pc[p] = "retire" => \A a \in r.todo : a.scope = {r.cur}
    BY <1>18 DEF Batch
  <2>2. Spared(w, shown'[s], {r.cur})
    BY <1>18, <2>1, RunsSpare DEF Runs, RetireOk, RetireFails
  <2>3. /\ op'[p].outs = r.outs /\ op'[p].before = r.before
        /\ op'[p].result \in {r.result, [r.result EXCEPT ![r.cur] = "RecoveryFailed"]}
    <3>1. CASE RetireOk(p)
      BY <1>1, <3>1 DEF RetireOk, OpType
    <3>2. CASE RetireFails(p)
      BY <1>1, <3>2 DEF RetireFails, Recovered, OpType
    <3>3. CASE Reapply(p)
      BY <1>1, <3>3 DEF Reapply, Recovered, OpType
    <3>4. QED
      BY <1>18, <3>1, <3>2, <3>3
  <2>4. /\ pc[p] \in Recovering /\ pc'[p] \in Compensating /\ disturbed' = disturbed
    BY <1>1, <1>18 DEF RetireOk, RetireFails, Reapply, Recovered
  <2>5. QED
    BY <1>17, <2>2, <2>3, <2>4
<1>19. CASE ConfirmFails(p)
  <2>1. /\ op'[p].outs = r.outs /\ op'[p].before = r.before
        /\ op'[p].result = [r.result EXCEPT ![r.cur] = "RecoveryFailed"]
        /\ pc[p] = "confirm" /\ pc'[p] = "compensate"
        /\ shown' = shown /\ disturbed' = disturbed
    BY <1>1, <1>19 DEF ConfirmFails, Recovered, OpType, world
  <2>2. Spared(w, shown'[s], {r.cur})
    BY <2>1 DEF Spared
  <2>3. QED
    BY <1>17, <2>1, <2>2
<1>20. CASE ConfirmRestored(p)
  <2>1. /\ op'[p].outs = r.outs /\ op'[p].before = r.before
        /\ op'[p].result = [r.result EXCEPT ![r.cur] = "RestoredPrevious"]
        /\ pc[p] = "confirm" /\ pc'[p] = "compensate"
        /\ shown' = shown /\ disturbed'[s] = d \ {r.cur}
        /\ w[r.cur] = Back(r, r.cur)
    BY <1>1, <1>20 DEF ConfirmRestored, Recovered, Seen, Previous, Back, OpType
  <2>2. ASSUME NEW o \in r.outs \ (d \ {r.cur}), op'[p].result[o] = "RestoredPrevious"
        PROVE  w[o] = Back(r, o)
    BY <1>1, <2>1, <2>2 DEF Reported
  <2>3. QED
    BY <2>1, <2>2 DEF Reported, Back
<1>21. CASE Compensated(p)
  <2>1. /\ op'[p].outs = r.outs /\ op'[p].before = r.before /\ op'[p].result = r.result
        /\ pc[p] = "compensate" /\ pc'[p] = "finish"
        /\ shown' = shown /\ disturbed' = disturbed
    BY <1>1, <1>21 DEF Compensated, OpType, world
  <2>2. \A o \in r.outs : r.result[o] # "Applied" /\ r.result[o] # "Stopped"
    BY <1>1, <2>1 DEF Batch
  <2>3. QED
    BY <2>1, <2>2 DEF Reported, Back
<1>22. CASE ObserveStopped(p)
  <2>1. PICK inspected \in BOOLEAN :
       LET Vacant(o) == inspected /\ Owners(s, o) = {} IN
       op' = [op EXCEPT
                ![p].result = [o \in Output |->
                    IF o \notin op[p].outs THEN "none"
                    ELSE IF Vacant(o) THEN "Stopped" ELSE "Unknown"],
                ![p].outcome = IF @ = "Partial" \/ \E o \in op[p].outs : ~Vacant(o)
                               THEN "Partial" ELSE "Stopped"]
    BY <1>22 DEF ObserveStopped
  <2>2. /\ op'[p].outs = r.outs /\ pc'[p] = "finish" /\ shown' = shown
        /\ \A o \in Output : op'[p].result[o] \in {"none", "Stopped", "Unknown"}
    BY <1>1, <1>22 DEF ObserveStopped, OpType
  <2>3. \A o \in Output : op'[p].result[o] = "Stopped" => Owners(s, o) = {}
    BY <1>1, <2>1 DEF OpType
  <2>4. \A o \in Output : Owners(s, o) = {} => w[o] = {}
    BY DEF Owners, OwnersIn
  <2>5. \A o \in r.outs : op'[p].result[o] # "RestoredPrevious" /\ op'[p].result[o] # "Applied"
    BY <1>1, <2>2
  <2>6. QED
    BY <1>1, <2>2, <2>3, <2>4, <2>5 DEF Reported
<1>23. QED
  BY <1>4, <1>5, <1>6, <1>7, <1>8, <1>9, <1>10, <1>11, <1>12, <1>13, <1>14, <1>15, <1>16,
     <1>18, <1>19, <1>20, <1>21, <1>22 DEF ProcessStep, Advance


-----------------------------------------------------------------------------
(* The truth of the reports.                                               *)

\* What every operation knows holds at every moment, whatever other processes, other
\* sessions and the renderers themselves do: the inductive invariant of this section.
ReportInv ==
    \A p \in Process : /\ Batch(op[p], pc[p])
                       /\ Shows(op[p], pc[p], shown[Of(p)], disturbed[Of(p)])

\* A process changes what its own session shows, and looks at it, under the lock, and
\* only renderer commands change it.
LEMMA DisplayWriters ==
    ASSUME TypeInv, NEW p \in Process, ProcessStep(p)
    PROVE  /\ \A s \in Session : s # Of(p) =>
                 shown'[s] = shown[s] /\ disturbed'[s] = disturbed[s]
           /\ Holds(p) \/ lock[Of(p)] = None \/ (shown' = shown /\ disturbed' = disturbed)
           /\ Runs(p) \/ shown' = shown
<1>1. disturbed \in [Session -> SUBSET Output] /\ Of(p) \in Session
  BY SessionOfProcess DEF TypeInv, TypeOK, Of
<1>2. CASE RequestApply(p) \/ RequestRestore(p) \/ RequestStop(p) \/ AcquireTimeout(p)
  BY <1>2 DEF RequestApply, RequestRestore, RequestStop, Request, AcquireTimeout, world
<1>3. CASE Acquire(p)
  BY <1>1, <1>3 DEF Acquire
<1>4. CASE Refuse(p) \/ RecordIntent(p) \/ JournalFull(p) \/ Finish(p)
  BY <1>1, <1>4 DEF Refuse, RecordIntent, JournalFull, Finish, Return, Holds, Holding
<1>5. CASE Crash(p)
  BY <1>1, <1>5 DEF Crash
<1>6. CASE Runs(p)
  <2>1. disturbed' = disturbed /\ Holds(p)
    BY <1>6 DEF Runs, ExecuteOk, StopFails, ApplyFails, RetireOk, RetireFails, Reapply,
                Holds, Holding
  <2>2. QED
    BY <1>6, <2>1, RunsSpare
<1>7. CASE VerifyOutput(p) \/ ConfirmRestored(p) \/ ObserveStopped(p)
  BY <1>1, <1>7 DEF VerifyOutput, ConfirmRestored, ObserveStopped, Seen, Holds, Holding
<1>8. CASE PlanApply(p) \/ PlanRestore(p) \/ PlanRecover(p) \/ PlanSettings(p)
  BY <1>8 DEF PlanApply, PlanRestore, PlanRecover, PlanSettings, Planned, world
<1>9. CASE \/ Preflight(p) \/ PreflightStop(p) \/ Revalidate(p) \/ JournalBegin(p)
           \/ Recheck(p) \/ ActionRefused(p) \/ Executed(p)
  BY <1>9 DEF Preflight, PreflightStop, Revalidate, JournalBegin, Recheck, ActionRefused,
              Executed, world
<1>10. CASE \/ Verified(p) \/ VerifyOrCommitFails(p) \/ Commit(p) \/ Arm(p)
            \/ ReportOutput(p) \/ StartRecovery(p) \/ Retired(p) \/ ConfirmFails(p)
            \/ Compensated(p)
  BY <1>10 DEF Verified, VerifyOrCommitFails, Commit, Arm, ReportOutput, StartRecovery,
               Retired, ConfirmFails, Compensated, world
<1>11. QED
  BY <1>2, <1>3, <1>4, <1>5, <1>6, <1>7, <1>8, <1>9, <1>10 DEF ProcessStep, Advance, Runs

\* A process leaves the locals of the others alone.
LEMMA OthersLocals ==
    ASSUME LockInv, TypeInv, NEW q \in Process, ProcessStep(q), NEW p \in Process, p # q
    PROVE  op'[p] = op[p] /\ pc'[p] = pc[p]
<1>1. op'[p] = op[p]
  BY StepKeeps DEF Keeps, TypeInv, TypeOK
<1>2. pc'[p] = pc[p]
  BY StepsRespectLock DEF Inside, Outside, Takes, Releases, Passes, LockInv, LockType
<1>3. QED
  BY <1>1, <1>2

LEMMA ReportInvStep ==
    LockInv /\ TypeInv /\ StopInv /\ ReportInv /\ [Next]_vars => ReportInv'
<1> SUFFICES ASSUME LockInv, TypeInv, StopInv, ReportInv, [Next]_vars, NEW p \in Process
             PROVE  /\ Batch(op'[p], pc'[p])
                    /\ Shows(op'[p], pc'[p], shown'[Of(p)], disturbed'[Of(p)])
  BY DEF ReportInv
<1> DEFINE s == Of(p)
<1>1. /\ Batch(op[p], pc[p]) /\ Shows(op[p], pc[p], shown[s], disturbed[s])
      /\ s \in Session /\ op[p].outs \subseteq Output
      /\ pc \in [Process -> Holding \cup {"idle", "waiting"}]
      /\ shown \in [Session -> World] /\ disturbed \in [Session -> SUBSET Output]
      /\ StopOk(p) /\ ReportOk(p)
  BY SessionOfProcess DEF ReportInv, StopInv, TypeInv, TypeOK, OpType, Of, World
<1>2. CASE /\ op'[p] = op[p] /\ pc'[p] = pc[p]
           /\ shown'[s] = shown[s] /\ disturbed'[s] = disturbed[s]
  BY <1>1, <1>2
<1>3. ASSUME ~Holds(p), op'[p] = op[p], pc'[p] = pc[p]
      PROVE  /\ Batch(op'[p], pc'[p])
             /\ Shows(op'[p], pc'[p], shown'[s], disturbed'[s])
  <2>1. pc'[p] \in {"idle", "waiting"}
    BY <1>1, <1>3 DEF Holds
  <2>2. QED
    BY <1>1, <1>3, <2>1, OutsideShows
<1>4. ASSUME NEW q \in Process, ProcessStep(q)
      PROVE  /\ Batch(op'[p], pc'[p])
             /\ Shows(op'[p], pc'[p], shown'[s], disturbed'[s])
  <2>1. CASE q = p
    BY <1>1, <1>4, <2>1, BatchStep, UntouchedStep, ReportedStep DEF Shows
  <2>2. CASE q # p
    <3>1. op'[p] = op[p] /\ pc'[p] = pc[p]
      BY <1>4, <2>2, OthersLocals
    <3>2. CASE Holds(p) /\ Of(q) = s
      <4>1. lock[s] = p /\ p # None /\ ~Holds(q)
        BY <2>2, <3>2, SessionOfProcess DEF LockInv
      <4>2. shown' = shown /\ disturbed' = disturbed
        BY <1>4, <3>2, <4>1, DisplayWriters
      <4>3. QED
        BY <1>2, <3>1, <4>2
    <3>3. CASE Of(q) # s
      <4>1. shown'[s] = shown[s] /\ disturbed'[s] = disturbed[s]
        BY <1>1, <1>4, <3>3, DisplayWriters
      <4>2. QED
        BY <1>2, <3>1, <4>1
    <3>4. QED
      BY <1>3, <3>1, <3>2, <3>3
  <2>3. QED
    BY <2>1, <2>2
<1>5. ASSUME NEW x \in Session, SessionEnds(x)
      PROVE  /\ Batch(op'[p], pc'[p])
             /\ Shows(op'[p], pc'[p], shown'[s], disturbed'[s])
  <2>1. CASE s = x
    <3>1. op'[p] = NoOp /\ pc'[p] = "idle"
      BY <1>5, <2>1 DEF SessionEnds
    <3>2. QED
      BY <3>1, IdleBatch, OutsideShows
  <2>2. CASE s # x
    BY <1>1, <1>2, <1>5, <2>2 DEF SessionEnds
  <2>3. QED
    BY <2>1, <2>2
<1>6. ASSUME NEW x \in Session, RendererExit(x) \/ ForeignStart(x)
      PROVE  /\ Batch(op'[p], pc'[p])
             /\ Shows(op'[p], pc'[p], shown'[s], disturbed'[s])
  <2>1. op'[p] = op[p] /\ pc'[p] = pc[p]
    BY <1>6 DEF RendererExit, ForeignStart
  <2>2. PICK o \in Output :
          /\ Disturb(x, o)
          /\ \A y \in Session : y # x => shown'[y] = shown[y]
          /\ \A y \in Output : y # o => shown'[x][y] = shown[x][y]
    <3>1. CASE RendererExit(x)
      <4>1. PICK o \in Output, r \in Recipe :
               Disturb(x, o) /\ shown' = [shown EXCEPT ![x][o] = @ \ {r}]
        BY <3>1 DEF RendererExit
      <4>2. QED
        BY <1>1, <4>1 DEF World
    <3>2. CASE ForeignStart(x)
      <4>1. PICK o \in Output, r \in Recipe :
               /\ Disturb(x, o)
               /\ shown' = [shown EXCEPT ![x][o] =
                    {r} \cup IF BackendOf[r] \in Shared
                             THEN {z \in @ : BackendOf[z] # BackendOf[r]} ELSE @]
        BY <3>2, ConstantTypes DEF ForeignStart
      <4>2. QED
        BY <1>1, <4>1 DEF World
    <3>3. QED
      BY <1>6, <3>1, <3>2
  <2>3. CASE s # x
    <3>1. shown'[s] = shown[s] /\ disturbed'[s] = disturbed[s]
      BY <1>1, <2>2, <2>3 DEF Disturb
    <3>2. QED
      BY <1>2, <2>1, <3>1
  <2>4. CASE s = x /\ Holds(p)
    <3>1. lock[s] # None
      BY <2>4, SessionOfProcess DEF LockInv
    <3>2. disturbed'[s] = disturbed[s] \cup {o}
      BY <1>1, <2>2, <2>4, <3>1 DEF Disturb
    <3>3. \A y \in Output \ disturbed'[s] : shown'[s][y] = shown[s][y]
      BY <2>2, <2>4, <3>2
    <3>4. disturbed[s] \subseteq disturbed'[s]
      BY <3>2
    <3>5. Shows(op[p], pc[p], shown'[s], disturbed'[s])
      BY <1>1, <3>3, <3>4, DisturbedShows
    <3>6. QED
      BY <1>1, <2>1, <3>5
  <2>5. QED
    BY <1>3, <2>1, <2>3, <2>4
<1>7. CASE Quiescent \/ UNCHANGED vars
  BY <1>2, <1>7 DEF Quiescent, vars
<1>8. QED
  BY <1>4, <1>5, <1>6, <1>7 DEF Next, ProcessStep, Environment

LEMMA ReportInvInit == Init => ReportInv
<1> SUFFICES ASSUME Init, NEW p \in Process
             PROVE  /\ Batch(op[p], pc[p])
                    /\ Shows(op[p], pc[p], shown[Of(p)], disturbed[Of(p)])
  BY DEF ReportInv
<1>1. op[p] = NoOp /\ pc[p] = "idle"
  BY DEF Init
<1>2. QED
  BY <1>1, IdleBatch, OutsideShows

\* Whatever fails on the way, and whatever the other sessions do, the report an
\* operation ends with says what the displays show.
THEOREM ReportsTruthful == Spec => []ReportTruthful
<1>1. TypeInv /\ ReportInv => ReportTruthful
  <2> SUFFICES ASSUME TypeInv, ReportInv, NEW p \in Process, pc[p] = "finish",
                      NEW o \in op[p].outs, Own(p, o)
               PROVE
            /\ shown[Of(p)][o] \in CASE op[p].result[o] = "Applied" -> {{op[p].want[o]}}
                                     [] op[p].result[o] = "RestoredPrevious" -> {Previous(p, o)}
                                     [] op[p].result[o] = "Unchanged" -> {op[p].start[o]}
                                     [] op[p].result[o] = "Stopped" -> {{}}
                                     [] OTHER -> SUBSET Recipe
            /\ op[p].outcome \in {"Unchanged", "RestoredPrevious"}
                  => shown[Of(p)][o] \in {op[p].start[o], Previous(p, o)}
    BY DEF ReportTruthful
  <2> DEFINE r == op[p]
             w == shown[Of(p)]
  <2>1. o \in Output /\ w[o] \subseteq Recipe /\ o \in r.outs \ disturbed[Of(p)]
    BY SessionOfProcess DEF TypeInv, TypeOK, OpType, Of, Own
  <2>2. Batch(r, "finish") /\ Shows(r, "finish", w, disturbed[Of(p)])
    BY DEF ReportInv
  <2>3. /\ r.result[o] = "Applied" => w[o] = {r.want[o]}
        /\ r.result[o] = "RestoredPrevious" => w[o] = Previous(p, o)
        /\ r.result[o] = "Stopped" => w[o] = {}
    BY <2>1, <2>2 DEF Shows, Reported, Back, Previous
  <2>4. r.kind # "stop" /\ r.tried[o] = {} => w[o] = r.start[o]
    BY <2>1, <2>2 DEF Shows, Untouched, Late, Early, Holding
  <2>5. /\ r.result[o] = "Unchanged" => r.kind # "stop" /\ r.tried[o] = {}
        /\ r.outcome = "Unchanged" => r.kind # "stop" /\ r.tried[o] = {}
        /\ r.outcome = "RestoredPrevious" => r.result[o] \in {"Unchanged", "RestoredPrevious"}
    BY <2>1, <2>2 DEF Batch, Compensating, Recovering
  <2> HIDE DEF r, w
  <2>6. QED
    BY <2>1, <2>3, <2>4, <2>5 DEF r, w
<1>2. QED
  BY <1>1, LockInit, LockStep, TypeInit, TypeStep, StopInvInit, StopInvStep,
     ReportInvInit, ReportInvStep, PTL DEF Spec

\* However it ends, an operation never changes an output it was not asked to change.
THEOREM OutsideLeftAlone == Spec => []OutsideUntouched
<1>1. TypeInv /\ ReportInv => OutsideUntouched
  <2> SUFFICES ASSUME TypeInv, ReportInv, NEW p \in Process, Holds(p),
                      NEW o \in Output \ op[p].outs, Own(p, o),
                      Cardinality(OwnersIn(op[p].start, o)) <= 1
               PROVE  shown[Of(p)][o] = op[p].start[o]
    BY DEF OutsideUntouched
  <2>1. op[p].start \in World /\ o \in Output \ disturbed[Of(p)]
    BY DEF TypeInv, TypeOK, OpType, World, Own
  <2>2. Sole(op[p].start, o)
    BY <2>1, SoleOwner
  <2>3. Untouched(op[p], pc[p], shown[Of(p)], disturbed[Of(p)])
    BY DEF ReportInv, Shows
  <2>4. QED
    BY <2>1, <2>2, <2>3 DEF Untouched, Late, Holds
<1>2. QED
  BY <1>1, LockInit, LockStep, TypeInit, TypeStep, StopInvInit, StopInvStep,
     ReportInvInit, ReportInvStep, PTL DEF Spec

\* A commit saves what it wants the outputs of the batch to show.
LEMMA CommitSaves ==
    ASSUME TypeInv, NEW p \in Process, Commit(p), store' # store,
           NEW o \in op[p].outs, op[p].want[o] \in Recipe
    PROVE  Effective(rows', o) = op[p].want[o]
<1>1. /\ o \in Output /\ AllDisplays \notin op[p].outs /\ o # AllDisplays
      /\ op[p].want[o] # None
      /\ o \in Target /\ AllDisplays \in Target
      /\ op[p].kind \in Applying => op[p].req \in Recipe /\ op[p].req # None
  <2>1. op[p] \in OpType /\ Shape(p, op[p], pc[p])
    BY DEF TypeInv, TypeOK
  <2>2. op[p].outs \subseteq Output
    BY <2>1 DEF OpType
  <2>3. AllDisplays \notin Output /\ None \notin Recipe
    BY ConstantsAssumption
  <2>4. op[p].kind \in Applying => op[p].req \in Recipe
    BY <2>1 DEF Shape
  <2>5. QED
    BY <2>2, <2>3, <2>4 DEF Target
<1>2. CASE op[p].kind \in Applying /\ CommitApply(p)
  <2> DEFINE alike == \A x \in op[p].outs : op[p].want[x] = op[p].req
             Undone(t) == IF Intended(p)[t] = None THEN <<None, 0>>
                          ELSE IF t \in Written(p) THEN <<Intended(p)[t], rev[t] + 1>>
                          ELSE Preserved(t, Intended(p)[t])
  <2>1. \A t \in Target : rows'[t] = Undone(t)[1]
    BY <1>2 DEF CommitApply
  <2>2. CASE op[p].kind = "apply_all" /\ alike
    <3>1. Intended(p)[o] = None /\ Intended(p)[AllDisplays] = op[p].req
      BY <1>1, <2>2 DEF Intended
    <3>2. AllDisplays \in Written(p)
      BY <1>1, <1>2, <2>2, <3>1 DEF Written
    <3>3. rows'[o] = None /\ rows'[AllDisplays] = op[p].req
      BY <1>1, <1>2, <2>1, <3>1, <3>2
    <3>4. QED
      BY <2>2, <3>3 DEF Effective
  <2>3. CASE ~(op[p].kind = "apply_all" /\ alike)
    <3>1. Intended(p)[o] = op[p].want[o]
      BY <1>1, <2>3 DEF Intended
    <3>2. o \in Written(p)
      BY <1>1, <3>1 DEF Written
    <3>3. rows'[o] = op[p].want[o]
      BY <1>1, <2>1, <3>1, <3>2
    <3>4. QED
      BY <1>1, <3>3 DEF Effective
  <2>4. QED
    BY <2>2, <2>3
<1>3. CASE CommitSettings(p)
  <2>1. rows'[o] = op[p].want[o]
    BY <1>1, <1>3 DEF CommitSettings
  <2>2. QED
    BY <1>1, <2>1 DEF Effective
<1>4. QED
  BY <1>2, <1>3 DEF Commit

\* What is saved was shown when it was saved, on every output of the batch.
THEOREM CommitsShowTruth == Spec => CommitShowsTruth
<1> DEFINE Truth == store' # store =>
                       \E p \in Process :
                          /\ pc[p] = "commit"
                          /\ \A o \in op[p].outs :
                                Own(p, o) => shown[Of(p)][o] = {Effective(rows', o)}
<1>1. TypeInv /\ ReportInv /\ [Next]_vars => [Truth]_vars
  <2> SUFFICES ASSUME TypeInv, ReportInv, Next, store' # store
               PROVE  \E p \in Process :
                         /\ pc[p] = "commit"
                         /\ \A o \in op[p].outs :
                               Own(p, o) => shown[Of(p)][o] = {Effective(rows', o)}
    OBVIOUS
  <2>1. PICK p \in Process : Commit(p)
    <3>1. CASE \E p \in Process : ProcessStep(p)
      BY <3>1, StoreWriters
    <3>2. CASE \E s \in Session : Environment(s)
      BY <3>2 DEF Environment, SessionEnds, RendererExit, ForeignStart
    <3>3. CASE Quiescent
      BY <3>3 DEF Quiescent, vars, store
    <3>4. QED
      BY <3>1, <3>2, <3>3 DEF Next, ProcessStep
  <2>2. pc[p] = "commit" /\ Batch(op[p], "commit")
        /\ Reported(op[p], "commit", shown[Of(p)], disturbed[Of(p)])
    BY <2>1 DEF Commit, ReportInv, Shows
  <2>3. ASSUME NEW o \in op[p].outs, Own(p, o)
        PROVE  shown[Of(p)][o] = {Effective(rows', o)}
    <3>1. shown[Of(p)][o] = {op[p].want[o]}
      BY <2>2, <2>3 DEF Reported, Batch, Verifying, Own
    <3>2. shown[Of(p)][o] \subseteq Recipe
      BY SessionOfProcess DEF TypeInv, TypeOK, OpType, Of
    <3>3. Effective(rows', o) = op[p].want[o]
      BY <2>1, <3>1, <3>2, CommitSaves
    <3>4. QED
      BY <3>1, <3>3
  <2>4. QED
    BY <2>2, <2>3
<1>2. QED
  BY <1>1, LockInit, LockStep, TypeInit, TypeStep, StopInvInit, StopInvStep,
     ReportInvInit, ReportInvStep, PTL DEF Spec, CommitShowsTruth

\* A recovery works on outputs with a certain cleanup, and what it runs for them starts
\* nothing anywhere else.
THEOREM UncertainSpared == Spec => UncertainLeftAlone
<1> DEFINE Spares == \A p \in Process, o \in Output :
                        /\ pc[p] \in {"compensate", "retire", "reapply", "confirm"}
                        /\ o \in op[p].unsure
                        /\ <<pc'[p], op'[p]>> # <<pc[p], op[p]>>
                        => shown'[Of(p)][o] \subseteq shown[Of(p)][o]
<1>1. LockInv /\ TypeInv /\ ReportInv /\ [Next]_vars => [Spares]_vars
  <2> SUFFICES ASSUME LockInv, TypeInv, ReportInv, Next, NEW p \in Process, NEW o \in Output,
                      pc[p] \in {"compensate", "retire", "reapply", "confirm"},
                      o \in op[p].unsure,
                      <<pc'[p], op'[p]>> # <<pc[p], op[p]>>
               PROVE  shown'[Of(p)][o] \subseteq shown[Of(p)][o]
    OBVIOUS
  <2>1. Batch(op[p], pc[p])
    BY DEF ReportInv
  <2>2. ASSUME NEW q \in Process, ProcessStep(q)
        PROVE  shown'[Of(p)][o] \subseteq shown[Of(p)][o]
    <3>1. q = p
      BY <2>2, OthersLocals
    <3>2. CASE shown' = shown
      BY <3>2
    <3>3. CASE RetireOk(p) \/ RetireFails(p)
      <4>1. op[p].cur \notin op[p].unsure /\ \A a \in op[p].todo : a.scope = {op[p].cur}
        BY <2>1, <3>3 DEF RetireOk, RetireFails, Batch, Recovering
      <4>2. Spared(shown[Of(p)], shown'[Of(p)], {op[p].cur})
        BY <3>3, <4>1, RunsSpare DEF Runs
      <4>3. QED
        BY <4>1, <4>2 DEF Spared
    <3>4. CASE Reapply(p)
      <4>1. op[p].cur \notin op[p].unsure
        BY <2>1, <3>4 DEF Reapply, Batch, Recovering
      <4>2. Spared(shown[Of(p)], shown'[Of(p)], {op[p].cur})
        BY <3>4, RunsSpare DEF Runs
      <4>3. QED
        BY <4>1, <4>2 DEF Spared
    <3>5. ~(ExecuteOk(p) \/ StopFails(p) \/ ApplyFails(p))
      BY DEF ExecuteOk, StopFails, ApplyFails
    <3>6. QED
      BY <2>2, <3>1, <3>2, <3>3, <3>4, <3>5, DisplayWriters DEF Runs
  <2>3. ASSUME NEW s \in Session, SessionEnds(s)
        PROVE  shown'[Of(p)][o] \subseteq shown[Of(p)][o]
    BY <2>3, SessionOfProcess DEF SessionEnds, NoneTried, Of, TypeInv, TypeOK
  <2>4. ~(\E s \in Session : RendererExit(s) \/ ForeignStart(s)) /\ ~Quiescent
    BY DEF RendererExit, ForeignStart, Quiescent, vars
  <2>5. QED
    BY <2>2, <2>3, <2>4 DEF Next, ProcessStep, Environment
<1>2. QED
  BY <1>1, LockInit, LockStep, TypeInit, TypeStep, StopInvInit, StopInvStep,
     ReportInvInit, ReportInvStep, PTL DEF Spec, UncertainLeftAlone

-----------------------------------------------------------------------------
(* Who withdraws a stop intent.                                            *)

\* Past its planning, a recovery is about outputs without a stop intent: under the
\* lock it looked at them with, no Stop can record one.
RecoveryOk(p) ==
    op[p].kind = "recover" /\ Holds(p) /\ pc[p] # "plan" =>
        op[p].outs \cap stopped[Of(p)] = {}

RecoveryInv == \A p \in Process : RecoveryOk(p)

\* Past its planning an operation keeps its request, and what it wants to show.
LEMMA RequestKept ==
    ASSUME TypeInv, NEW p \in Process, ProcessStep(p), pc'[p] \in Holding \ {"plan"}
    PROVE  \/ Acquire(p) /\ pc'[p] = "intent"
           \/ PlanApply(p) \/ PlanRestore(p) \/ PlanRecover(p) \/ PlanSettings(p)
           \/ /\ op'[p].kind = op[p].kind /\ op'[p].outs = op[p].outs
              /\ op'[p].want = op[p].want
              /\ Holds(p) /\ pc[p] # "plan"
<1>1. /\ op \in [Process -> OpType]
      /\ pc \in [Process -> Holding \cup {"idle", "waiting"}]
  BY DEF TypeInv, TypeOK
<1> USE DEF Holds, Holding
<1>2. CASE RequestApply(p) \/ RequestRestore(p) \/ RequestStop(p)
  <2>1. pc'[p] = "waiting"
    BY <1>1, <1>2 DEF RequestApply, RequestRestore, RequestStop, Request
  <2>2. QED
    BY <2>1
<1>3. CASE Acquire(p)
  BY <1>1, <1>3 DEF Acquire
<1>4. CASE AcquireTimeout(p) \/ Refuse(p) \/ Crash(p) \/ JournalFull(p) \/ Finish(p)
  BY <1>1, <1>4 DEF AcquireTimeout, Refuse, Crash, JournalFull, Finish, Return
<1>5. CASE RecordIntent(p)
  BY <1>1, <1>5 DEF RecordIntent, Return
<1>6. CASE \/ Preflight(p) \/ PreflightStop(p) \/ Revalidate(p) \/ JournalBegin(p)
           \/ Recheck(p)
  BY <1>1, <1>6 DEF Preflight, PreflightStop, Revalidate, JournalBegin, Recheck, OpType
<1>7. CASE ExecuteOk(p)
  BY <1>1, <1>7 DEF ExecuteOk, OpType
<1>8. CASE StopFails(p) \/ ApplyFails(p)
  <2>1. CASE StopFails(p)
    BY <1>1, <2>1 DEF StopFails, OpType
  <2>2. CASE ApplyFails(p)
    BY <1>1, <2>2 DEF ApplyFails, OpType
  <2>3. QED
    BY <1>8, <2>1, <2>2
<1>9. CASE ActionRefused(p) \/ Executed(p)
  BY <1>1, <1>9 DEF ActionRefused, Executed, OpType
<1>10. CASE VerifyOutput(p) \/ Verified(p) \/ VerifyOrCommitFails(p) \/ Commit(p) \/ Arm(p)
  <2>1. CASE VerifyOutput(p)
    BY <1>1, <2>1 DEF VerifyOutput, OpType
  <2>2. CASE Verified(p)
    BY <1>1, <2>2 DEF Verified, OpType
  <2>3. CASE VerifyOrCommitFails(p)
    BY <1>1, <2>3 DEF VerifyOrCommitFails, OpType
  <2>4. CASE Commit(p)
    BY <1>1, <2>4 DEF Commit, OpType
  <2>5. CASE Arm(p)
    BY <1>1, <2>5 DEF Arm, OpType
  <2>6. QED
    BY <1>10, <2>1, <2>2, <2>3, <2>4, <2>5
<1>11. CASE ReportOutput(p) \/ StartRecovery(p) \/ Retired(p) \/ Compensated(p)
  <2>1. CASE ReportOutput(p)
    BY <1>1, <2>1 DEF ReportOutput, OpType
  <2>2. CASE StartRecovery(p)
    BY <1>1, <2>2 DEF StartRecovery, OpType
  <2>3. CASE Retired(p)
    BY <1>1, <2>3 DEF Retired, OpType
  <2>4. CASE Compensated(p)
    BY <1>1, <2>4 DEF Compensated, OpType
  <2>5. QED
    BY <1>11, <2>1, <2>2, <2>3, <2>4
<1>12. CASE RetireOk(p) \/ RetireFails(p)
  <2>1. CASE RetireOk(p)
    BY <1>1, <2>1 DEF RetireOk, Recovered, OpType
  <2>2. CASE RetireFails(p)
    BY <1>1, <2>2 DEF RetireFails, Recovered, OpType
  <2>3. QED
    BY <1>12, <2>1, <2>2
<1>13. CASE Reapply(p)
  BY <1>1, <1>13 DEF Reapply, Recovered, OpType
<1>14. CASE ConfirmRestored(p) \/ ConfirmFails(p)
  BY <1>1, <1>14 DEF ConfirmRestored, ConfirmFails, Recovered, OpType
<1>15. CASE ObserveStopped(p)
  BY <1>1, <1>15 DEF ObserveStopped, OpType
<1>16. QED
  BY <1>2, <1>3, <1>4, <1>5, <1>6, <1>7, <1>8, <1>9, <1>10, <1>11, <1>12, <1>13, <1>14,
     <1>15 DEF ProcessStep, Advance

\* What the step of a process under the lock does to the stop intents of its session.
LEMMA IntentSteps ==
    ASSUME TypeInv, NEW p \in Process, ProcessStep(p), Batch(op[p], pc[p])
    PROVE  \/ UNCHANGED stopped
           \/ /\ Holds(p) /\ \A s \in Session : s # Of(p) => stopped'[s] = stopped[s]
              /\ \/ op[p].kind = "stop" /\ pc[p] = "intent"
                 \/ /\ pc[p] = "arm"
                    /\ stopped'[Of(p)] = stopped[Of(p)] \ op[p].outs
<1>1. stopped \in [Session -> SUBSET Output] /\ Of(p) \in Session
  BY SessionOfProcess DEF TypeInv, TypeOK, Of
<1>2. CASE RecordIntent(p)
  BY <1>1, <1>2 DEF RecordIntent, Batch, Holds, Holding
<1>3. CASE Arm(p)
  BY <1>1, <1>3 DEF Arm, Holds, Holding
<1>4. QED
  BY <1>2, <1>3, IntentWriters

LEMMA RecoveryInvStep ==
    LockInv /\ TypeInv /\ ReportInv /\ RecoveryInv /\ [Next]_vars => RecoveryInv'
<1> SUFFICES ASSUME LockInv, TypeInv, ReportInv, RecoveryInv, [Next]_vars,
                    NEW p \in Process
             PROVE  RecoveryOk(p)'
  BY DEF RecoveryInv
<1>1. /\ RecoveryOk(p) /\ Of(p) \in Session
      /\ op \in [Process -> OpType]
      /\ stopped \in [Session -> SUBSET Output]
      /\ pc \in [Process -> Holding \cup {"idle", "waiting"}]
  BY SessionOfProcess DEF RecoveryInv, TypeInv, TypeOK, Of
<1>2. CASE pc'[p] = pc[p] /\ op'[p] = op[p] /\ stopped'[Of(p)] \subseteq stopped[Of(p)]
  BY <1>1, <1>2 DEF RecoveryOk, Holds
<1>3. ASSUME NEW q \in Process, ProcessStep(q)
      PROVE  RecoveryOk(p)'
  <2>1. Batch(op[q], pc[q])
    BY DEF ReportInv
  <2>2. CASE q # p
    <3>1. op'[p] = op[p] /\ pc'[p] = pc[p]
      BY <1>3, <2>2, OthersLocals
    <3>2. CASE stopped'[Of(p)] = stopped[Of(p)]
      BY <1>2, <3>1, <3>2
    <3>3. CASE Holds(q) /\ Of(q) = Of(p)
      <4>1. ~Holds(p)
        BY <2>2, <3>3 DEF LockInv
      <4>2. QED
        BY <3>1, <4>1 DEF RecoveryOk, Holds
    <3>4. QED
      BY <1>1, <1>3, <2>1, <3>2, <3>3, IntentSteps
  <2>3. CASE q = p
    <3>1. SUFFICES ASSUME op'[p].kind = "recover", pc'[p] \in Holding \ {"plan"}
                   PROVE  op'[p].outs \cap stopped'[Of(p)] = {}
      BY DEF RecoveryOk, Holds
    <3>2. CASE Acquire(p) /\ pc'[p] = "intent"
      <4>1. op'[p].kind = "stop"
        BY <1>1, <3>2 DEF Acquire, OpType
      <4>2. QED
        BY <3>1, <4>1
    <3>3. CASE PlanApply(p) \/ PlanRestore(p) \/ PlanSettings(p)
      <4>1. Plans(p)
        BY <3>3, PlansCover
      <4>2. op'[p].kind = op[p].kind
        <5>1. PICK base, outs, want, todo :
                /\ op'[p] = [op[p] EXCEPT !.base = base, !.outs = outs, !.want = want,
                                          !.todo = todo]
                /\ Covers(todo, outs)
          BY <4>1, Zenon DEF Plans
        <5>2. QED
          BY <1>1, <5>1 DEF OpType
      <4>3. op[p].kind # "recover"
        BY <3>3 DEF PlanApply, PlanRestore, PlanSettings, Applying
      <4>4. QED
        BY <3>1, <4>2, <4>3
    <3>4. CASE PlanRecover(p)
      <4>1. /\ op'[p].outs = op[p].outs /\ stopped' = stopped
            /\ op[p].outs \cap stopped[Of(p)] = {}
        BY <1>1, <3>4 DEF PlanRecover, Planned, OpType
      <4>2. QED
        BY <4>1
    <3>5. CASE /\ op'[p].kind = op[p].kind /\ op'[p].outs = op[p].outs
               /\ Holds(p) /\ pc[p] # "plan"
      <4>1. op[p].outs \cap stopped[Of(p)] = {}
        BY <1>1, <3>1, <3>5 DEF RecoveryOk
      <4>2. stopped'[Of(p)] \subseteq stopped[Of(p)]
        BY <1>3, <2>1, <2>3, <3>1, <3>5, IntentSteps
      <4>3. QED
        BY <3>5, <4>1, <4>2
    <3>6. QED
      BY <1>3, <2>3, <3>1, <3>2, <3>3, <3>4, <3>5, RequestKept
  <2>4. QED
    BY <2>2, <2>3
<1>4. ASSUME NEW s \in Session, SessionEnds(s)
      PROVE  RecoveryOk(p)'
  <2>1. CASE Of(p) = s
    <3>1. pc'[p] = "idle"
      BY <1>4, <2>1 DEF SessionEnds
    <3>2. QED
      BY <3>1 DEF RecoveryOk, Holds, Holding
  <2>2. CASE Of(p) # s
    BY <1>1, <1>2, <1>4, <2>2 DEF SessionEnds
  <2>3. QED
    BY <2>1, <2>2
<1>5. CASE \E s \in Session : RendererExit(s) \/ ForeignStart(s)
  BY <1>2, <1>5 DEF RendererExit, ForeignStart
<1>6. CASE Quiescent \/ UNCHANGED vars
  BY <1>2, <1>6 DEF Quiescent, vars
<1>7. QED
  BY <1>3, <1>4, <1>5, <1>6 DEF Next, ProcessStep, Environment

LEMMA RecoveryInvInit == Init => RecoveryInv
  BY DEF Init, RecoveryInv, RecoveryOk, NoOp

\* A stop intent outlives everything but an Apply, a Restore or new settings that
\* verifiably brought its output back, and the end of its session.
THEOREM IntentsSticky == Spec => StopIntentSticky
<1> DEFINE Sticky ==
        \A s \in alive', o \in Output : o \in stopped[s] \ stopped'[s] =>
            \E p \in Process :
               /\ Of(p) = s /\ Holds(p) /\ o \in op[p].outs /\ op[p].kind # "recover"
               /\ Own(p, o) => shown[s][o] = {op[p].want[o]}
<1>1. TypeInv /\ ReportInv /\ RecoveryInv /\ [Next]_vars => [Sticky]_vars
  <2> SUFFICES ASSUME TypeInv, ReportInv, RecoveryInv, Next,
                      NEW s \in alive', NEW o \in Output, o \in stopped[s], o \notin stopped'[s]
               PROVE  \E p \in Process :
                         /\ Of(p) = s /\ Holds(p) /\ o \in op[p].outs /\ op[p].kind # "recover"
                         /\ Own(p, o) => shown[s][o] = {op[p].want[o]}
    OBVIOUS
  <2>1. ASSUME NEW p \in Process, ProcessStep(p)
        PROVE  /\ Of(p) = s /\ Holds(p) /\ o \in op[p].outs /\ op[p].kind # "recover"
               /\ Own(p, o) => shown[s][o] = {op[p].want[o]}
    <3>1. /\ Batch(op[p], pc[p]) /\ RecoveryOk(p)
          /\ Reported(op[p], pc[p], shown[Of(p)], disturbed[Of(p)])
      BY DEF ReportInv, RecoveryInv, Shows
    <3>2. s \in Session
      BY <2>1, WorldStep DEF WorldType
    <3>3. /\ Holds(p) /\ Of(p) = s
          /\ \/ op[p].kind = "stop" /\ pc[p] = "intent"
             \/ /\ pc[p] = "arm"
                /\ stopped'[s] = stopped[s] \ op[p].outs
      BY <2>1, <3>1, <3>2, IntentSteps
    <3>4. pc[p] # "intent"
      <4>1. pc[p] = "intent" => RecordIntent(p) \/ UNCHANGED stopped
        BY <2>1, IntentWriters DEF Arm
      <4>2. RecordIntent(p) => stopped[s] \subseteq stopped'[s]
        BY <3>2, <3>3 DEF RecordIntent, TypeInv, TypeOK
      <4>3. QED
        BY <4>1, <4>2
    <3>5. pc[p] = "arm" /\ o \in op[p].outs
      BY <3>3, <3>4
    <3>6. op[p].kind # "recover"
      BY <3>1, <3>3, <3>5 DEF RecoveryOk
    <3>7. Own(p, o) => shown[s][o] = {op[p].want[o]}
      BY <3>1, <3>3, <3>5 DEF Reported, Batch, Verifying, Own
    <3>8. QED
      BY <3>3, <3>5, <3>6, <3>7
  <2>2. ~(\E x \in Session : SessionEnds(x))
    BY DEF SessionEnds, TypeInv, TypeOK
  <2>3. ~(\E x \in Session : RendererExit(x) \/ ForeignStart(x)) /\ ~Quiescent
    BY DEF RendererExit, ForeignStart, Quiescent, vars
  <2>4. PICK p \in Process : ProcessStep(p)
    BY <2>2, <2>3 DEF Next, ProcessStep, Environment
  <2>5. QED
    BY <2>1, <2>4
<1>2. QED
  BY <1>1, LockInit, LockStep, TypeInit, TypeStep, StopInvInit, StopInvStep,
     ReportInvInit, ReportInvStep, RecoveryInvInit, RecoveryInvStep, PTL
     DEF Spec, StopIntentSticky

-----------------------------------------------------------------------------
(* Saved assignments and their revisions.                                  *)

\* An Apply for some displays is for at least one, and past its planning it has a
\* recipe for each: its commit always has something to write.
ChoiceOk(p) ==
    op[p].kind = "apply_set" /\ pc[p] # "idle" =>
        /\ op[p].outs # {}
        /\ Holds(p) /\ pc[p] # "plan" => \A o \in op[p].outs : op[p].want[o] \in Recipe

ChoiceInv == \A p \in Process : ChoiceOk(p)

\* An operation that is not planned yet was just asked for, or has just got the lock.
LEMMA RequestHeld ==
    ASSUME TypeInv, NEW p \in Process, ProcessStep(p), pc'[p] \in {"waiting", "plan"}
    PROVE  \/ op'[p].outs # {}
           \/ /\ pc[p] = "waiting"
              /\ op'[p].kind = op[p].kind /\ op'[p].outs = op[p].outs
<1>1. /\ op \in [Process -> OpType]
      /\ pc \in [Process -> Holding \cup {"idle", "waiting"}]
  BY DEF TypeInv, TypeOK
<1>2. CASE RequestApply(p) \/ RequestRestore(p) \/ RequestStop(p)
  <2>1. PICK kind, outs, r, explicit : Request(p, kind, outs, r, explicit)
    BY <1>2 DEF RequestApply, RequestRestore, RequestStop
  <2>2. op'[p].outs = outs /\ outs # {}
    BY <1>1, <2>1 DEF Request, NoOp
  <2>3. QED
    BY <2>2
<1>3. CASE Acquire(p)
  BY <1>1, <1>3 DEF Acquire, OpType
<1>4. CASE AcquireTimeout(p) \/ Refuse(p) \/ Crash(p) \/ JournalFull(p) \/ Finish(p)
  BY <1>1, <1>4 DEF AcquireTimeout, Refuse, Crash, JournalFull, Finish, Return
<1>5. CASE PlanApply(p) \/ PlanRestore(p) \/ PlanRecover(p) \/ PlanSettings(p)
  BY <1>1, <1>5 DEF PlanApply, PlanRestore, PlanRecover, PlanSettings, Planned
<1>6. CASE \/ RecordIntent(p) \/ Preflight(p) \/ PreflightStop(p) \/ Revalidate(p)
           \/ JournalBegin(p) \/ Recheck(p)
  <2>1. CASE RecordIntent(p)
    BY <1>1, <2>1 DEF RecordIntent, Return
  <2>2. CASE Preflight(p) \/ PreflightStop(p)
    BY <1>1, <2>2 DEF Preflight, PreflightStop
  <2>3. CASE Revalidate(p) \/ JournalBegin(p) \/ Recheck(p)
    BY <1>1, <2>3 DEF Revalidate, JournalBegin, Recheck
  <2>4. QED
    BY <1>6, <2>1, <2>2, <2>3
<1>7. CASE ExecuteOk(p) \/ ActionRefused(p) \/ StopFails(p) \/ ApplyFails(p) \/ Executed(p)
  <2>1. CASE ExecuteOk(p) \/ Executed(p)
    BY <1>1, <2>1 DEF ExecuteOk, Executed
  <2>2. CASE ActionRefused(p) \/ StopFails(p)
    BY <1>1, <2>2 DEF ActionRefused, StopFails, AfterFailure
  <2>3. CASE ApplyFails(p)
    BY <1>1, <2>3 DEF ApplyFails, AfterFailure
  <2>4. QED
    BY <1>7, <2>1, <2>2, <2>3
<1>8. CASE VerifyOutput(p) \/ Verified(p) \/ VerifyOrCommitFails(p) \/ Commit(p) \/ Arm(p)
  BY <1>1, <1>8 DEF VerifyOutput, Verified, VerifyOrCommitFails, Commit, Arm
<1>9. CASE \/ ReportOutput(p) \/ StartRecovery(p) \/ RetireOk(p) \/ RetireFails(p)
           \/ Retired(p) \/ Reapply(p) \/ ConfirmRestored(p) \/ ConfirmFails(p)
           \/ Compensated(p) \/ ObserveStopped(p)
  BY <1>1, <1>9 DEF ReportOutput, StartRecovery, RetireOk, RetireFails, Retired, Reapply,
                    ConfirmRestored, ConfirmFails, Compensated, ObserveStopped, Recovered
<1>10. QED
  BY <1>2, <1>3, <1>4, <1>5, <1>6, <1>7, <1>8, <1>9 DEF ProcessStep, Advance

LEMMA ChoiceInvStep == LockInv /\ TypeInv /\ ChoiceInv /\ [Next]_vars => ChoiceInv'
<1> SUFFICES ASSUME LockInv, TypeInv, ChoiceInv, [Next]_vars, NEW p \in Process
             PROVE  ChoiceOk(p)'
  BY DEF ChoiceInv
<1>1. /\ ChoiceOk(p)
      /\ op \in [Process -> OpType]
      /\ pc \in [Process -> Holding \cup {"idle", "waiting"}]
  BY DEF ChoiceInv, TypeInv, TypeOK
<1>2. CASE pc'[p] = pc[p] /\ op'[p] = op[p]
  BY <1>1, <1>2 DEF ChoiceOk, Holds
<1>3. CASE ProcessStep(p)
  <2>1. SUFFICES ASSUME op'[p].kind = "apply_set", pc'[p] # "idle"
                 PROVE  /\ op'[p].outs # {}
                        /\ pc'[p] \in Holding \ {"plan"} =>
                              \A o \in op'[p].outs : op'[p].want[o] \in Recipe
    BY DEF ChoiceOk, Holds
  <2>2. pc' \in [Process -> Holding \cup {"idle", "waiting"}]
    BY TypeStep DEF TypeInv, TypeOK
  <2>3. CASE pc'[p] \in {"waiting", "plan"}
    BY <1>1, <1>3, <2>1, <2>3, RequestHeld DEF ChoiceOk, Holding
  <2>4. CASE pc'[p] \in Holding \ {"plan"}
    <3>1. CASE Acquire(p) /\ pc'[p] = "intent"
      BY <1>1, <2>1, <3>1 DEF Acquire, OpType
    <3>2. CASE PlanApply(p)
      <4> DEFINE want == [o \in Output |-> IF o \in op[p].outs THEN Kept(p, o) ELSE None]
      <4>1. PICK todo : op' = [op EXCEPT ![p].base = rows, ![p].want = want, ![p].todo = todo]
        BY <3>2 DEF PlanApply
      <4>2. StoreType /\ op[p].req \in Recipe /\ op[p].outs \subseteq Output
        BY <1>1, <3>2 DEF PlanApply, TypeInv, TypeOK, StoreType, Shape, OpType
      <4>3. /\ op'[p].kind = op[p].kind /\ op'[p].outs = op[p].outs
            /\ \A o \in op[p].outs : op'[p].want[o] = Kept(p, o)
        <5>1. op[p] \in OpType /\ op'[p] = [op[p] EXCEPT !.base = rows, !.want = want, !.todo = todo]
          BY <1>1, <4>1
        <5> HIDE DEF want
        <5>2. op'[p].kind = op[p].kind /\ op'[p].outs = op[p].outs /\ op'[p].want = want
          BY <5>1 DEF OpType
        <5>3. QED
          BY <4>2, <5>2 DEF want
      <4>4. op[p].outs # {}
        BY <1>1, <2>1, <3>2, <4>3 DEF ChoiceOk, PlanApply
      <4>5. QED
        BY <4>2, <4>3, <4>4, KeptType
    <3>3. CASE PlanRestore(p) \/ PlanRecover(p) \/ PlanSettings(p)
      <4>1. op[p].kind # "apply_set"
        BY <3>3 DEF PlanRestore, PlanRecover, PlanSettings
      <4>2. op'[p].kind = op[p].kind
        <5>1. PICK base, outs, want, todo :
                /\ op'[p] = [op[p] EXCEPT !.base = base, !.outs = outs, !.want = want,
                                          !.todo = todo]
                /\ Covers(todo, outs)
          BY <3>3, PlansCover, Zenon DEF Plans
        <5>2. QED
          BY <1>1, <5>1 DEF OpType
      <4>3. QED
        BY <2>1, <4>1, <4>2
    <3>4. CASE /\ op'[p].kind = op[p].kind /\ op'[p].outs = op[p].outs
               /\ op'[p].want = op[p].want
               /\ Holds(p) /\ pc[p] # "plan"
      BY <1>1, <2>1, <3>4 DEF ChoiceOk, Holds, Holding
    <3>5. QED
      BY <1>3, <2>4, <3>1, <3>2, <3>3, <3>4, RequestKept
  <2>5. QED
    BY <2>1, <2>2, <2>3, <2>4
<1>4. ASSUME NEW q \in Process, ProcessStep(q), q # p
      PROVE  ChoiceOk(p)'
  BY <1>2, <1>4, OthersLocals
<1>5. CASE \E s \in Session : Environment(s)
  <2>1. \/ op'[p] = op[p] /\ pc'[p] = pc[p]
        \/ pc'[p] = "idle"
    BY <1>1, <1>5 DEF Environment, SessionEnds, RendererExit, ForeignStart
  <2>2. QED
    BY <1>2, <2>1 DEF ChoiceOk
<1>6. CASE Quiescent \/ UNCHANGED vars
  BY <1>2, <1>6 DEF Quiescent, vars
<1>7. QED
  BY <1>3, <1>4, <1>5, <1>6 DEF Next, ProcessStep

\* A commit that writes a target gives it the revision that follows the one it had.
LEMMA CommitAdvances ==
    ASSUME TypeInv, NEW p \in Process, ChoiceOk(p), Commit(p), rows' # rows
    PROVE  rev' # rev
<1>1. /\ op[p] \in OpType /\ rev \in [Target -> Nat] /\ rows \in [Target -> MaybeRecipe]
      /\ op[p].kind \in Applying => op[p].req \in Recipe /\ op[p].req # None
      /\ op[p].outs \subseteq Output /\ AllDisplays \notin Output
  BY ConstantsAssumption DEF TypeInv, TypeOK, OpType, Shape
<1>2. SUFFICES \E t \in Target : rev'[t] = rev[t] + 1
  BY <1>1
<1>3. CASE op[p].kind \in Applying /\ CommitApply(p)
  <2> DEFINE Undone(t) == IF Intended(p)[t] = None THEN <<None, 0>>
                          ELSE IF t \in Written(p) THEN <<Intended(p)[t], rev[t] + 1>>
                          ELSE Preserved(t, Intended(p)[t])
  <2>1. \A t \in Target : rev'[t] = Undone(t)[2]
    BY <1>3 DEF CommitApply
  <2>2. \E t \in Target : t \in Written(p)
    <3>1. CASE op[p].kind = "apply_all"
      <4>1. AllDisplays \in Target /\ Intended(p)[AllDisplays] = op[p].req
        BY <1>1, <3>1 DEF Intended, Target
      <4>2. QED
        BY <1>1, <3>1, <4>1 DEF Written, Applying
    <3>2. CASE op[p].kind = "apply_set"
      <4>1. PICK o \in op[p].outs : op[p].want[o] \in Recipe
        BY <3>2 DEF ChoiceOk, Commit, Holds, Holding
      <4>2. o \in Target /\ Intended(p)[o] = op[p].want[o] /\ op[p].want[o] # None
        BY <1>1, <3>2, <4>1, ConstantsAssumption DEF Intended, Target
      <4>3. QED
        BY <4>1, <4>2 DEF Written
    <3>3. QED
      BY <1>3, <3>1, <3>2 DEF Applying
  <2>3. PICK t \in Target : t \in Written(p)
    BY <2>2
  <2>4. rev'[t] = rev[t] + 1
    BY <2>1, <2>3 DEF Written
  <2>5. QED
    BY <2>4
<1>4. CASE CommitSettings(p)
  <2>1. PICK t \in Target : t \in op[p].outs
    BY <1>1, <1>4 DEF CommitSettings, Target
  <2>2. rev'[t] = rev[t] + 1
    BY <1>4, <2>1 DEF CommitSettings
  <2>3. QED
    BY <2>2
<1>5. QED
  BY <1>3, <1>4 DEF Commit, store

LEMMA ChoiceInvInit == Init => ChoiceInv
  BY DEF Init, ChoiceInv, ChoiceOk

\* No commit that changes assignments leaves the revisions as they were, whichever rows
\* it removes, inserts again or gives back what they had.
THEOREM RevisionsTell == Spec => FingerprintFaithful
<1> DEFINE Tells == rows' # rows => rev' # rev
<1>1. TypeInv /\ ChoiceInv /\ [Next]_vars => [Tells]_vars
  <2> SUFFICES ASSUME TypeInv, ChoiceInv, Next, rows' # rows
               PROVE  rev' # rev
    OBVIOUS
  <2>1. CASE \E p \in Process : ProcessStep(p)
    BY <2>1, StoreWriters, CommitAdvances DEF ChoiceInv, store
  <2>2. CASE \E s \in Session : Environment(s)
    BY <2>2 DEF Environment, SessionEnds, RendererExit, ForeignStart, store
  <2>3. CASE Quiescent
    BY <2>3 DEF Quiescent, vars
  <2>4. QED
    BY <2>1, <2>2, <2>3 DEF Next, ProcessStep
<1>2. QED
  BY <1>1, LockInit, LockStep, TypeInit, TypeStep, ChoiceInvInit, ChoiceInvStep, PTL
     DEF Spec, FingerprintFaithful
=============================================================================
