-------------------------- MODULE DisplayOperation --------------------------
(***************************************************************************)
(* The display operation: the one protocol by which every process of the   *)
(* application (GUI, command line, output watcher) changes what a display  *)
(* shows.  src/crates/wc-app/src/display_operation.rs holds `execute` (an  *)
(* Apply, a Restore, the recovery of a returned output, a change of        *)
(* rendering settings) and `stop_displays_with_runtime` (a Stop); they     *)
(* call the planner, the executor of wc-backend, the assignment store, the *)
(* operation journal and the stop intents.                                 *)
(*                                                                         *)
(* A renderer is what really occupies a display: `shown` is the world, the *)
(* program only observes it.  A recipe is a media file, the one backend    *)
(* that renders it and that backend's options.                             *)
(***************************************************************************)
EXTENDS Naturals, Sequences, FiniteSets

CONSTANTS
    Session,       \* compositor sessions (one lock file and intents file each)
    Process,       \* processes that may run display operations
    SessionOf,     \* the session a process belongs to
    Output,        \* output names
    Connected,     \* the outputs connected in each session
    Recipe,        \* render recipes
    Backend,       \* renderer backends
    BackendOf,     \* the backend of a recipe
    FileOf,        \* the media file of a recipe
    OptionsOf,     \* the rendering options of a recipe
    Configured,    \* the options of each backend in the configuration
    Shared,        \* the backends that are one daemon and replace in place
    AllDisplays,   \* the key of the template row that covers every output
    None,          \* "no recipe", "no process", "no output"
    SavedAtStart,  \* saved assignments an earlier run may have left
    MaxExecuting,  \* journal rows that may be 'executing' (32 in the code)
    KeepClosed,    \* closed journal rows a finish keeps (64 in the code)
    Kinds,         \* bound: the kinds of requests made
    MaxOps,        \* bound: requests made
    MaxFaults      \* bound: crashes, renderer exits and foreign renderers

Target == Output \cup {AllDisplays}
MaybeRecipe == Recipe \cup {None}

ASSUME ConstantsAssumption ==
    /\ IsFiniteSet(Output) /\ IsFiniteSet(Backend)
    /\ SessionOf \in [Process -> Session]
    /\ Connected \in [Session -> SUBSET Output]
    /\ BackendOf \in [Recipe -> Backend]
    /\ \A r, x \in Recipe : BackendOf[r] = BackendOf[x] =>
          \E y \in Recipe : /\ BackendOf[y] = BackendOf[r]
                            /\ FileOf[y] = FileOf[r] /\ OptionsOf[y] = OptionsOf[x]
    /\ \A r \in Recipe : \E y \in Recipe :
          /\ BackendOf[y] = BackendOf[r] /\ FileOf[y] = FileOf[r]
          /\ OptionsOf[y] = Configured[BackendOf[r]]
    /\ Shared \subseteq Backend
    /\ AllDisplays \notin Output
    /\ None \notin Recipe \cup Process \cup Output
    /\ SavedAtStart \subseteq [Target -> MaybeRecipe]
    /\ MaxExecuting \in Nat /\ KeepClosed \in Nat
    /\ MaxOps \in Nat /\ MaxFaults \in Nat

VARIABLES
    alive,      \* sessions whose compositor still runs
    lock,       \* the process that holds the session's mutation lock, or None
    shown,      \* shown[s][o]: the recipes with a live renderer on o
    disturbed,  \* history: outputs something else changed under a held lock
                \* and that its holder has not looked at since
    stopped,    \* outputs with a stop intent in the session's intents file
    rows,       \* saved assignments, by target (one database for all sessions)
    rev,        \* their assignment_revision; 0 where there is no row
    journal,    \* display_operations rows, in rowid order
    pc,         \* where each process stands in its operation
    op,         \* the locals of that operation
    ops,        \* requests made so far
    faults      \* faults so far

store == <<rows, rev>>
world == <<alive, shown, disturbed>>
vars == <<alive, lock, shown, disturbed, stopped, rows, rev, journal, pc, op,
          ops, faults>>

-----------------------------------------------------------------------------
(* The locals of one operation.                                            *)

Applying == {"apply_all", "apply_set"}
Kind == Applying \cup {"none", "recover", "restore", "settings", "stop"}
SwitchOutcome == {"none", "Applied", "Stopped", "Unchanged", "RestoredPrevious",
                  "Partial", "RecoveryFailed", "Unknown"}
Step == [act : {"stop", "apply"}, be : Backend, scope : SUBSET Output, at : Nat]

NoRecipes == [o \in Output |-> None]
NoneTried == [o \in Output |-> {}]
NoResults == [o \in Output |-> "none"]

NoOp == [kind |-> "none",       \* the request
         outs |-> {},           \* the batch: the outputs it is about
         req |-> None,          \* the recipe an Apply asks for
         explicit |-> FALSE,    \* ... together with its options
         want |-> NoRecipes,    \* the recipe each output of the batch shall show
         base |-> [t \in Target |-> None],  \* rows the new mapping starts from
         revs |-> [t \in Target |-> 0],     \* revisions seen by the preflight
         read |-> [t \in Target |-> None],  \* rows read by the preflight
         seen |-> NoneTried,    \* ownership and renderer identities observed
         before |-> NoRecipes,  \* the confirmed recipe to go back to
         todo |-> {},           \* prepared actions not yet executed
         tried |-> NoneTried,   \* backends with an attempted action, by output
         unsure |-> {},         \* outputs whose cleanup is uncertain
         left |-> {},           \* outputs still to verify, or backends to stop
         cur |-> None,          \* the output being compensated
         result |-> NoResults,  \* the report
         outcome |-> "none",
         id |-> 0,              \* the journal row of the operation
         start |-> NoneTried]   \* history: what was shown under a new lock

\* A program counter at which the process holds the session's mutation lock.
Holding == {"plan", "intent", "preflight", "revalidate", "begin", "recheck",
            "execute", "verify", "commit", "arm", "compensate", "retire",
            "reapply", "confirm", "observe", "finish"}

\* ... and at which it has entered its operation in the journal.
Journaled == {"recheck", "execute", "verify", "commit", "arm", "compensate",
              "retire", "reapply", "confirm", "observe", "finish"}

Of(p) == SessionOf[p]
Holds(p) == pc[p] \in Holding

\* The backends with live evidence on an output; at most one is unambiguous.
OwnersIn(w, o) == {BackendOf[r] : r \in w[o]}
Owners(s, o) == OwnersIn(shown[s], o)
Ambiguous(s, o) == Cardinality(Owners(s, o)) > 1

\* What a second look compares: ownership, and the identity of each renderer
\* process.  The daemon's identity does not tell which image it displays.
Fingerprint(s, o) == Owners(s, o) \cup {r \in shown[s][o] : BackendOf[r] \notin Shared}

\* The saved assignment of an output: its own row, else the template.
Effective(table, o) == IF table[o] # None THEN table[o] ELSE table[AllDisplays]

\* A row of display_state holds the path and the backend of its recipe.
SameRow(r, x) == FileOf[r] = FileOf[x] /\ BackendOf[r] = BackendOf[x]

\* The file of r, rendered by its backend with these options.
Rendering(r, options) ==
    CHOOSE x \in Recipe : SameRow(x, r) /\ OptionsOf[x] = options

Init ==
    /\ alive = Session
    /\ lock = [s \in Session |-> None]
    /\ rows \in SavedAtStart
    /\ rev = [t \in Target |-> IF rows[t] = None THEN 0 ELSE 1]
    /\ \E up \in [Session -> SUBSET Output] :
          shown = [s \in Session |-> [o \in Output |->
                     IF o \in up[s] \cap Connected[s] /\ Effective(rows, o) # None
                     THEN {Effective(rows, o)} ELSE {}]]
    /\ disturbed = [s \in Session |-> {}]
    /\ stopped = [s \in Session |-> {}]
    /\ journal = <<>>
    /\ pc = [p \in Process |-> "idle"]
    /\ op = [p \in Process |-> NoOp]
    /\ ops = 0
    /\ faults = 0

-----------------------------------------------------------------------------
(* Requests and the mutation lock.                                         *)

\* A request is made and its process waits for the lock.
Request(p, kind, outs, r, explicit) ==
    /\ pc[p] = "idle" /\ Of(p) \in alive /\ ops < MaxOps
    /\ kind \in Kinds /\ outs # {}
    /\ op' = [op EXCEPT ![p] = [NoOp EXCEPT !.kind = kind, !.outs = outs, !.req = r,
                                             !.explicit = explicit]]
    /\ pc' = [pc EXCEPT ![p] = "waiting"]
    /\ ops' = ops + 1
    /\ UNCHANGED <<world, lock, stopped, store, journal, faults>>

\* A client asks for one recipe on every display or on some of them.  A recipe
\* that does not come with its options gets the configured ones.
RequestApply(p) ==
    \E kind \in Applying, outs \in SUBSET Connected[Of(p)], r \in Recipe,
       explicit \in BOOLEAN :
       /\ kind = "apply_all" => outs = Connected[Of(p)]
       /\ ~explicit => OptionsOf[r] = Configured[BackendOf[r]]
       /\ Request(p, kind, outs, r, explicit)

\* A client asks to restore the saved assignments, the output watcher to restore
\* that of an output that came back, or a client to render the saved files with
\* other options.
RequestRestore(p) ==
    \E kind \in {"restore", "recover", "settings"}, outs \in SUBSET Connected[Of(p)] :
       /\ kind = "recover" => Cardinality(outs) = 1
       /\ Request(p, kind, outs, None, FALSE)

\* A client asks to stop some outputs, whether they are connected or not.
RequestStop(p) ==
    \E outs \in SUBSET Output : Request(p, "stop", outs, None, FALSE)

\* Mutant: the lock is not tried.
AcquireUnlocked(p) ==
    /\ pc[p] = "waiting"
    /\ lock' = [lock EXCEPT ![Of(p)] = p]
    /\ pc' = [pc EXCEPT ![p] = IF op[p].kind = "stop" THEN "intent" ELSE "plan"]
    /\ op' = [op EXCEPT ![p].start = shown[Of(p)]]
    /\ disturbed' = [disturbed EXCEPT ![Of(p)] = {}]
    /\ UNCHANGED <<alive, shown, stopped, store, journal, ops, faults>>

\* RendererMutationGuard::acquire succeeds.
Acquire(p) ==
    /\ pc[p] = "waiting" /\ lock[Of(p)] = None
    /\ lock' = [lock EXCEPT ![Of(p)] = p]
    /\ pc' = [pc EXCEPT ![p] = IF op[p].kind = "stop" THEN "intent" ELSE "plan"]
    /\ op' = [op EXCEPT ![p].start = shown[Of(p)]]
    /\ disturbed' = [disturbed EXCEPT ![Of(p)] = {}]
    /\ UNCHANGED <<alive, shown, stopped, store, journal, ops, faults>>

\* The guard gives up after its deadline; nothing has been touched.
AcquireTimeout(p) ==
    /\ pc[p] = "waiting" /\ lock[Of(p)] # None
    /\ pc' = [pc EXCEPT ![p] = "idle"]
    /\ op' = [op EXCEPT ![p] = NoOp]
    /\ UNCHANGED <<world, lock, stopped, store, journal, ops, faults>>

\* The operation returns: its locals are gone and the guard is dropped.
Return(p) ==
    /\ pc' = [pc EXCEPT ![p] = "idle"]
    /\ op' = [op EXCEPT ![p] = NoOp]
    /\ lock' = [lock EXCEPT ![Of(p)] = None]
    /\ disturbed' = [disturbed EXCEPT ![Of(p)] = {}]

\* A check before the first renderer action fails: the request is rejected.
\* A rejection after the journal row was written leaves the row 'executing'.
Refuse(p) ==
    /\ pc[p] \in {"plan", "intent", "preflight", "revalidate", "begin", "recheck"}
    /\ Return(p)
    /\ UNCHANGED <<alive, shown, stopped, store, journal, ops, faults>>

-----------------------------------------------------------------------------
(* Planning.                                                               *)

\* A backend that cannot replace in place is stopped before it is applied.
NeedsStop(current, target) == current # target \/ target \notin Shared

\* The occupant the planner of All Displays assumes: the observed one, or the
\* saved claim where the observation is ambiguous.
Claimed(s, o) ==
    IF ~Ambiguous(s, o) THEN Owners(s, o)
    ELSE IF Effective(rows, o) = None THEN {} ELSE {BackendOf[Effective(rows, o)]}

Stop(be, scope, at) == [act |-> "stop", be |-> be, scope |-> scope, at |-> at]
Apply(be, scope, at) == [act |-> "apply", be |-> be, scope |-> scope, at |-> at]

\* One invocation for a shared daemon, one process per output otherwise.
ApplyGroups(be, outs, at) ==
    IF be \in Shared THEN {Apply(be, outs, at)}
    ELSE {Apply(be, {o}, at) : o \in outs}

\* plan_all_displays, then the stops of implicated backends it did not plan.
PlanAll(s, be) ==
    LET outs == Connected[s]
        On(b) == {o \in outs : b \in Claimed(s, o)}
        planned == {b \in Backend : On(b) # {} /\ NeedsStop(b, be)}
        implicated == UNION {Owners(s, o) : o \in Output}
    IN  {Stop(b, On(b), IF b = be THEN 2 ELSE 1) : b \in planned}
        \cup {Stop(b, outs, 3) : b \in {x \in implicated \ planned : NeedsStop(x, be)}}
        \cup ApplyGroups(be, outs, 4)

\* plan_output_set: every stop, then every apply, each confined to its output.
PlanSet(s, outs, be) ==
    {Stop(x[1], {x[2]}, 1) : x \in {y \in Backend \X outs :
                              y[1] \in Owners(s, y[2]) /\ NeedsStop(y[1], be)}}
    \cup {Apply(be, {o}, 4) : o \in outs}

\* One step per output, its stop directly before its apply, in the order `pos`
\* of the output list; a restore takes the outputs of the shared daemon first.
PlanSteps(s, outs, want, pos, shared_first) ==
    LET Class(o) == IF shared_first /\ BackendOf[want[o]] \notin Shared
                    THEN Cardinality(Output) ELSE 0
        At(o) == 2 * (Class(o) + pos[o])
    IN  {Stop(x[1], {x[2]}, At(x[2])) : x \in {y \in Backend \X outs :
              y[1] \in Owners(s, y[2]) /\ NeedsStop(y[1], BackendOf[want[y[2]]])}}
        \cup {Apply(BackendOf[want[o]], {o}, At(o) + 1) : o \in outs}

\* An Apply whose request does not come with options keeps the options each
\* output has saved, if they belong to the same backend.
Kept(p, o) ==
    LET r == op[p].req IN
    IF ~op[p].explicit /\ rows[o] # None /\ BackendOf[rows[o]] = BackendOf[r]
    THEN Rendering(r, OptionsOf[rows[o]]) ELSE r

\* execute_resolved_display_apply, down to the call of `execute`.  Outputs that
\* differ in their options are applied one by one.
PlanApply(p) ==
    LET s == Of(p)
        be == BackendOf[op[p].req]
        want == [o \in Output |-> IF o \in op[p].outs THEN Kept(p, o) ELSE None]
        plan == IF op[p].kind = "apply_all" THEN PlanAll(s, be)
                ELSE PlanSet(s, op[p].outs, be)
        alike == \A o \in op[p].outs : want[o] = op[p].req
    IN  /\ pc[p] = "plan" /\ op[p].kind \in Applying
        /\ op[p].kind = "apply_set" => \A o \in Connected[s] : ~Ambiguous(s, o)
        /\ op' = [op EXCEPT ![p].base = rows, ![p].want = want,
                            ![p].todo = IF alike THEN plan
                                        ELSE {a \in plan : a.act = "stop"}
                                             \cup {Apply(be, {o}, 4) : o \in op[p].outs}]
        /\ pc' = [pc EXCEPT ![p] = "preflight"]
        /\ UNCHANGED <<world, lock, stopped, store, journal, ops, faults>>

Orders(S) == {f \in [S -> 1..Cardinality(S)] : \A a, b \in S : f[a] = f[b] => a = b}

\* The plan of one recipe per output becomes the operation's.
Planned(p, outs, want, shared_first) ==
    /\ pc[p] = "plan" /\ outs # {}
    /\ \E pos \in Orders(outs) :
          op' = [op EXCEPT ![p].outs = outs, ![p].want = want,
                           ![p].todo = PlanSteps(Of(p), outs, want, pos, shared_first)]
    /\ pc' = [pc EXCEPT ![p] = "preflight"]
    /\ UNCHANGED <<world, lock, stopped, store, journal, ops, faults>>

\* The saved assignments of these outputs.
Saved(outs) == [o \in Output |-> IF o \in outs THEN Effective(rows, o) ELSE None]

\* restore_displays_report_with_commit_seam.  The restore after login adopts
\* outputs that already show their assignment (skip_confirmed).
PlanRestore(p) ==
    /\ op[p].kind = "restore"
    /\ \E skip_confirmed \in BOOLEAN :
       LET outs == {o \in op[p].outs :
                      /\ Effective(rows, o) # None
                      /\ ~(skip_confirmed /\ shown[Of(p)][o] = {Effective(rows, o)})}
       IN  Planned(p, outs, Saved(outs), TRUE)

\* Mutant: the watcher does not look at the stop intents.
PlanRecoverStopped(p) ==
    /\ op[p].kind = "recover"
    /\ \A o \in op[p].outs : Effective(rows, o) # None
    /\ \A o \in Connected[Of(p)] : ~Ambiguous(Of(p), o)
    /\ Planned(p, op[p].outs, Saved(op[p].outs), FALSE)

\* The watcher looks at the stop intents under the same lock as it restores the
\* assignment of a returned output.
PlanRecover(p) ==
    /\ op[p].kind = "recover"
    /\ op[p].outs \cap stopped[Of(p)] = {}
    /\ \A o \in op[p].outs : Effective(rows, o) # None
    /\ \A o \in Connected[Of(p)] : ~Ambiguous(Of(p), o)
    /\ Planned(p, op[p].outs, Saved(op[p].outs), FALSE)

\* update_display_rendering_with_runtime: other options of one backend.
PlanSettings(p) ==
    /\ op[p].kind = "settings"
    /\ \A o \in op[p].outs : Effective(rows, o) # None
    /\ \E r \in Recipe :
          /\ \A o \in op[p].outs : BackendOf[Effective(rows, o)] = BackendOf[r]
          /\ LET want == [o \in Output |->
                            IF o \in op[p].outs
                            THEN Rendering(Effective(rows, o), OptionsOf[r]) ELSE None]
             IN  Planned(p, op[p].outs, want, FALSE)

\* Mutant: no intent for an output that shows nothing anyway.
RecordIntentIfOccupied(p) ==
    LET s == Of(p) IN
    /\ pc[p] = "intent"
    /\ stopped' = [stopped EXCEPT ![s] = @ \cup {o \in op[p].outs : shown[s][o] # {}}]
    /\ pc' = [pc EXCEPT ![p] = "preflight"]
    /\ UNCHANGED <<op, lock, world, store, journal, ops, faults>>

\* A Stop records its intent before anything can fail; the file is written
\* before the database, whose failure rejects the Stop with the intent set.
RecordIntent(p) ==
    LET s == Of(p) IN
    /\ pc[p] = "intent"
    /\ stopped' = [stopped EXCEPT ![s] = @ \cup op[p].outs]
    /\ \/ /\ pc' = [pc EXCEPT ![p] = "preflight"]
          /\ UNCHANGED <<op, lock, disturbed>>
       \/ Return(p)
    /\ UNCHANGED <<alive, shown, store, journal, ops, faults>>

-----------------------------------------------------------------------------
(* Preflight and journal.                                                  *)

\* A renderer may be replaced only if it can be put back: an occupied output
\* must show, verifiably, the recipe saved for it.
Recoverable(s, o) ==
    /\ ~Ambiguous(s, o)
    /\ Owners(s, o) # {} =>
          /\ Effective(rows, o) # None
          /\ shown[s][o] = {Effective(rows, o)}

Snapshot(s) == [o \in Output |-> Fingerprint(s, o)]

\* preflight, up to the preparation of every action and of every recovery.
Preflight(p) ==
    LET s == Of(p) IN
    /\ pc[p] = "preflight" /\ op[p].kind # "stop"
    /\ \A o \in op[p].outs : Recoverable(s, o)
    /\ op' = [op EXCEPT ![p].revs = rev, ![p].read = rows, ![p].seen = Snapshot(s),
                        ![p].before = [o \in Output |->
                            IF o \in op[p].outs /\ Owners(s, o) # {}
                            THEN Effective(rows, o) ELSE None]]
    /\ pc' = [pc EXCEPT ![p] = "revalidate"]
    /\ UNCHANGED <<world, lock, stopped, store, journal, ops, faults>>

\* The same for a Stop: one stop per backend that owns some of the outputs.
PreflightStop(p) ==
    LET s == Of(p)
        On(b) == {o \in op[p].outs : Owners(s, o) = {b}}
    IN  /\ pc[p] = "preflight" /\ op[p].kind = "stop"
        /\ \A o \in op[p].outs : ~Ambiguous(s, o)
        /\ op' = [op EXCEPT ![p].revs = rev, ![p].read = rows, ![p].seen = Snapshot(s),
                            ![p].todo = {Stop(b, On(b), 1) :
                                           b \in {x \in Backend : On(x) # {}}}]
        /\ pc' = [pc EXCEPT ![p] = "revalidate"]
        /\ UNCHANGED <<world, lock, stopped, store, journal, ops, faults>>

\* Nothing may have changed while the actions were prepared.
Revalidate(p) ==
    /\ pc[p] = "revalidate"
    /\ rev = op[p].revs
    /\ \A o \in Connected[Of(p)] \cup op[p].outs : Fingerprint(Of(p), o) = op[p].seen[o]
    /\ pc' = [pc EXCEPT ![p] = "begin"]
    /\ UNCHANGED <<world, lock, stopped, store, journal, op, ops, faults>>

Executing(j) == {i \in DOMAIN j : j[i].phase = "executing"}

\* Mutant: nothing is reconciled.
ReconciledNever(s) == journal

\* Mutant: the rows of every session are.
ReconciledEverywhere(s) ==
    [i \in DOMAIN journal |->
        IF i \in Executing(journal) THEN [journal[i] EXCEPT !.phase = "interrupted_observed"]
        ELSE journal[i]]

\* reconcile_interrupted: what this session left executing was interrupted.
Reconciled(s) ==
    [i \in DOMAIN journal |->
        IF i \in Executing(journal) /\ journal[i].session = s
        THEN [journal[i] EXCEPT !.phase = "interrupted_observed"] ELSE journal[i]]

\* journal_begin; a Stop begins its row without reconciling.
JournalBegin(p) ==
    LET s == Of(p)
        j == IF op[p].kind = "stop" THEN journal ELSE Reconciled(s)
    IN  /\ pc[p] = "begin"
        /\ Cardinality(Executing(j)) < MaxExecuting
        /\ journal' = Append(j, [session |-> s, by |-> p, phase |-> "executing"])
        /\ op' = [op EXCEPT ![p].id = Len(journal) + 1]
        /\ pc' = [pc EXCEPT ![p] = "recheck"]
        /\ UNCHANGED <<world, lock, stopped, store, ops, faults>>

\* Too many rows are executing.  Reconciling is not undone by the rejection.
JournalFull(p) ==
    LET j == IF op[p].kind = "stop" THEN journal ELSE Reconciled(Of(p)) IN
    /\ pc[p] = "begin"
    /\ Cardinality(Executing(j)) >= MaxExecuting
    /\ journal' = j
    /\ Return(p)
    /\ UNCHANGED <<alive, shown, stopped, store, ops, faults>>

\* assignment_revisions_unchanged, once more after the journal row is written.
Recheck(p) ==
    /\ pc[p] = "recheck"
    /\ rev = op[p].revs
    /\ pc' = [pc EXCEPT ![p] = "execute"]
    /\ UNCHANGED <<world, lock, stopped, store, journal, op, ops, faults>>

-----------------------------------------------------------------------------
(* What a renderer command does to a session's displays.                   *)

\* Mutant: a stop takes the backend down everywhere.
WithoutEverywhere(w, scope, bs) == [o \in Output |-> {r \in w[o] : BackendOf[r] \notin bs}]

\* Backends `bs` no longer render on the outputs of `scope`.
Without(w, scope, bs) ==
    [o \in Output |-> IF o \in scope THEN {r \in w[o] : BackendOf[r] \notin bs} ELSE w[o]]

\* Outputs a renderer process covers; the shared daemon must not obscure them.
Foreign(w) == {o \in Output : OwnersIn(w, o) \ Shared # {}}

\* `want` is rendered on `scope` by backend be.  A shared daemon replaces its
\* image and lets go of outputs other renderers cover; a renderer process is
\* added after the shared daemon let go of its output.
Launched(w, be, scope, want) ==
    LET released == Without(w, IF be \in Shared THEN Foreign(w) ELSE scope, Shared) IN
    [o \in Output |-> IF o \in scope
                      THEN Without(released, scope, IF be \in Shared THEN {be} ELSE {})[o]
                           \cup {want[o]}
                      ELSE released[o]]

\* Each output independently as in f or as in g.
Mixed(f, g) == {[o \in Output |-> IF o \in D THEN g[o] ELSE f[o]] : D \in SUBSET Output}

\* A failed apply that is sure of its cleanup: the shared daemon may have
\* switched some outputs, another backend may only have been given room.
CleanFailures(w, be, scope, want) ==
    Mixed(w, IF be \in Shared THEN Launched(w, be, scope, want)
             ELSE Without(w, scope, Shared))

\* A failed apply that is not: the daemon may not have released the covered
\* outputs, the new process may have survived.
UnsureFailures(w, be, scope, want) ==
    IF be \in Shared THEN Mixed(w, Without(w, Foreign(w), Shared))
    ELSE Mixed(Without(w, scope, Shared), Launched(w, be, scope, want))

-----------------------------------------------------------------------------
(* execute_prepared_transitions.                                           *)

NextAction(p) == {a \in op[p].todo : \A x \in op[p].todo : a.at <= x.at}

\* The action is recorded as attempted before it is run.
Attempted(p, a) ==
    [o \in Output |-> IF o \in a.scope THEN op[p].tried[o] \cup {a.be} ELSE op[p].tried[o]]

\* A Stop never compensates; it remembers the error and looks at the displays.
AfterFailure(p) == IF op[p].kind = "stop" THEN "observe" ELSE "compensate"
ErrorMark(p) == IF op[p].kind = "stop" THEN "Partial" ELSE "none"

ExecuteOk(p) ==
    LET s == Of(p) IN
    /\ pc[p] = "execute"
    /\ \E a \in NextAction(p) :
          /\ shown' = [shown EXCEPT ![s] =
                IF a.act = "stop" THEN Without(@, a.scope, {a.be})
                ELSE Launched(@, a.be, a.scope, op[p].want)]
          /\ op' = [op EXCEPT ![p].todo = @ \ {a}, ![p].tried = Attempted(p, a)]
    /\ UNCHANGED <<alive, disturbed, lock, stopped, store, journal, pc, ops, faults>>

\* A refused action has attempted nothing: a stop is refused by its preflight, the
\* first action on its outputs when the media have changed since they were prepared.
ActionRefused(p) ==
    /\ pc[p] = "execute"
    /\ \E a \in NextAction(p) :
          a.act = "stop" \/ \A o \in a.scope : op[p].tried[o] = {}
    /\ op' = [op EXCEPT ![p].todo = {}, ![p].outcome = ErrorMark(p)]
    /\ pc' = [pc EXCEPT ![p] = AfterFailure(p)]
    /\ UNCHANGED <<world, lock, stopped, store, journal, ops, faults>>

\* A stop that fails leaves its whole scope uncertain.
StopFails(p) ==
    LET s == Of(p) IN
    /\ pc[p] = "execute"
    /\ \E a \in NextAction(p) :
          /\ a.act = "stop"
          /\ \E w \in Mixed(shown[s], Without(shown[s], a.scope, {a.be})) :
                shown' = [shown EXCEPT ![s] = w]
          /\ op' = [op EXCEPT ![p].todo = {}, ![p].tried = Attempted(p, a),
                              ![p].unsure = a.scope, ![p].outcome = ErrorMark(p)]
    /\ pc' = [pc EXCEPT ![p] = AfterFailure(p)]
    /\ UNCHANGED <<alive, disturbed, lock, stopped, store, journal, ops, faults>>

ApplyFails(p) ==
    LET s == Of(p) IN
    /\ pc[p] = "execute"
    /\ \E a \in NextAction(p), cleanup_uncertain \in BOOLEAN :
          /\ a.act = "apply"
          /\ \E w \in IF cleanup_uncertain
                      THEN UnsureFailures(shown[s], a.be, a.scope, op[p].want)
                      ELSE CleanFailures(shown[s], a.be, a.scope, op[p].want) :
                shown' = [shown EXCEPT ![s] = w]
          /\ op' = [op EXCEPT ![p].todo = {}, ![p].tried = Attempted(p, a),
                              ![p].unsure = IF cleanup_uncertain THEN a.scope ELSE {}]
    /\ pc' = [pc EXCEPT ![p] = "compensate"]
    /\ UNCHANGED <<alive, disturbed, lock, stopped, store, journal, ops, faults>>

\* Every action succeeded.
Executed(p) ==
    /\ pc[p] = "execute" /\ op[p].todo = {}
    /\ IF op[p].kind = "stop"
       THEN pc' = [pc EXCEPT ![p] = "observe"] /\ UNCHANGED op
       ELSE pc' = [pc EXCEPT ![p] = "verify"] /\ op' = [op EXCEPT ![p].left = op[p].outs]
    /\ UNCHANGED <<world, lock, stopped, store, journal, ops, faults>>

-----------------------------------------------------------------------------
(* Verify, commit, arm.                                                    *)

\* The process has looked at these outputs.
Seen(p, outs) == disturbed' = [disturbed EXCEPT ![Of(p)] = @ \ outs]

\* Mutant: the verification is skipped.
VerifyOutputBlindly(p) ==
    /\ pc[p] = "verify"
    /\ \E o \in op[p].left : op' = [op EXCEPT ![p].left = @ \ {o}] /\ Seen(p, {o})
    /\ UNCHANGED <<alive, shown, lock, stopped, store, journal, pc, ops, faults>>

\* verify_recipe confirms one output.
VerifyOutput(p) ==
    /\ pc[p] = "verify"
    /\ \E o \in op[p].left :
          /\ shown[Of(p)][o] = {op[p].want[o]}
          /\ op' = [op EXCEPT ![p].left = @ \ {o}]
          /\ Seen(p, {o})
    /\ UNCHANGED <<alive, shown, lock, stopped, store, journal, pc, ops, faults>>

Verified(p) ==
    /\ pc[p] = "verify" /\ op[p].left = {}
    /\ pc' = [pc EXCEPT ![p] = "commit"]
    /\ UNCHANGED <<world, lock, stopped, store, journal, op, ops, faults>>

\* A verification or the commit fails: compensate, with nothing uncertain.
VerifyOrCommitFails(p) ==
    /\ pc[p] = "commit" \/ (pc[p] = "verify" /\ op[p].left # {})
    /\ pc' = [pc EXCEPT ![p] = "compensate"]
    /\ op' = [op EXCEPT ![p].left = {}]
    /\ UNCHANGED <<world, lock, stopped, store, journal, ops, faults>>

\* Mutant: All Displays leaves the rows of connected outputs.
IntendedOverTemplate(p) ==
    [t \in Target |->
        IF op[p].kind = "apply_all" /\ t = AllDisplays THEN op[p].req
        ELSE IF op[p].kind = "apply_set" /\ t \in op[p].outs THEN op[p].want[t]
        ELSE op[p].base[t]]

\* intended_display_state: All Displays replaces the template and the rows of
\* connected outputs; a subset replaces the rows of its outputs.  An Apply whose
\* outputs differ in their options saves a row for each of them.
Intended(p) ==
    LET alike == \A o \in op[p].outs : op[p].want[o] = op[p].req IN
    [t \in Target |->
        IF t \in op[p].outs
        THEN IF op[p].kind = "apply_all" /\ alike THEN None ELSE op[p].want[t]
        ELSE IF op[p].kind = "apply_all" /\ t = AllDisplays THEN op[p].req
        ELSE op[p].base[t]]

\* Mutant: All Displays does not write the recipe of the template.
WrittenOutputs(p) == {t \in op[p].outs : Intended(p)[t] # None}

\* The targets whose recipe the commit writes; other rows are inserted again.
Written(p) ==
    {t \in Target : Intended(p)[t] # None
                    /\ (t \in op[p].outs \/ (op[p].kind = "apply_all" /\ t = AllDisplays))}

\* Mutant: the columns are read in the wrong order.
PreservedSwapped(t, r) ==
    IF rows[t] # None /\ SameRow(rows[t], r) THEN <<rev[t], rows[t]>>
    ELSE <<Rendering(r, Configured[BackendOf[r]]), 1>>

\* display_recipe::preserve: a row that is inserted again gets back its recipe
\* and revision, that of the template if it is new and like it, or defaults.
Preserved(t, r) ==
    IF rows[t] # None /\ SameRow(rows[t], r) THEN <<rows[t], rev[t]>>
    ELSE IF rows[t] = None /\ rows[AllDisplays] # None /\ SameRow(rows[AllDisplays], r)
    THEN <<rows[AllDisplays], rev[AllDisplays]>>
    ELSE <<Rendering(r, Configured[BackendOf[r]]), 1>>

\* display_state_commit_recipe_batch replaces every row by the intended ones;
\* display_recipe::write bumps the revision of a target that had a row.
CommitApply(p) ==
    LET Undone(t) == IF Intended(p)[t] = None THEN <<None, 0>>
                    ELSE IF t \in Written(p) THEN <<Intended(p)[t], rev[t] + 1>>
                    ELSE Preserved(t, Intended(p)[t])
    IN  /\ rows' = [t \in Target |-> Undone(t)[1]]
        /\ rev' = [t \in Target |-> Undone(t)[2]]

\* display_state_commit_distinct_recipes writes the rows of the batch only.
CommitSettings(p) ==
    /\ rows' = [t \in Target |-> IF t \in op[p].outs THEN op[p].want[t] ELSE rows[t]]
    /\ rev' = [t \in Target |-> IF t \in op[p].outs THEN rev[t] + 1 ELSE rev[t]]

\* The commit of a restore, or of a recovery, changes nothing.
Commit(p) ==
    /\ pc[p] = "commit"
    /\ \/ op[p].kind \in Applying /\ CommitApply(p)
       \/ op[p].kind = "settings" /\ CommitSettings(p)
       \/ op[p].kind \in {"restore", "recover"} /\ UNCHANGED store
    /\ pc' = [pc EXCEPT ![p] = "arm"]
    /\ UNCHANGED <<world, lock, stopped, journal, op, ops, faults>>

\* set_output_stopped(false); a failure is only logged, and leaves the file
\* written when it is the database that failed.
Arm(p) ==
    LET s == Of(p) IN
    /\ pc[p] = "arm"
    /\ \/ stopped' = [stopped EXCEPT ![s] = @ \ op[p].outs]
       \/ UNCHANGED stopped
    /\ op' = [op EXCEPT ![p].outcome = "Applied",
                        ![p].result = [o \in Output |->
                            IF o \in op[p].outs THEN "Applied" ELSE "none"]]
    /\ pc' = [pc EXCEPT ![p] = "finish"]
    /\ UNCHANGED <<world, lock, store, journal, ops, faults>>

-----------------------------------------------------------------------------
(* compensate: put every output with an attempted action back, one by one. *)

\* Outputs reported without touching them again.
ReportOutput(p) ==
    /\ pc[p] = "compensate"
    /\ \E o \in op[p].outs :
          /\ op[p].result[o] = "none"
          /\ op' = [op EXCEPT ![p].result[o] =
                       IF op[p].tried[o] = {} THEN "Unchanged"
                       ELSE IF o \in op[p].unsure THEN "Unknown"
                       ELSE "RecoveryFailed"]    \* the recovery budget is exhausted
    /\ UNCHANGED <<world, lock, stopped, store, journal, pc, ops, faults>>

\* Mutant: outputs whose cleanup is uncertain are recovered too.
StartRecoveryAnyway(p) ==
    /\ pc[p] = "compensate"
    /\ \E o \in op[p].outs :
          /\ op[p].result[o] = "none" /\ op[p].tried[o] # {}
          /\ op' = [op EXCEPT ![p].cur = o,
                              ![p].todo = {Stop(b, {o}, 1) : b \in op[p].tried[o]}]
    /\ pc' = [pc EXCEPT ![p] = "retire"]
    /\ UNCHANGED <<world, lock, stopped, store, journal, ops, faults>>

\* An output that was attempted, with a certain cleanup, is recovered: stop
\* every backend attempted on it, then render what it showed before.
StartRecovery(p) ==
    /\ pc[p] = "compensate"
    /\ \E o \in op[p].outs \ op[p].unsure :
          /\ op[p].result[o] = "none" /\ op[p].tried[o] # {}
          /\ op' = [op EXCEPT ![p].cur = o,
                              ![p].todo = {Stop(b, {o}, 1) : b \in op[p].tried[o]}]
    /\ pc' = [pc EXCEPT ![p] = "retire"]
    /\ UNCHANGED <<world, lock, stopped, store, journal, ops, faults>>

\* Mutant: the report is forgotten, and the recovery starts again.
RecoveredAgain(p, outcome) ==
    /\ op' = [op EXCEPT ![p].cur = None, ![p].todo = {}]
    /\ pc' = [pc EXCEPT ![p] = "compensate"]

\* The recovery of the current output ends with this report.
Recovered(p, outcome) ==
    /\ op' = [op EXCEPT ![p].result[op[p].cur] = outcome, ![p].cur = None, ![p].todo = {}]
    /\ pc' = [pc EXCEPT ![p] = "compensate"]

RetireOk(p) ==
    LET s == Of(p) IN
    /\ pc[p] = "retire"
    /\ \E a \in op[p].todo :
          /\ shown' = [shown EXCEPT ![s] = Without(@, a.scope, {a.be})]
          /\ op' = [op EXCEPT ![p].todo = @ \ {a}]
    /\ UNCHANGED <<alive, disturbed, lock, stopped, store, journal, pc, ops, faults>>

\* A stop of the recovery is refused or fails.
RetireFails(p) ==
    LET s == Of(p) IN
    /\ pc[p] = "retire"
    /\ \E a \in op[p].todo :
          \E w \in Mixed(shown[s], Without(shown[s], a.scope, {a.be})) :
             shown' = [shown EXCEPT ![s] = w]
    /\ Recovered(p, "RecoveryFailed")
    /\ UNCHANGED <<alive, disturbed, lock, stopped, store, journal, ops, faults>>

Retired(p) ==
    /\ pc[p] = "retire" /\ op[p].todo = {}
    /\ pc' = [pc EXCEPT ![p] = IF op[p].before[op[p].cur] = None THEN "confirm"
                               ELSE "reapply"]
    /\ UNCHANGED <<world, lock, stopped, store, journal, op, ops, faults>>

\* The recovery prepared by the preflight is executed.
Reapply(p) ==
    LET s == Of(p)
        o == op[p].cur
        be == BackendOf[op[p].before[o]]
    IN  /\ pc[p] = "reapply"
        /\ \/ /\ shown' = [shown EXCEPT ![s] = Launched(@, be, {o}, op[p].before)]
              /\ pc' = [pc EXCEPT ![p] = "confirm"]
              /\ UNCHANGED op
           \/ /\ \E w \in CleanFailures(shown[s], be, {o}, op[p].before)
                          \cup UnsureFailures(shown[s], be, {o}, op[p].before) :
                    shown' = [shown EXCEPT ![s] = w]
              /\ Recovered(p, "RecoveryFailed")
        /\ UNCHANGED <<alive, disturbed, lock, stopped, store, journal, ops, faults>>

\* What an output is to show again.
Previous(p, o) == IF op[p].before[o] = None THEN {} ELSE {op[p].before[o]}

\* verify_recipe, or the confirmation that the output is vacant again.
ConfirmRestored(p) ==
    LET o == op[p].cur IN
    /\ pc[p] = "confirm"
    /\ shown[Of(p)][o] = Previous(p, o)
    /\ Recovered(p, "RestoredPrevious")
    /\ Seen(p, {o})
    /\ UNCHANGED <<alive, shown, lock, stopped, store, journal, ops, faults>>

ConfirmFails(p) ==
    /\ pc[p] = "confirm"
    /\ Recovered(p, "RecoveryFailed")
    /\ UNCHANGED <<world, lock, stopped, store, journal, ops, faults>>

\* The overall outcome of a failed operation.
Summary(p) ==
    LET Reported(c) == {o \in op[p].outs : op[p].result[o] = c} IN
    IF \A o \in op[p].outs : op[p].tried[o] = {} THEN "Unchanged"
    ELSE IF Reported("RecoveryFailed") \cup Reported("Unknown") = {} THEN "RestoredPrevious"
    ELSE IF Reported("RestoredPrevious") # {} THEN "Partial"
    ELSE IF op[p].unsure # {} THEN "Unknown" ELSE "RecoveryFailed"

Compensated(p) ==
    /\ pc[p] = "compensate"
    /\ \A o \in op[p].outs : op[p].result[o] # "none"
    /\ op' = [op EXCEPT ![p].outcome = Summary(p)]
    /\ pc' = [pc EXCEPT ![p] = "finish"]
    /\ UNCHANGED <<world, lock, stopped, store, journal, ops, faults>>

-----------------------------------------------------------------------------
(* The end of a Stop, and of every operation.                              *)

\* A Stop reports what it observes; a failed inspection confirms nothing.
ObserveStopped(p) ==
    /\ pc[p] = "observe"
    /\ \E inspected \in BOOLEAN :
       LET Vacant(o) == inspected /\ Owners(Of(p), o) = {} IN
       op' = [op EXCEPT
                ![p].result = [o \in Output |->
                    IF o \notin op[p].outs THEN "none"
                    ELSE IF Vacant(o) THEN "Stopped" ELSE "Unknown"],
                ![p].outcome = IF @ = "Partial" \/ \E o \in op[p].outs : ~Vacant(o)
                               THEN "Partial" ELSE "Stopped"]
    /\ Seen(p, op[p].outs)
    /\ pc' = [pc EXCEPT ![p] = "finish"]
    /\ UNCHANGED <<alive, shown, lock, stopped, store, journal, ops, faults>>

\* finish deletes closed rows but for the last KeepClosed of them.
Pruned(j) ==
    LET closed == {i \in DOMAIN j : j[i].phase \in {"finished", "interrupted_observed"}} IN
    [i \in DOMAIN j |->
        IF i \in closed /\ Cardinality({k \in closed : k > i}) >= KeepClosed
        THEN [j[i] EXCEPT !.phase = "deleted"] ELSE j[i]]

\* The outcome is journalled (a failure to do so is only logged) and the
\* operation returns its report.
Finish(p) ==
    /\ pc[p] = "finish"
    /\ \/ journal' = Pruned([i \in DOMAIN journal |->
             IF i = op[p].id /\ journal[i].phase # "deleted"
             THEN [journal[i] EXCEPT !.phase = "finished"] ELSE journal[i]])
       \/ UNCHANGED journal
    /\ Return(p)
    /\ UNCHANGED <<alive, shown, stopped, store, ops, faults>>

-----------------------------------------------------------------------------
(* What the program does not control.                                      *)

Disturb(s, o) ==
    disturbed' = IF lock[s] = None THEN disturbed
                 ELSE [disturbed EXCEPT ![s] = @ \cup {o}]

\* A process dies; the kernel drops its file lock.
Crash(p) ==
    /\ pc[p] # "idle" /\ faults < MaxFaults
    /\ faults' = faults + 1
    /\ pc' = [pc EXCEPT ![p] = "idle"]
    /\ op' = [op EXCEPT ![p] = NoOp]
    /\ IF Holds(p) THEN /\ lock' = [lock EXCEPT ![Of(p)] = None]
                        /\ disturbed' = [disturbed EXCEPT ![Of(p)] = {}]
                   ELSE UNCHANGED <<lock, disturbed>>
    /\ UNCHANGED <<alive, shown, stopped, store, journal, ops>>

\* A compositor exits: its processes, renderers and runtime files go with it.
SessionEnds(s) ==
    /\ s \in alive /\ faults < MaxFaults
    /\ faults' = faults + 1
    /\ alive' = alive \ {s}
    /\ pc' = [p \in Process |-> IF Of(p) = s THEN "idle" ELSE pc[p]]
    /\ op' = [p \in Process |-> IF Of(p) = s THEN NoOp ELSE op[p]]
    /\ lock' = [lock EXCEPT ![s] = None]
    /\ disturbed' = [disturbed EXCEPT ![s] = {}]
    /\ stopped' = [stopped EXCEPT ![s] = {}]
    /\ shown' = [shown EXCEPT ![s] = NoneTried]
    /\ UNCHANGED <<store, journal, ops>>

\* A renderer exits by itself.
RendererExit(s) ==
    /\ s \in alive /\ faults < MaxFaults
    /\ \E o \in Output, r \in Recipe :
          /\ r \in shown[s][o]
          /\ shown' = [shown EXCEPT ![s][o] = @ \ {r}]
          /\ Disturb(s, o)
    /\ faults' = faults + 1
    /\ UNCHANGED <<alive, lock, stopped, store, journal, pc, op, ops>>

\* Someone starts a renderer by hand.
ForeignStart(s) ==
    /\ s \in alive /\ faults < MaxFaults
    /\ \E o \in Connected[s], r \in Recipe :
          /\ r \notin shown[s][o]
          /\ shown' = [shown EXCEPT ![s][o] =
                {r} \cup IF BackendOf[r] \in Shared
                         THEN {x \in @ : BackendOf[x] # BackendOf[r]} ELSE @]
          /\ Disturb(s, o)
    /\ faults' = faults + 1
    /\ UNCHANGED <<alive, lock, stopped, store, journal, pc, op, ops>>

\* No request is being served and none is left to make in the bounded model.
Quiescent ==
    /\ \A p \in Process : pc[p] = "idle" /\ (ops = MaxOps \/ Of(p) \notin alive)
    /\ UNCHANGED vars

-----------------------------------------------------------------------------
(* The steps a process takes by itself once it has a request.              *)
Advance(p) ==
    \/ Acquire(p) \/ AcquireTimeout(p) \/ Refuse(p)
    \/ PlanApply(p) \/ PlanRestore(p) \/ PlanRecover(p) \/ PlanSettings(p)
    \/ RecordIntent(p)
    \/ Preflight(p) \/ PreflightStop(p) \/ Revalidate(p)
    \/ JournalBegin(p) \/ JournalFull(p) \/ Recheck(p)
    \/ ExecuteOk(p) \/ ActionRefused(p) \/ StopFails(p) \/ ApplyFails(p) \/ Executed(p)
    \/ VerifyOutput(p) \/ Verified(p) \/ VerifyOrCommitFails(p) \/ Commit(p) \/ Arm(p)
    \/ ReportOutput(p) \/ StartRecovery(p) \/ RetireOk(p) \/ RetireFails(p)
    \/ Retired(p) \/ Reapply(p) \/ ConfirmRestored(p) \/ ConfirmFails(p)
    \/ Compensated(p) \/ ObserveStopped(p) \/ Finish(p)

Environment(s) == SessionEnds(s) \/ RendererExit(s) \/ ForeignStart(s)

Next ==
    \/ \E p \in Process : \/ RequestApply(p) \/ RequestRestore(p) \/ RequestStop(p)
                         \/ Advance(p) \/ Crash(p)
    \/ \E s \in Session : Environment(s)
    \/ Quiescent

Spec == Init /\ [][Next]_vars

\* A running process keeps taking steps: every command it waits for is bounded
\* by a deadline, and so is its wait for the lock.
FairSpec == Spec /\ \A p \in Process : WF_vars(Advance(p))
-----------------------------------------------------------------------------
(* Properties.                                                             *)

OpType ==
    [kind : Kind, outs : SUBSET Output, req : MaybeRecipe, explicit : BOOLEAN,
     want : [Output -> MaybeRecipe], base : [Target -> MaybeRecipe],
     revs : [Target -> Nat], read : [Target -> MaybeRecipe],
     seen : [Output -> SUBSET (Backend \cup Recipe)], before : [Output -> MaybeRecipe],
     todo : SUBSET Step, tried : [Output -> SUBSET Backend], unsure : SUBSET Output,
     left : SUBSET Output, cur : Output \cup {None},
     result : [Output -> SwitchOutcome], outcome : SwitchOutcome, id : Nat,
     start : [Output -> SUBSET Recipe]]

Row == [session : Session, by : Process,
        phase : {"executing", "interrupted_observed", "finished", "deleted"}]

\* Every variable has its type: what src/crates/wc-app/src/display_operation.rs
\* passes from one phase of `execute` to the next is well formed.
TypeOK ==
    /\ alive \subseteq Session
    /\ lock \in [Session -> Process \cup {None}]
    /\ shown \in [Session -> [Output -> SUBSET Recipe]]
    /\ disturbed \in [Session -> SUBSET Output]
    /\ stopped \in [Session -> SUBSET Output]
    /\ rows \in [Target -> MaybeRecipe]
    /\ rev \in [Target -> Nat]
    /\ journal \in Seq(Row)
    /\ pc \in [Process -> Holding \cup {"idle", "waiting"}]
    /\ op \in [Process -> OpType]
    /\ ops \in Nat
    /\ faults \in Nat

\* Two processes of one session are never both past RendererMutationGuard:
\* neither a timeout, a crash, nor any way an operation can end frees the lock of
\* another process.
OneMutatorPerSession ==
    \A p, q \in Process : Of(p) = Of(q) /\ Holds(p) /\ Holds(q) => p = q

\* Nothing but the operation has changed the output since the operation took the
\* lock, or since it last looked at the output.
Own(p, o) == o \notin disturbed[Of(p)]

\* What the report of `execute` says of an output is what the output shows:
\* Applied, the requested recipe and nothing else; RestoredPrevious, what it showed
\* at the preflight; Unchanged, what it showed when the operation took the lock;
\* Stopped, nothing.  (Whatever combination of failed actions, failed
\* verifications, failed recoveries and renderer exits led there.)  The overall
\* outcome of `compensate` never says more: Unchanged and RestoredPrevious mean that
\* the whole batch shows what it did before.
ReportTruthful ==
    \A p \in Process : pc[p] = "finish" =>
        \A o \in op[p].outs : Own(p, o) =>
            /\ shown[Of(p)][o] \in CASE op[p].result[o] = "Applied" -> {{op[p].want[o]}}
                                     [] op[p].result[o] = "RestoredPrevious" -> {Previous(p, o)}
                                     [] op[p].result[o] = "Unchanged" -> {op[p].start[o]}
                                     [] op[p].result[o] = "Stopped" -> {{}}
                                     [] OTHER -> SUBSET Recipe
            /\ op[p].outcome \in {"Unchanged", "RestoredPrevious"}
                  => shown[Of(p)][o] \in {op[p].start[o], Previous(p, o)}

\* The saved assignments change only once every output of the batch shows the
\* recipe that becomes its saved assignment ("committed exactly once, after all
\* requested renderers verify", `execute`).
CommitShowsTruth ==
    [][store' # store =>
          \E p \in Process :
             /\ pc[p] = "commit"
             /\ \A o \in op[p].outs : Own(p, o) => shown[Of(p)][o] = {Effective(rows', o)}]_vars

\* A stop intent is withdrawn only by an Apply, a Restore or new settings that the
\* output verifiably shows, never by the watcher's recovery, and never for an
\* output outside the batch; or the session is over.
StopIntentSticky ==
    [][\A s \in alive', o \in Output : o \in stopped[s] \ stopped'[s] =>
          \E p \in Process :
             /\ Of(p) = s /\ Holds(p) /\ o \in op[p].outs /\ op[p].kind # "recover"
             /\ Own(p, o) => shown[s][o] = {op[p].want[o]}]_vars

\* A Stop that reports an output as stopped has left an intent that keeps the
\* watcher from bringing it back.
StoppedStaysStopped ==
    \A p \in Process : pc[p] = "finish" =>
        \A o \in op[p].outs : op[p].result[o] = "Stopped" => o \in stopped[Of(p)]

\* Displays change only under a journal row that says so: the row of an operation
\* that executes, verifies or recovers stays 'executing' until it finishes,
\* whatever other sessions journal, reconcile or prune meanwhile.
JournalCoversMutation ==
    \A p \in Process : pc[p] \in Journaled =>
        /\ op[p].id \in DOMAIN journal
        /\ journal[op[p].id] = [session |-> Of(p), by |-> p, phase |-> "executing"]

\* An operation other than a Stop begins by closing what its session left
\* behind, so the session has no other executing row when displays change.
AbandonedRowsClosed ==
    \A p \in Process : pc[p] \in Journaled /\ op[p].kind # "stop" =>
        \A i \in Executing(journal) : journal[i].session = Of(p) => i = op[p].id

\* A commit that changes saved assignments changes revisions, whichever rows it
\* removes, inserts again or gives back what they had: an operation that fingerprinted
\* the revisions before it notices the commit of another session, unless a later commit
\* of rows that were read earlier still takes the revisions back with the rows
\* (assignment_revisions_unchanged, `preserve`, `write`).
FingerprintFaithful == [][rows' # rows => rev' # rev]_vars

\* An operation leaves the other outputs of the session alone, at every moment
\* and however it ends.
OutsideUntouched ==
    \A p \in Process : Holds(p) =>
        \A o \in Output \ op[p].outs :
            Own(p, o) /\ Cardinality(OwnersIn(op[p].start, o)) <= 1 =>
                shown[Of(p)][o] = op[p].start[o]

\* A recovery never starts a renderer on an output whose cleanup is uncertain,
\* where the failed one may still run (`compensate` skips `uncertain` outputs).
UncertainLeftAlone ==
    [][\A p \in Process, o \in Output :
          /\ pc[p] \in {"compensate", "retire", "reapply", "confirm"}
          /\ o \in op[p].unsure
          /\ <<pc'[p], op'[p]>> # <<pc[p], op[p]>>
          => shown'[Of(p)][o] \subseteq shown[Of(p)][o]]_vars

\* Every operation ends: none waits for ever for the lock, for a renderer, or in
\* the recovery of an output.
OperationEnds == \A p \in Process : pc[p] # "idle" ~> pc[p] = "idle"

-----------------------------------------------------------------------------
(* What the sources say and the code does not keep; see the README.        *)

\* "A subset apply replaces only the selected outputs' rows; the All template and
\* every unselected or disconnected row are preserved" (display_apply.rs:856).
SubsetPreservesRows ==
    [][\A p \in Process :
          pc[p] = "commit" /\ pc'[p] = "arm" /\ op[p].kind = "apply_set" =>
              \A t \in Target \ op[p].outs : rows'[t] = rows[t]]_vars

\* "A fresh observation closes abandoned progress" (display_operations.rs:63): an
\* Apply is not rejected because of rows that no running operation will finish.
AbandonedProgressIsClosed ==
    \A p \in Process :
        /\ pc[p] = "begin" /\ op[p].kind # "stop"
        /\ \A i \in Executing(journal) : journal[i].session \notin alive
        => ENABLED JournalBegin(p)
=============================================================================
