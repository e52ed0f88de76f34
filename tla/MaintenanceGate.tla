--------------------------- MODULE MaintenanceGate ---------------------------
(***************************************************************************)
(* The maintenance gate of the library service (src-tauri                  *)
(* library_service.rs): a restore or a repair of the database pauses the   *)
(* service for as long as it runs, and background work runs under a guard  *)
(* that is refused while any pause is held.  Only the first of several     *)
(* pauses waits for the work that runs already.                            *)
(***************************************************************************)
EXTENDS Naturals

CONSTANTS
    Pauser,   \* maintenance tasks; each pauses once in a run of the model
    Worker    \* threads that do background work

VARIABLES
    pauser,      \* pauser[m]: progress of m through pause_for_maintenance
    generation,  \* maintenance_generation
    guards       \* the threads that hold a BackgroundWork; background_active is their number

gate == <<pauser, generation, guards>>

\* The states in which m counts in `depth`: Paused is depth > 0. "in" has waited,
\* "nested" has not.
Held == {"first", "wait", "in", "nested"}
Paused == \E m \in Pauser : pauser[m] \in Held

GateInit ==
    /\ pauser = [m \in Pauser |-> "idle"]
    /\ generation = 0
    /\ guards = {}

\* Under the lock: depth is incremented, and the task learns whether it is the first.
Pause(m) ==
    /\ pauser[m] = "idle"
    /\ pauser' = [pauser EXCEPT ![m] = IF Paused THEN "nested" ELSE "first"]
    /\ UNCHANGED <<generation, guards>>

\* The first one opens a new generation and drops caches and cached connections.
Announce(m) ==
    /\ pauser[m] = "first"
    /\ generation' = generation + 1
    /\ pauser' = [pauser EXCEPT ![m] = "wait"]
    /\ UNCHANGED guards

\* Mutant: it does not wait.
EnterAtOnce(m) ==
    /\ pauser[m] = "wait"
    /\ pauser' = [pauser EXCEPT ![m] = "in"]
    /\ UNCHANGED <<generation, guards>>

Enter(m) ==
    /\ pauser[m] = "wait" /\ guards = {}
    /\ pauser' = [pauser EXCEPT ![m] = "in"]
    /\ UNCHANGED <<generation, guards>>

\* The maintenance is over and its MaintenancePause is dropped.
Resume(m) ==
    /\ pauser[m] \in {"in", "nested"}
    /\ pauser' = [pauser EXCEPT ![m] = "done"]
    /\ UNCHANGED <<generation, guards>>

GateStep(m) == Pause(m) \/ Announce(m) \/ Enter(m) \/ Resume(m)

\* begin_background_work, and the drop of the guard it returns.
Admit(w) ==
    /\ ~Paused
    /\ guards' = guards \cup {w}
    /\ UNCHANGED <<pauser, generation>>

Dismiss(w) ==
    /\ guards' = guards \ {w}
    /\ UNCHANGED <<pauser, generation>>

GateTypeOK ==
    /\ pauser \in [Pauser -> Held \cup {"idle", "done"}]
    /\ generation \in Nat
    /\ guards \subseteq Worker
=============================================================================
