--------------------------- MODULE MCSharedDatabase ---------------------------
(* Small instances for TLC of what processes that share one database do to  *)
(* it: display operations of two sessions, which share its rows, and the     *)
(* upkeep of its files.  The run checks one part at a time.                  *)
EXTENDS MCDisplayOperation, DatabaseUpkeep

CONSTANTS u1, u2, u3, earlier, flat, entered

VARIABLE part
sharedVars == <<vars, upkeepVars, part>>

\* Nothing, an empty file, and databases of an older, the current and a newer schema; a
\* backup of the older one.
AnyStart == {{}} \cup {{[schema |-> v, data |-> IF v = 0 THEN {} ELSE {earlier}]} : v \in 0 .. CurrentSchema + 1}
OlderBackup == {[schema |-> 1, data |-> {earlier}]}

\* Processes of the upkeep are interchangeable: in what order their kinds come does not
\* matter. Bound: two at most are of one kind.
Rank == [import |-> 1, ensure |-> 2, restore |-> 3, repair |-> 4, backup |-> 5]
Lineup ==
    /\ Rank[upkeep[u1].kind] <= Rank[upkeep[u2].kind]
    /\ Rank[upkeep[u2].kind] < Rank[upkeep[u3].kind]

SharedInit ==
    /\ part \in {"operations", "upkeep"}
    /\ Init /\ UpkeepInit
    /\ part = "operations" => mainFile = {} /\ \A p \in Upkeeper : upkeep[p] = Begin("ensure")
    /\ part = "upkeep" => Lineup /\ \A s \in Session, o \in Output : shown[s][o] = {}

\* Nothing is left to do only if all are done.
UpkeepOver == \A p \in Upkeeper : At(p, {"over"})

SharedNext ==
    \/ part = "operations" /\ Next /\ UNCHANGED <<upkeepVars, part>>
    \/ part = "upkeep" /\ UpkeepNext /\ UNCHANGED <<vars, part>>
    \/ part = "upkeep" /\ UpkeepOver /\ UNCHANGED sharedVars

SharedSpec == SharedInit /\ [][SharedNext]_sharedVars
=============================================================================
