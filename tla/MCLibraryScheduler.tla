------------------------- MODULE MCLibraryScheduler -------------------------
(* Small instances of LibraryScheduler for TLC.                            *)
EXTENDS LibraryScheduler, TLC

CONSTANTS a, b, w1, w2, repair, restore

\* Threads are interchangeable, and so are maintenance tasks.
Interchangeable == Permutations(Worker) \cup Permutations(Pauser)

\* Bound: a round fails, or the user asks for something.
Budget == faults = 0 \/ requests = 0
=============================================================================
