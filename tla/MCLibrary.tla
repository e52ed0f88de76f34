------------------------------ MODULE MCLibrary ------------------------------
(* Small instances for TLC of the rounds that write the library and of the  *)
(* service that shows it.                                                   *)
EXTENDS LibraryPromises, LibraryService, TLC

CONSTANTS a, b, gui, cli, restore, foreign, t1, t2, q1

\* Each knows of the other that it commits: a round is an ExternalWrite of the service. So
\* one run checks both, one part at a time, and the rounds in two instances.
VARIABLE part
libraryRunVars == <<snapshotVars, libraryVars, part>>

\* Two processes rescan two sources, without a scheduler.
Serial == INSTANCE LibraryRefresh WITH
    Source <- {a, b}, Configured <- {a, b}, Gui <- {}, Kinds <- {"rescan"},
    MaxRequests <- 2, MaxExpiries <- 0, MaxFaults <- 2

Owner == [x \in Client \cup Maintainer |-> IF x = foreign THEN cli ELSE gui]

\* One restore or repair at most is made.
OneMaintainer == Cardinality({m \in Maintainer : task[m].pc = "new"}) <= 1

LibraryRunInit ==
    /\ part \in {"rounds", "serial", "service"}
    /\ part = "serial" => Serial!Init /\ overlapped = FALSE
    /\ part # "serial" => SnapshotInit
    /\ LibraryInit /\ OneMaintainer
    /\ part # "service" => \A m \in Maintainer : task[m].pc = "over"

LibraryRunNext ==
    \/ part = "rounds" /\ SnapshotNext /\ UNCHANGED <<libraryVars, part>>
    \/ part = "serial" /\ Serial!Next /\ NoteOverlap /\ UNCHANGED <<libraryVars, part>>
    \/ part = "service" /\ LibraryNext /\ UNCHANGED <<snapshotVars, part>>

\* The readers are interchangeable.
Interchangeable == Permutations(Client)

LibraryRunSpec == LibraryRunInit /\ [][LibraryRunNext]_libraryRunVars

\* The service alone, with its fairness.
ServiceSpec == LibraryRunSpec /\ part = "service" /\ LibraryFairness

-----------------------------------------------------------------------------
\* The types of all variables, those of the rounds in the instance that moves.
LibraryRunTypeOK ==
    /\ IF part = "serial" THEN Serial!TypeOK ELSE TypeOK
    /\ overlapped \in BOOLEAN /\ LibraryTypeOK

\* Bound: in the first part, a failure or a success that grows old.
Budget == part = "rounds" => expiries + faults <= 1
=============================================================================
