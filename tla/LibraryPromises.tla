--------------------------- MODULE LibraryPromises ---------------------------
(***************************************************************************)
(* What LibraryRefresh promises of its outcome.  Of each source: the       *)
(* library mirrors its files (SourceMirror).  Of the exported snapshot     *)
(* library.tsv: it is current or marked by library.dirty, as long as       *)
(* operations have the two to themselves, which a history tells.           *)
(***************************************************************************)
EXTENDS LibraryRefresh

VARIABLE overlapped   \* history: operations on the snapshot ran at the same time

snapshotVars == <<vars, overlapped>>

\* The marker is established and the operation has not returned.
Underway(p) ==
    \/ pc[p] \in {"next", "recheck", "begin", "scan", "check", "reconcile", "succeed",
                  "fail", "remove", "snapshot", "create", "write", "publish"}
    \/ pc[p] = "lock" /\ op[p].kind # "remove"

\* Only full rescans are kept apart, by the rescan lock.
Overlap ==
    \E p, q \in Proc :
        /\ p # q /\ Underway(p) /\ Underway(q)
        /\ ~(op[p].kind = "rescan" /\ op[q].kind = "rescan")

SnapshotInit == Init /\ overlapped = FALSE

NoteOverlap == overlapped' = (overlapped \/ Overlap')

SnapshotNext == Next /\ NoteOverlap

SnapshotSpec == SnapshotInit /\ [][SnapshotNext]_snapshotVars

-----------------------------------------------------------------------------
\* While operations have library.tsv to themselves, it is what SQLite lists or
\* library.dirty says that it is not.
AloneStaleMarked == ~overlapped => StaleMarked

\* SourceMirror, of one source.
Mirror(s) == INSTANCE SourceMirror WITH
    disk <- disk[s], library <- library[s], status <- status[s]

\* Every step is one of the mirror of each source, or leaves it as it is: whoever scans, and
\* whenever, an older scan is never written over a newer one, nothing is listed that was
\* not on disk, and nothing of a source after its removal.
SourcesMirrored ==
    [][\A s \in Source : [Mirror(s)!MirrorNext]_<<disk[s], library[s], status[s]>>]_vars
=============================================================================
