----------------------------- MODULE SourceMirror -----------------------------
(***************************************************************************)
(* What refreshing the library promises of one source, whoever does it and *)
(* whatever fails: the library mirrors the files of the source, late, but  *)
(* never back in time, and lists nothing of a source that is not           *)
(* configured.                                                             *)
(***************************************************************************)
EXTENDS Naturals

VARIABLES
    disk,      \* version of the files
    library,   \* version that is listed, 0 for none
    status     \* "new", "present" or "removed"

mirrorVars == <<disk, library, status>>

MirrorInit ==
    /\ disk = 1
    /\ \/ status = "new" /\ library = 0
       \/ status = "present" /\ library = 1

FilesChange == disk' = disk + 1 /\ UNCHANGED <<library, status>>

Add == status = "new" /\ status' = "present" /\ UNCHANGED <<disk, library>>

\* A scan of any moment since the last one that was written.
Refreshed ==
    /\ status = "present"
    /\ library' \in library .. disk
    /\ UNCHANGED <<disk, status>>

Forget ==
    /\ status = "present" /\ status' = "removed"
    /\ library' = 0
    /\ UNCHANGED disk

MirrorNext == FilesChange \/ Add \/ Refreshed \/ Forget

MirrorSpec == MirrorInit /\ [][MirrorNext]_mirrorVars
=============================================================================
