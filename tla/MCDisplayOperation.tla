------------------------- MODULE MCDisplayOperation -------------------------
(* Small instances of DisplayOperation for TLC.                            *)
EXTENDS DisplayOperation

CONSTANTS s1, s2, p1, p2, o1, o2, image, video, looped, picture

\* Up to two images of the shared daemon, and one video with two option sets.
MCBackend == {"awww", "mpvpaper"}
MCShared == {"awww"}
MCBackendOf == [r \in Recipe |-> IF r \in {image, picture} THEN "awww" ELSE "mpvpaper"]
MCFileOf == [r \in Recipe |-> IF r = looped THEN video ELSE r]
MCOptionsOf == [r \in Recipe |-> IF r = looped THEN "loop" ELSE "default"]
MCConfigured == [b \in MCBackend |-> "default"]

\* One session with two processes (GUI and watcher), or one process in each of two
\* sessions of the same user.
OneSession == [p \in Process |-> s1]
TwoSessions == [p \in Process |-> IF p = p1 THEN s1 ELSE s2]

EveryOutput == [s \in Session |-> Output]

Table(all, first, second) == [t \in Output \cup {AllDisplays} |->
    IF t = AllDisplays THEN all ELSE IF t = o1 THEN first ELSE second]

\* Saved assignments to start from: a template, a template with an exception, or
\* one output only.
SavedTemplate == {[t \in Output \cup {AllDisplays} |-> IF t = AllDisplays THEN image ELSE None]}
SavedMixed == {Table(image, looped, None), Table(None, video, None)}
=============================================================================
