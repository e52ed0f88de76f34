---------------------------- MODULE SharedLibrary ----------------------------
(***************************************************************************)
(* What the database promises to everybody who uses it, whatever file is   *)
(* at its path: one library, with one revision that grows with every       *)
(* change of it, also with a restore of an older copy; whoever is          *)
(* connected sees that revision; and it is replaced only by one at a time  *)
(* and while nobody is connected.  DatabaseFile implements it with files,  *)
(* locks and caches of connections.                                        *)
(***************************************************************************)
EXTENDS Naturals

CONSTANTS
    Holder,      \* who can keep a connection open
    Replacer     \* who can replace the library

VARIABLES
    revision,    \* the revision of the library
    views,       \* the pairs of a holder that is connected and the revision it sees
    renewals,    \* how often the library has been replaced
    replacing    \* who is replacing the library: at most one

shared == <<revision, views, renewals, replacing>>

\* What can be seen of revision r.
Seen(r) == SUBSET (Holder \X {r})

SharedInit == revision = 0 /\ views = {} /\ renewals = 0 /\ replacing = {}

\* Holders connect, disconnect, or pass their connection on.
Reconnect ==
    /\ replacing = {}
    /\ views' \in Seen(revision)
    /\ UNCHANGED <<revision, renewals, replacing>>

\* A change is seen through every connection at once.
Change ==
    /\ replacing = {}
    /\ revision' = revision + 1
    /\ views' \in Seen(revision + 1)
    /\ UNCHANGED <<renewals, replacing>>

BeginReplace(m) ==
    /\ replacing = {} /\ views = {}
    /\ replacing' = {m}
    /\ UNCHANGED <<revision, views, renewals>>

\* The library that takes its place is newer than any that anybody has seen.
EndReplace(m) ==
    /\ replacing = {m} /\ views = {}
    /\ replacing' = {}
    /\ renewals' = renewals + 1
    /\ revision' \in Nat /\ revision' > revision
    /\ UNCHANGED views

GiveUp(m) == replacing = {m} /\ replacing' = {} /\ UNCHANGED <<revision, views, renewals>>

SharedNext ==
    \/ Reconnect \/ Change
    \/ \E m \in Replacer : BeginReplace(m) \/ EndReplace(m) \/ GiveUp(m)

SharedSpec == SharedInit /\ [][SharedNext]_shared
=============================================================================
