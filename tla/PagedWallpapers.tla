--------------------------- MODULE PagedWallpapers ---------------------------
(***************************************************************************)
(* The list of wallpapers in the window (frontend                          *)
(* hooks/usePagedWallpapers.ts): pages of one query at one revision of the *)
(* library, loaded one after the other, replaced when the query changes,   *)
(* when something tells the window to reload, and when the revision of the *)
(* pages it has is gone; and the exact number of entries, which is loaded  *)
(* by itself.                                                              *)
(*                                                                         *)
(* Answers arrive in any order.  The callbacks of the window are those of  *)
(* its last render, which comes after the state has changed.               *)
(***************************************************************************)
EXTENDS Naturals, Sequences, FiniteSets

CONSTANTS
    Criteria,      \* queries
    PageCount,     \* pages of every query at every revision
    \* Bounds of the model.
    MaxRevisions,  \* commits to the library
    MaxLoads,      \* pages asked for
    MaxSwitches    \* times the query changes

\* One page at least is asked for, when the window opens.
ASSUME PagedBounds == {PageCount, MaxRevisions, MaxLoads, MaxSwitches} \subseteq Nat /\ MaxLoads # 0

VARIABLES
    libraryRevision,  \* of the database
    criteria,         \* the query of the window
    entries,          \* pages in the list
    revisionRef,      \* revision of the list, if it is known
    nextCursor,       \* where the next page begins, if there is one
    renderedCursor,         \* nextCursor as the callbacks know it
    requestSeq, appendInFlight,
    replacement,      \* replacementRequestRef
    loads,            \* the loads under way
    resolved,         \* resolvedQueryKey
    totals,           \* counts under way
    totalSeq, totalKey,
    exactTotal,
    switches

paging == <<entries, revisionRef, nextCursor, requestSeq, appendInFlight, replacement, loads, resolved>>
counting == <<totals, totalSeq, totalKey, exactTotal>>
pagedVars == <<libraryRevision, criteria, paging, renderedCursor, counting, switches>>

\* Sets of at most one element stand for what may be null.
PageOf == [q : Criteria, rev : Nat, n : Nat]
Cursor == [rev : Nat, after : Nat]

PagedInit ==
    /\ libraryRevision = 0
    /\ criteria \in Criteria
    /\ entries = <<>> /\ revisionRef = {} /\ nextCursor = {} /\ renderedCursor = {}
    /\ requestSeq = 1 /\ appendInFlight = FALSE /\ replacement = {1}
    /\ loads = {[id |-> 1, append |-> FALSE, q |-> criteria, from |-> {}, answer |-> "sent", rev |-> 0]}
    /\ resolved = {}
    /\ totals = {} /\ totalSeq = 0 /\ totalKey = {} /\ exactTotal = {}
    /\ switches = 0

-----------------------------------------------------------------------------
(* The backend.                                                            *)

LibraryCommits ==
    /\ libraryRevision < MaxRevisions
    /\ libraryRevision' = libraryRevision + 1
    /\ UNCHANGED <<criteria, paging, renderedCursor, counting, switches>>

\* The first page may be one that was kept; a cursor is good for its own revision.
PageAnswered(l) ==
    /\ l.answer = "sent"
    /\ \E rev \in 0 .. libraryRevision :
          LET gone == \E c \in l.from : c.rev # rev IN
          /\ gone => rev = libraryRevision
          /\ loads' = (loads \ {l}) \cup
                {[l EXCEPT !.answer = IF gone THEN "changed" ELSE "page", !.rev = rev]}
    /\ UNCHANGED <<libraryRevision, criteria, entries, revisionRef, nextCursor, requestSeq,
                   appendInFlight, replacement, resolved, renderedCursor, counting, switches>>

PageFails(l) ==
    /\ l.answer = "sent"
    /\ loads' = (loads \ {l}) \cup {[l EXCEPT !.answer = "failed"]}
    /\ UNCHANGED <<libraryRevision, criteria, entries, revisionRef, nextCursor, requestSeq,
                   appendInFlight, replacement, resolved, renderedCursor, counting, switches>>

-----------------------------------------------------------------------------
(* load.                                                                   *)

\* A load of the query q that replaces the list; others is what is under way besides.
Replace(q, others) ==
    /\ requestSeq < MaxLoads
    /\ requestSeq' = requestSeq + 1
    /\ replacement' = {requestSeq + 1}
    /\ loads' = others \cup {[id |-> requestSeq + 1, append |-> FALSE, q |-> q, from |-> {},
                              answer |-> "sent", rev |-> 0]}

\* An event, the timer that confirms an empty list, or the user.
Reload ==
    /\ Replace(criteria, loads)
    /\ UNCHANGED <<libraryRevision, criteria, entries, revisionRef, nextCursor, appendInFlight,
                   resolved, renderedCursor, counting, switches>>

\* loadMore, from the last render.
LoadMore ==
    /\ renderedCursor # {} /\ replacement = {} /\ ~appendInFlight
    /\ requestSeq < MaxLoads
    /\ appendInFlight' = TRUE
    /\ requestSeq' = requestSeq + 1
    /\ loads' = loads \cup {[id |-> requestSeq + 1, append |-> TRUE, q |-> criteria, from |-> renderedCursor,
                             answer |-> "sent", rev |-> 0]}
    /\ UNCHANGED <<libraryRevision, criteria, entries, revisionRef, nextCursor, replacement,
                   resolved, renderedCursor, counting, switches>>

\* Another query: the effects load its first page and forget what is known of the list,
\* which stays until that page is there.
SwitchCriteria(q) ==
    /\ q # criteria /\ switches < MaxSwitches
    /\ switches' = switches + 1
    /\ criteria' = q
    /\ Replace(q, loads)
    /\ revisionRef' = {} /\ nextCursor' = {} /\ renderedCursor' = {}
    /\ totalSeq' = totalSeq + 1 /\ totalKey' = {} /\ exactTotal' = {}
    /\ UNCHANGED <<libraryRevision, entries, appendInFlight, resolved, totals>>

Render ==
    /\ renderedCursor' = nextCursor
    /\ UNCHANGED <<libraryRevision, criteria, paging, counting, switches>>

\* Mutant: the newest answer counts, whichever load is the newest.
IsCurrentAlways(l) == TRUE

IsCurrent(l) == requestSeq = l.id

\* The end of every load.
Settle(l) ==
    /\ appendInFlight' = IF l.append THEN FALSE ELSE appendInFlight
    /\ replacement' = IF l.append THEN replacement ELSE replacement \ {l.id}

First(l) == IF l.from = {} THEN 1 ELSE (CHOOSE c \in l.from : TRUE).after + 1

\* The exact number is asked for once for every query and revision.
Count(l) ==
    IF totalKey = {[q |-> l.q, rev |-> l.rev]} THEN UNCHANGED <<totals, totalSeq, totalKey>>
    ELSE /\ totalSeq' = totalSeq + 1
         /\ totalKey' = {[q |-> l.q, rev |-> l.rev]}
         /\ totals' = totals \cup {[id |-> totalSeq + 1, q |-> l.q, rev |-> l.rev]}

ForgetTotal(l) ==
    exactTotal' = IF revisionRef \subseteq {l.rev} THEN exactTotal ELSE {}

\* A page that is of the list's revision, or replaces the list.
PageArrives(l) ==
    LET page == [q |-> l.q, rev |-> l.rev, n |-> First(l)] IN
    /\ l.answer = "page" /\ IsCurrent(l)
    /\ l.append => revisionRef \subseteq {l.rev}
    /\ entries' = IF l.append THEN Append(entries, page) ELSE <<page>>
    /\ nextCursor' = IF page.n < PageCount THEN {[rev |-> l.rev, after |-> page.n]} ELSE {}
    /\ revisionRef' = {l.rev} /\ resolved' = {l.q}
    /\ Count(l) /\ ForgetTotal(l)
    /\ loads' = loads \ {l} /\ Settle(l)
    /\ UNCHANGED <<libraryRevision, criteria, requestSeq, renderedCursor, switches>>

\* The revision of the list is gone: it is replaced, and stays until then.
RevisionGone(l) ==
    /\ IsCurrent(l) /\ l.append
    /\ l.answer = "changed" \/ (l.answer = "page" /\ ~(revisionRef \subseteq {l.rev}))
    /\ Replace(l.q, loads \ {l})
    /\ appendInFlight' = FALSE
    /\ UNCHANGED <<libraryRevision, criteria, entries, revisionRef, nextCursor, resolved, renderedCursor,
                   counting, switches>>

\* An error that is shown; the list stays.
LoadFailed(l) ==
    /\ l.answer = "failed" /\ IsCurrent(l)
    /\ loads' = loads \ {l} /\ Settle(l)
    /\ UNCHANGED <<libraryRevision, criteria, entries, revisionRef, nextCursor, requestSeq, resolved,
                   renderedCursor, counting, switches>>

LoadIgnored(l) ==
    /\ l.answer # "sent" /\ ~IsCurrent(l)
    /\ loads' = loads \ {l} /\ Settle(l)
    /\ UNCHANGED <<libraryRevision, criteria, entries, revisionRef, nextCursor, requestSeq, resolved,
                   renderedCursor, counting, switches>>

TotalArrives(t) ==
    /\ exactTotal' = IF t.id = totalSeq /\ revisionRef = {t.rev} THEN {[q |-> t.q, rev |-> t.rev]}
                     ELSE exactTotal
    /\ totals' = totals \ {t}
    /\ UNCHANGED <<libraryRevision, criteria, paging, renderedCursor, totalSeq, totalKey, switches>>

TotalFails(t) ==
    /\ totalKey' = IF t.id = totalSeq THEN {} ELSE totalKey
    /\ totals' = totals \ {t}
    /\ UNCHANGED <<libraryRevision, criteria, paging, renderedCursor, totalSeq, exactTotal, switches>>

PagedNext ==
    \/ LibraryCommits \/ Reload \/ LoadMore \/ Render
    \/ \E q \in Criteria : SwitchCriteria(q)
    \/ \E l \in loads :
          \/ PageAnswered(l) \/ PageFails(l)
          \/ PageArrives(l) \/ RevisionGone(l) \/ LoadFailed(l) \/ LoadIgnored(l)
    \/ \E t \in totals : TotalArrives(t) \/ TotalFails(t)

PagedSpec == PagedInit /\ [][PagedNext]_pagedVars

-----------------------------------------------------------------------------
PagedTypeOK ==
    /\ libraryRevision \in 0 .. MaxRevisions /\ criteria \in Criteria
    /\ entries \in Seq(PageOf)
    /\ revisionRef \subseteq Nat
    /\ nextCursor \subseteq Cursor /\ renderedCursor \subseteq Cursor
    /\ requestSeq \in 1 .. MaxLoads /\ replacement \subseteq {requestSeq} /\ appendInFlight \in BOOLEAN
    /\ resolved \subseteq Criteria
    /\ \A l \in loads : l.id \in 1 .. requestSeq /\ l.q \in Criteria
    /\ totalSeq \in Nat /\ switches \in 0 .. MaxSwitches

\* The list is of one query at one revision, and so is the number that is shown with it:
\* answers that are late, superseded or of a library that changed under a cursor never
\* mix two of them.
OneSnapshot ==
    /\ \A i, j \in DOMAIN entries : entries[i].q = entries[j].q /\ entries[i].rev = entries[j].rev
    /\ \A i \in DOMAIN entries :
          /\ resolved = {entries[i].q}
          /\ \A c \in nextCursor : c.rev = entries[i].rev
          /\ \A t \in exactTotal : t.q = entries[i].q /\ t.rev = entries[i].rev
=============================================================================
