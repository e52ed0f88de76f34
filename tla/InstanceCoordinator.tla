-------------------------- MODULE InstanceCoordinator --------------------------
(***************************************************************************)
(* One GUI per configuration directory (src-tauri instance_coordinator.rs  *)
(* and the start of lib.rs).  The instance that gets the lock file is the  *)
(* primary one: it binds a socket and, when its window is there, accepts   *)
(* connections.  Any other asks the primary one through the socket to show *)
(* its window, within two seconds for everything, and exits.               *)
(*                                                                         *)
(* The socket outlives a primary that just exits, as the program does, or  *)
(* dies; shutdown, the orderly end, removes it.                            *)
(***************************************************************************)
EXTENDS Naturals, FiniteSets

CONSTANT Instance   \* GUI processes, each from its start to its end

VARIABLES
    instance,   \* instance[i]: where i is
    instanceLock, \* who holds the lock file: at most one
    socket,     \* whose socket is at the path: at most one
    asked,  \* asked[j]: the connection of j to a primary instance, if it has one
    focused     \* history: requests whose callback has shown the window

coordination == <<instance, instanceLock, socket, asked, focused>>

\* The listening socket of i exists from the binding until its end; connections that come
\* before the accept loop runs wait in it.
Listening(i) == instance[i] \in {"bound", "accepting", "stopping"}

\* Owning the lock, in the order of things.
Primary == {"claimed", "bound", "accepting", "stopping", "stopped", "removed"}

\* The end of a secondary instance, as it tells the user.
Outcome == {"ack", "timeout", "failed"}

NoRequest == [to |-> {}, sent |-> FALSE, answer |-> "none"]

CoordinatorInit ==
    /\ instance = [i \in Instance |-> "off"]
    /\ instanceLock = {} /\ socket = {}
    /\ asked = [i \in Instance |-> NoRequest]
    /\ focused = {}

At(i, from, to) ==
    /\ instance[i] = from
    /\ instance' = [instance EXCEPT ![i] = to]

-----------------------------------------------------------------------------
(* The primary instance.                                                   *)

\* Mutant: the lock is not exclusive.
ClaimShared(i) ==
    /\ At(i, "off", "claimed") /\ instanceLock' = instanceLock \cup {i}
    /\ UNCHANGED <<socket, asked, focused>>

\* claim_instance. Whoever does not get the lock is secondary.
Claim(i) ==
    /\ IF instanceLock = {}
       THEN At(i, "off", "claimed") /\ instanceLock' = {i}
       ELSE At(i, "off", "secondary") /\ UNCHANGED instanceLock
    /\ UNCHANGED <<socket, asked, focused>>

\* PrimarySocket::bind removes what a predecessor left at the path.
Bind(i) ==
    /\ At(i, "claimed", "bound")
    /\ socket' = {i}
    /\ UNCHANGED <<instanceLock, asked, focused>>

\* The window is there.
AcceptLoop(i) ==
    /\ At(i, "bound", "accepting")
    /\ UNCHANGED <<instanceLock, socket, asked, focused>>

\* What the connection of j is answered when its request has been read.
Answered(j, shown) ==
    [asked EXCEPT ![j] = [to |-> @.to, sent |-> FALSE, answer |-> IF shown THEN "ok" ELSE "nack"]]

\* One connection at a time. A request that does not come within 100 milliseconds closes
\* it; the callback may fail. Whether the other side still waits is not known.
Accept(i, j) ==
    /\ instance[i] \in {"accepting", "stopping"}
    /\ asked[j].to = {i} /\ asked[j].answer = "none"
    /\ \/ /\ asked[j].sent
          /\ \E shown \in BOOLEAN :
                /\ asked' = Answered(j, shown)
                /\ focused' = IF shown THEN focused \cup {j} ELSE focused
       \/ /\ ~asked[j].sent
          /\ asked' = [asked EXCEPT ![j].answer = "closed"]
          /\ UNCHANGED focused
    /\ UNCHANGED <<instance, instanceLock, socket>>

\* shutdown: the loop ends, with the connection it is at ...
Stop(i) ==
    /\ At(i, "accepting", "stopping")
    /\ UNCHANGED <<instanceLock, socket, asked, focused>>

\* Connections nobody has accepted are reset with the listener.
Hangup(i) ==
    asked' = [j \in Instance |->
        IF asked[j].to = {i} /\ asked[j].answer = "none"
        THEN [asked[j] EXCEPT !.answer = "closed"] ELSE asked[j]]

\* Mutant: the lease is dropped with the loop.
LoopEndsReleased(i) ==
    /\ At(i, "stopping", "stopped") \/ At(i, "accepting", "stopped")
    /\ Hangup(i)
    /\ instanceLock' = {}
    /\ UNCHANGED <<socket, focused>>

\* It also ends by itself when accepting fails, and nobody is told: the instance keeps
\* the lock, and the socket stays at its path without a listener.
LoopEnds(i) ==
    /\ At(i, "stopping", "stopped") \/ At(i, "accepting", "stopped")
    /\ Hangup(i)
    /\ UNCHANGED <<instanceLock, socket, focused>>

\* ... whatever is at the path is removed ...
RemoveSocket(i) ==
    /\ At(i, "stopped", "removed")
    /\ socket' = {}
    /\ UNCHANGED <<instanceLock, asked, focused>>

\* ... and the lock is released with the process.
ReleaseLease(i) ==
    /\ At(i, "removed", "over")
    /\ instanceLock' = instanceLock \ {i}
    /\ UNCHANGED <<socket, asked, focused>>

\* The process exits, or dies, at any moment. The socket stays at its path, without a
\* listener.
Exit(i) ==
    /\ instance[i] \in Primary
    /\ instance' = [instance EXCEPT ![i] = "over"]
    /\ instanceLock' = instanceLock \ {i}
    /\ Hangup(i)
    /\ UNCHANGED <<socket, focused>>

-----------------------------------------------------------------------------
(* try_focus_primary.                                                      *)

Connect(j) ==
    /\ At(j, "secondary", "connected")
    /\ \E i \in socket : Listening(i) /\ asked' = [asked EXCEPT ![j].to = {i}]
    /\ UNCHANGED <<instanceLock, socket, focused>>

\* Nothing is at the path yet, or what is there belongs to an instance that is gone.
ConnectFails(j) ==
    /\ At(j, "secondary", "failed")
    /\ \A i \in socket : ~Listening(i)
    /\ UNCHANGED <<instanceLock, socket, asked, focused>>

Send(j) ==
    /\ At(j, "connected", "waiting")
    /\ asked' = IF asked[j].answer = "none" THEN [asked EXCEPT ![j].sent = TRUE] ELSE asked
    /\ UNCHANGED <<instanceLock, socket, focused>>

\* Anything but an acknowledgement is a failure.
ReadAnswer(j) ==
    /\ instance[j] = "waiting" /\ asked[j].answer # "none"
    /\ instance' = [instance EXCEPT ![j] = IF asked[j].answer = "ok" THEN "ack" ELSE "failed"]
    /\ UNCHANGED <<instanceLock, socket, asked, focused>>

\* Two seconds have passed since it began. What it has sent stays to be read.
FocusTimesOut(j) ==
    /\ instance[j] \in {"secondary", "connected", "waiting"}
    /\ instance' = [instance EXCEPT ![j] = "timeout"]
    /\ UNCHANGED <<instanceLock, socket, asked, focused>>

-----------------------------------------------------------------------------
CoordinatorNext ==
    \E i \in Instance :
       \/ Claim(i) \/ Bind(i) \/ AcceptLoop(i) \/ Stop(i) \/ LoopEnds(i) \/ RemoveSocket(i)
       \/ ReleaseLease(i) \/ Exit(i)
       \/ \E j \in Instance : Accept(i, j)
       \/ Connect(i) \/ ConnectFails(i) \/ Send(i) \/ ReadAnswer(i) \/ FocusTimesOut(i)

CoordinatorSpec == CoordinatorInit /\ [][CoordinatorNext]_coordination

-----------------------------------------------------------------------------
CoordinatorTypeOK ==
    /\ instance \in [Instance -> {"off", "secondary", "connected", "waiting", "over"} \cup Primary \cup Outcome]
    /\ {instanceLock, socket} \subseteq {{}} \cup {{i} : i \in Instance}
    /\ asked \in [Instance -> [to : SUBSET Instance, sent : BOOLEAN,
                                   answer : {"none", "ok", "nack", "closed"}]]
    /\ focused \in SUBSET Instance

\* From the binding of an instance until its accept loop is stopped or fails, the socket
\* at the path is its own, whatever its predecessors left behind and however late they
\* clear it away: who connects reaches it. An instance whose loop has failed is not
\* reached by anybody, as long as it runs.
PrimaryReachable ==
    \A i \in Instance : instance[i] \in {"bound", "accepting"} => socket = {i}

\* Who is told that the window was shown has had it shown, by an instance that was the
\* primary one at that time.
AckTruthful == \A j \in Instance : instance[j] = "ack" => j \in focused

\* Through starts, ends and deaths in any order there is one window, and who asks for it
\* and is answered gets it.
SingleInstance == PrimaryReachable /\ AckTruthful
=============================================================================
