--------------------------- MODULE ServicesProofs ---------------------------
(* What holds of the services of the GUI: the single instance, the view of  *)
(* a scan and the registry of watchers, for any number of instances,        *)
(* requests and sources.                                                    *)
(* With the scheduler, for which see LibrarySchedulerProofs, they are what  *)
(* MCServices runs.                                                         *)
EXTENDS MCServices, LibrarySchedulerProofs, FiniteSetTheorems

-----------------------------------------------------------------------------
(* The single instance.                                                    *)

\* The lock is held by the primary instance.
LeaseHeld == \A i \in Instance : instance[i] \in Primary => instanceLock = {i}

\* Only a request whose window has been shown is acknowledged.
AnswersTruthful == \A j \in Instance : asked[j].answer = "ok" => j \in focused

CoordinatorIInv == CoordinatorTypeOK /\ LeaseHeld /\ AnswersTruthful /\ SingleInstance

LEMMA CoordinatorStart == CoordinatorInit => CoordinatorIInv
BY DEF CoordinatorInit, CoordinatorIInv, CoordinatorTypeOK, LeaseHeld, AnswersTruthful, SingleInstance,
       PrimaryReachable, AckTruthful, NoRequest, Primary

\* An instance moves, and no other does.
LEMMA InstanceMoves ==
    ASSUME CoordinatorTypeOK, NEW i \in Instance, NEW from, NEW to, At(i, from, to)
    PROVE  /\ instance[i] = from /\ instance'[i] = to
           /\ \A j \in Instance \ {i} : instance'[j] = instance[j]
BY DEF At, CoordinatorTypeOK

\* What a request that has been read is answered.
LEMMA AnsweredRequest ==
    ASSUME CoordinatorTypeOK, NEW i \in Instance, NEW j \in Instance, Accept(i, j), asked[j].sent
    PROVE  \E word \in {"ok", "nack"} :
              /\ asked' = [asked EXCEPT ![j] = [to |-> asked[j].to, sent |-> FALSE, answer |-> word]]
              /\ word = "ok" => j \in focused'
              /\ focused \subseteq focused' /\ focused' \subseteq focused \cup {j}
<1>1. asked[j] \in [to : SUBSET Instance, sent : BOOLEAN, answer : {"none", "ok", "nack", "closed"}]
  BY DEF CoordinatorTypeOK
<1>2. asked = [k \in Instance |-> asked[k]] BY DEF CoordinatorTypeOK
<1>3. PICK shown \in BOOLEAN : /\ asked' = Answered(j, shown)
                               /\ focused' = IF shown THEN focused \cup {j} ELSE focused
  BY DEF Accept
<1>4. CASE shown = TRUE
  <2>1. asked' = [asked EXCEPT ![j] = [to |-> asked[j].to, sent |-> FALSE, answer |-> "ok"]]
    BY <1>1, <1>2, <1>3, <1>4 DEF Answered
  <2> QED BY <2>1, <1>3, <1>4
<1>5. CASE shown = FALSE
  <2>1. asked' = [asked EXCEPT ![j] = [to |-> asked[j].to, sent |-> FALSE, answer |-> "nack"]]
    BY <1>1, <1>2, <1>3, <1>5 DEF Answered
  <2> QED BY <2>1, <1>3, <1>5
<1> QED BY <1>4, <1>5

LEMMA CoordinatorTypes == CoordinatorTypeOK /\ CoordinatorNext => CoordinatorTypeOK'
<1> SUFFICES ASSUME CoordinatorTypeOK, CoordinatorNext PROVE CoordinatorTypeOK' OBVIOUS
<1> USE DEF CoordinatorTypeOK, Primary, Outcome
<1>1. ASSUME NEW i \in Instance, NEW j \in Instance, Accept(i, j) PROVE CoordinatorTypeOK'
  <2>1. CASE asked[j].sent
    <3>1. asked' \in [Instance -> [to : SUBSET Instance, sent : BOOLEAN,
                                   answer : {"none", "ok", "nack", "closed"}]]
      <4>1. PICK word \in {"ok", "nack"} :
               asked' = [asked EXCEPT ![j] = [to |-> asked[j].to, sent |-> FALSE, answer |-> word]]
        BY <1>1, <2>1, AnsweredRequest
      <4> QED BY <4>1
    <3>2. focused' \in SUBSET Instance BY <1>1, <2>1, AnsweredRequest
    <3> QED BY <1>1, <3>1, <3>2 DEF Accept
  <2>2. CASE ~asked[j].sent
    <3>1. /\ asked' = [asked EXCEPT ![j].answer = "closed"]
          /\ UNCHANGED <<focused, instance, instanceLock, socket>>
      BY <1>1, <2>2 DEF Accept
    <3>2. asked' \in [Instance -> [to : SUBSET Instance, sent : BOOLEAN,
                                   answer : {"none", "ok", "nack", "closed"}]]
      BY <3>1
    <3> QED BY <3>1, <3>2
  <2> QED BY <2>1, <2>2
<1>2. ASSUME NEW i \in Instance, Claim(i) \/ Bind(i) \/ AcceptLoop(i) \/ Stop(i) PROVE CoordinatorTypeOK'
  BY <1>2 DEF At, Claim, Bind, AcceptLoop, Stop
<1>3. ASSUME NEW i \in Instance, LoopEnds(i) \/ RemoveSocket(i) PROVE CoordinatorTypeOK'
  BY <1>3 DEF At, LoopEnds, Hangup, RemoveSocket
<1>4. ASSUME NEW i \in Instance, ReleaseLease(i) PROVE CoordinatorTypeOK'
  BY <1>4 DEF At, ReleaseLease
<1>5. ASSUME NEW i \in Instance, Exit(i) PROVE CoordinatorTypeOK'
  BY <1>5 DEF Exit, Hangup
<1>6. ASSUME NEW i \in Instance, Connect(i) \/ ConnectFails(i) \/ Send(i) PROVE CoordinatorTypeOK'
  <2>1. CASE Connect(i)
    <3>1. PICK p \in socket : asked' = [asked EXCEPT ![i].to = {p}] BY <2>1 DEF Connect
    <3>2. p \in Instance OBVIOUS
    <3> HIDE DEF CoordinatorTypeOK
    <3>3. asked' \in [Instance -> [to : SUBSET Instance, sent : BOOLEAN,
                                   answer : {"none", "ok", "nack", "closed"}]]
      BY <3>1, <3>2 DEF CoordinatorTypeOK
    <3> QED BY <2>1, <3>3 DEF At, Connect, CoordinatorTypeOK
  <2>2. CASE ConnectFails(i) BY <2>2 DEF At, ConnectFails
  <2>3. CASE Send(i) BY <2>3 DEF At, Send
  <2> QED BY <1>6, <2>1, <2>2, <2>3
<1>7. ASSUME NEW i \in Instance, ReadAnswer(i) \/ FocusTimesOut(i) PROVE CoordinatorTypeOK'
  BY <1>7 DEF ReadAnswer, FocusTimesOut
<1> QED BY <1>1, <1>2, <1>3, <1>4, <1>5, <1>6, <1>7 DEF CoordinatorNext

LEMMA LeaseStep == CoordinatorIInv /\ CoordinatorNext => LeaseHeld'
<1> SUFFICES ASSUME CoordinatorIInv, CoordinatorNext PROVE LeaseHeld' OBVIOUS
<1> USE DEF CoordinatorIInv, LeaseHeld
<1>1. ASSUME NEW i \in Instance, NEW j \in Instance, Accept(i, j) PROVE LeaseHeld'
  BY <1>1 DEF Accept
<1>2. ASSUME NEW i \in Instance, Claim(i) PROVE LeaseHeld'
  BY <1>2, InstanceMoves DEF Claim, Primary
<1>3. ASSUME NEW i \in Instance,
             Bind(i) \/ AcceptLoop(i) \/ Stop(i) \/ LoopEnds(i) \/ RemoveSocket(i)
      PROVE  LeaseHeld'
  BY <1>3, InstanceMoves DEF Bind, AcceptLoop, Stop, LoopEnds, RemoveSocket, Primary
<1>4. ASSUME NEW i \in Instance, ReleaseLease(i) PROVE LeaseHeld'
  BY <1>4, InstanceMoves DEF ReleaseLease, Primary
<1>5. ASSUME NEW i \in Instance, Exit(i) PROVE LeaseHeld'
  BY <1>5 DEF Exit, CoordinatorTypeOK, Primary
<1>6. ASSUME NEW i \in Instance, Connect(i) \/ ConnectFails(i) \/ Send(i) PROVE LeaseHeld'
  BY <1>6, InstanceMoves DEF Connect, ConnectFails, Send, Primary
<1>7. ASSUME NEW i \in Instance, ReadAnswer(i) \/ FocusTimesOut(i) PROVE LeaseHeld'
  BY <1>7 DEF ReadAnswer, FocusTimesOut, CoordinatorTypeOK, Primary
<1> QED BY <1>1, <1>2, <1>3, <1>4, <1>5, <1>6, <1>7 DEF CoordinatorNext

\* The socket of an instance that still has its lock is removed by nobody else.
LEMMA ReachableStep == CoordinatorIInv /\ CoordinatorNext => PrimaryReachable'
<1> SUFFICES ASSUME CoordinatorIInv, CoordinatorNext PROVE PrimaryReachable' OBVIOUS
<1> USE DEF CoordinatorIInv, SingleInstance, PrimaryReachable
<1>1. ASSUME NEW i \in Instance, NEW j \in Instance, Accept(i, j) PROVE PrimaryReachable'
  BY <1>1 DEF Accept
<1>2. ASSUME NEW i \in Instance, Bind(i) \/ RemoveSocket(i) PROVE PrimaryReachable'
  <2>1. instance[i] \in Primary BY <1>2, InstanceMoves DEF Bind, RemoveSocket, Primary
  <2>2. \A j \in Instance \ {i} : instance'[j] = instance[j] /\ instance[j] \notin Primary
    BY <1>2, <2>1, InstanceMoves DEF Bind, RemoveSocket, LeaseHeld
  <2> QED BY <1>2, <2>2, InstanceMoves DEF Bind, RemoveSocket, Primary
<1>3. ASSUME NEW i \in Instance, Claim(i) \/ AcceptLoop(i) \/ Stop(i) \/ LoopEnds(i) \/ ReleaseLease(i)
      PROVE  PrimaryReachable'
  BY <1>3, InstanceMoves DEF Claim, AcceptLoop, Stop, LoopEnds, ReleaseLease
<1>4. ASSUME NEW i \in Instance, Exit(i) PROVE PrimaryReachable'
  BY <1>4 DEF Exit, CoordinatorTypeOK
<1>5. ASSUME NEW i \in Instance, Connect(i) \/ ConnectFails(i) \/ Send(i) PROVE PrimaryReachable'
  BY <1>5, InstanceMoves DEF Connect, ConnectFails, Send
<1>6. ASSUME NEW i \in Instance, ReadAnswer(i) \/ FocusTimesOut(i) PROVE PrimaryReachable'
  BY <1>6 DEF ReadAnswer, FocusTimesOut, CoordinatorTypeOK
<1> QED BY <1>1, <1>2, <1>3, <1>4, <1>5, <1>6 DEF CoordinatorNext

LEMMA AnswersStep == CoordinatorIInv /\ CoordinatorNext => AnswersTruthful' /\ AckTruthful'
<1> SUFFICES ASSUME CoordinatorIInv, CoordinatorNext PROVE AnswersTruthful' /\ AckTruthful' OBVIOUS
<1> USE DEF CoordinatorIInv, SingleInstance, AnswersTruthful, AckTruthful
<1>1. ASSUME NEW i \in Instance, NEW j \in Instance, Accept(i, j)
      PROVE  AnswersTruthful' /\ AckTruthful'
  <2>1. asked \in [Instance -> [to : SUBSET Instance, sent : BOOLEAN,
                                 answer : {"none", "ok", "nack", "closed"}]]
    BY DEF CoordinatorTypeOK
  <2>2. \A k \in Instance : asked'[k].answer = "ok" => asked[k].answer = "ok" \/ k \in focused'
    <3>1. CASE asked[j].sent BY <1>1, <2>1, <3>1, AnsweredRequest
    <3>2. CASE ~asked[j].sent BY <1>1, <2>1, <3>2 DEF Accept
    <3> QED BY <3>1, <3>2
  <2>3. focused \subseteq focused' /\ instance' = instance BY <1>1 DEF Accept
  <2> QED BY <2>2, <2>3
<1>2. ASSUME NEW i \in Instance, Claim(i) \/ Bind(i) \/ AcceptLoop(i) \/ Stop(i) \/ RemoveSocket(i)
                                 \/ ReleaseLease(i)
      PROVE  AnswersTruthful' /\ AckTruthful'
  BY <1>2, InstanceMoves DEF Claim, Bind, AcceptLoop, Stop, RemoveSocket, ReleaseLease
<1>3. ASSUME NEW i \in Instance, LoopEnds(i) PROVE AnswersTruthful' /\ AckTruthful'
  BY <1>3, InstanceMoves DEF LoopEnds, Hangup, CoordinatorTypeOK
<1>4. ASSUME NEW i \in Instance, Exit(i) PROVE AnswersTruthful' /\ AckTruthful'
  BY <1>4 DEF Exit, Hangup, CoordinatorTypeOK
<1>5. ASSUME NEW i \in Instance, Connect(i) \/ ConnectFails(i) \/ Send(i)
      PROVE  AnswersTruthful' /\ AckTruthful'
  BY <1>5, InstanceMoves DEF Connect, ConnectFails, Send, CoordinatorTypeOK
<1>6. ASSUME NEW i \in Instance, ReadAnswer(i) \/ FocusTimesOut(i)
      PROVE  AnswersTruthful' /\ AckTruthful'
  BY <1>6 DEF ReadAnswer, FocusTimesOut, CoordinatorTypeOK
<1> QED BY <1>1, <1>2, <1>3, <1>4, <1>5, <1>6 DEF CoordinatorNext

\* It holds in every reachable state.
LEMMA CoordinatorInvariant == CoordinatorSpec => []CoordinatorIInv
<1>1. CoordinatorIInv /\ [CoordinatorNext]_coordination => CoordinatorIInv'
  <2>1. CASE UNCHANGED coordination
    BY <2>1 DEF coordination, CoordinatorIInv, CoordinatorTypeOK, LeaseHeld, AnswersTruthful,
                SingleInstance, PrimaryReachable, AckTruthful
  <2>2. CoordinatorIInv /\ CoordinatorNext => CoordinatorIInv'
    BY CoordinatorTypes, LeaseStep, ReachableStep, AnswersStep DEF CoordinatorIInv, SingleInstance
  <2> QED BY <2>1, <2>2
<1> QED BY <1>1, CoordinatorStart, PTL DEF CoordinatorSpec

\* The instances keep their types: lease, socket, window and requests on their way.
THEOREM CoordinatorTypesCorrect == CoordinatorSpec => []CoordinatorTypeOK
<1>1. CoordinatorIInv => CoordinatorTypeOK BY DEF CoordinatorIInv
<1> QED BY <1>1, CoordinatorInvariant, PTL

\* For any number of instances that start, end and die in any order: the socket at the path is
\* that of the window that is there, and whoever is told that it was shown has had it shown.
THEOREM OneWindow == CoordinatorSpec => []SingleInstance
<1>1. CoordinatorIInv => SingleInstance BY DEF CoordinatorIInv
<1> QED BY <1>1, CoordinatorInvariant, PTL

-----------------------------------------------------------------------------
(* The view of a scan.                                                     *)

\* The request that the controller waits for is on its way.
PollFits == currentPoll # NoRead => reads[currentPoll].stage # "free"

\* A hidden window neither waits nor has a timer.
HiddenQuiet == ~started => timer = "none" /\ currentPoll = NoRead

\* Generations of requests are counted upwards, and only one request can be of the last.
ReadsFit ==
    \A r \in Read : reads[r].stage # "free" =>
       /\ reads[r].gen <= pollGeneration
       /\ started /\ reads[r].gen = pollGeneration => r = currentPoll

ScanIInv == ScanProgressTypeOK /\ PollFits /\ HiddenQuiet /\ ReadsFit /\ Watched

LEMMA ScanStart == ScanProgressInit => ScanIInv
<1> SUFFICES ASSUME ScanProgressInit PROVE ScanIInv OBVIOUS
<1>1. \A r \in Read : reads[r] = Free BY DEF ScanProgressInit
<1>2. Free \in [stage : {"free", "sent", "answered"}, gen : Nat, answer : Answer] BY DEF Free, Idle, Answer
<1>3. ScanProgressTypeOK BY <1>2 DEF ScanProgressInit, ScanProgressTypeOK, Answer, Idle, NotShown
<1>4. PollFits /\ HiddenQuiet /\ Watched BY DEF ScanProgressInit, PollFits, HiddenQuiet, Watched
<1>5. ReadsFit BY <1>1 DEF ReadsFit, Free
<1> QED BY <1>3, <1>4, <1>5 DEF ScanIInv

\* The requests that one of them being sent leaves.
LEMMA SendKeeps ==
    ASSUME ScanProgressTypeOK, NEW r \in Read, NEW gen \in Nat, SendRead(r, gen)
    PROVE  /\ reads' \in [Read -> [stage : {"free", "sent", "answered"}, gen : Nat, answer : Answer]]
           /\ reads'[r].stage = "sent" /\ reads'[r].gen = gen
           /\ \A q \in Read \ {r} : reads'[q] = reads[q]
           /\ currentPoll' = r
BY DEF SendRead, ScanProgressTypeOK, Answer, Idle

\* The requests that the end of one of them leaves.
LEMMA FreeKeeps ==
    ASSUME ScanProgressTypeOK, NEW r \in Read, reads' = [reads EXCEPT ![r] = Free]
    PROVE  /\ reads' \in [Read -> [stage : {"free", "sent", "answered"}, gen : Nat, answer : Answer]]
           /\ reads'[r].stage = "free"
           /\ \A q \in Read \ {r} : reads'[q] = reads[q]
BY DEF ScanProgressTypeOK, Answer, Idle, Free

\* What the invariant says of the requests, the timer and what is shown.
Polling ==
    /\ reads \in [Read -> [stage : {"free", "sent", "answered"}, gen : Nat, answer : Answer]]
    /\ timer \in {"none", "active", "idle"}
    /\ currentPoll \in Read \cup {NoRead}
    /\ repoll \in BOOLEAN
    /\ PollFits /\ HiddenQuiet /\ ReadsFit /\ Watched

\* refresh, by a visible window.
LEMMA RefreshKeeps ==
    ASSUME ScanIInv, started, Refresh, UNCHANGED <<started, pollGeneration, view>>
    PROVE  Polling'
<1> USE DEF ScanIInv
<1>1. CASE currentPoll # NoRead
  BY <1>1 DEF Refresh, Polling, ScanProgressTypeOK, PollFits, HiddenQuiet, ReadsFit, Watched, view
<1>2. CASE currentPoll = NoRead
  <2>1. PICK r \in Read : SendRead(r, pollGeneration) BY <1>2 DEF Refresh
  <2>2. repoll' = repoll /\ timer' = "none" /\ pollGeneration \in Nat
    BY <1>2 DEF Refresh, ScanProgressTypeOK
  <2> QED BY <1>2, <2>1, <2>2, SendKeeps, NoReadAssumption
          DEF Polling, ScanProgressTypeOK, PollFits, HiddenQuiet, ReadsFit, Watched, view
<1> QED BY <1>1, <1>2

\* readProgress, from its answer or failure on.
LEMMA ReadEndKeeps ==
    ASSUME ScanIInv, NEW r \in Read, reads[r].stage # "free", ReadEnds(r),
           UNCHANGED <<started, pollGeneration>>,
           UNCHANGED view \/ StillAwaited(r)
    PROVE  Polling'
<1> USE DEF ScanIInv
<1>1. CASE currentPoll # r
  <2>1. UNCHANGED view BY <1>1 DEF StillAwaited, ReadsFit
  <2> QED BY <1>1, <2>1, FreeKeeps
          DEF ReadEnds, Polling, ScanProgressTypeOK, PollFits, HiddenQuiet, ReadsFit, Watched, view
<1>2. CASE currentPoll = r
  <2>1. started BY <1>2, NoReadAssumption DEF HiddenQuiet
  <2>2. CASE ~StillAwaited(r) \/ repoll
    <3>1. SendRead(r, pollGeneration) /\ repoll' = FALSE /\ timer' = "none" /\ pollGeneration \in Nat
      BY <1>2, <2>2 DEF ReadEnds, ReadSettled, ScanProgressTypeOK
    <3>2. /\ reads' \in [Read -> [stage : {"free", "sent", "answered"}, gen : Nat, answer : Answer]]
          /\ reads'[r].stage = "sent" /\ reads'[r].gen = pollGeneration
          /\ \A q \in Read \ {r} : reads'[q] = reads[q]
          /\ currentPoll' = r
      BY <3>1, SendKeeps
    <3>3. PollFits' /\ HiddenQuiet' /\ Watched' BY <2>1, <3>2, NoReadAssumption DEF PollFits, HiddenQuiet, Watched
    <3>4. ReadsFit' BY <1>2, <3>1, <3>2 DEF ReadsFit
    <3> QED BY <3>1, <3>2, <3>3, <3>4 DEF Polling
  <2>3. CASE StillAwaited(r) /\ ~repoll
    <3>1. /\ currentPoll' = NoRead /\ reads' = [reads EXCEPT ![r] = Free] /\ repoll' = repoll
          /\ timer' = Pace
      BY <1>2, <2>1, <2>3 DEF ReadEnds, ReadSettled, ScheduleNext
    <3>2. timer' \in {"active", "idle"} /\ (timer' = "idle" => scanState'.kind # "running")
      BY <3>1 DEF Pace
    <3> QED BY <1>2, <2>1, <3>1, <3>2, FreeKeeps, NoReadAssumption
            DEF Polling, ScanProgressTypeOK, PollFits, HiddenQuiet, ReadsFit, Watched
  <2> QED BY <2>2, <2>3
<1> QED BY <1>1, <1>2

\* The backend marks its scans and the calls it executes: none of it is the controller's.
LEMMA BackendKeeps ==
    ASSUME ScanIInv,
           CommandBegins \/ CommandEnds \/ RoundBegins \/ RoundEnds \/ CancelAnswered \/ StrayCancel
    PROVE  ScanIInv'
<1> USE DEF ScanIInv
<1>1. UNCHANGED <<polling, view>>
  BY DEF CommandBegins, CommandEnds, RoundBegins, RoundEnds, CancelAnswered, StrayCancel
<1>2. scan' \in Answer
  <2>1. scan \in Answer BY DEF ScanProgressTypeOK
  <2>2. CASE MarkScanStarted BY <2>2 DEF MarkScanStarted, Idle, Answer
  <2>3. CASE FinishScan BY <2>1, <2>3 DEF FinishScan, FinishSuccess, FinishError, Answer
  <2>4. CASE RequestScanCancel BY <2>1, <2>4 DEF RequestScanCancel, Answer
  <2>5. CASE UNCHANGED scan BY <2>1, <2>5
  <2> QED BY <2>2, <2>3, <2>4, <2>5
          DEF CommandBegins, CommandEnds, RoundBegins, RoundEnds, CancelAnswered, StrayCancel
<1>3. /\ command' \in {"none", "sent", "running", "answered"} /\ round' \in {"none", "seen", "unseen"}
      /\ cancelling' \in {"none", "sent", "answered"} /\ strays' \in Nat
      /\ commands' \in Nat /\ rounds' \in Nat /\ hides' \in Nat /\ losses' \in Nat
  BY DEF CommandBegins, CommandEnds, RoundBegins, RoundEnds, CancelAnswered, StrayCancel, scanBounds,
         ScanProgressTypeOK
<1> QED BY <1>1, <1>2, <1>3
        DEF ScanProgressTypeOK, PollFits, HiddenQuiet, ReadsFit, Watched, polling, view

LEMMA ScanStep == ScanIInv /\ ScanProgressNext => ScanIInv'
<1> SUFFICES ASSUME ScanIInv, ScanProgressNext PROVE ScanIInv' OBVIOUS
<1> USE DEF ScanIInv
\* Everything but the polling keeps its type.
<1> DEFINE RestTyped ==
      /\ scan \in Answer /\ command \in {"none", "sent", "running", "answered"}
      /\ round \in {"none", "seen", "unseen"}
      /\ started \in BOOLEAN /\ observed \in BOOLEAN /\ pollGeneration \in Nat
      /\ scanState \in [kind : {"idle", "running", "cancelled"}, asked : BOOLEAN]
      /\ scanState.asked => scanState.kind = "running"
      /\ cancelling \in {"none", "sent", "answered"} /\ strays \in Nat
      /\ commands \in Nat /\ rounds \in Nat /\ hides \in Nat /\ losses \in Nat
<1>1. RestTyped BY DEF ScanProgressTypeOK
<1>2. RestTyped' /\ Polling' => ScanIInv' BY DEF Polling, ScanProgressTypeOK
<1>3. Polling BY DEF Polling, ScanProgressTypeOK
<1>4. CASE CommandBegins \/ CommandEnds \/ RoundBegins \/ RoundEnds \/ CancelAnswered \/ StrayCancel
  BY <1>4, BackendKeeps
<1>5. ASSUME NEW r \in Read, ReadAnswered(r) PROVE ScanIInv'
  <2>1. scan \in Answer BY <1>1
  <2>2. /\ reads' \in [Read -> [stage : {"free", "sent", "answered"}, gen : Nat, answer : Answer]]
        /\ \A q \in Read : reads'[q].gen = reads[q].gen /\ (reads'[q].stage = "free" <=> reads[q].stage = "free")
    BY <1>3, <1>5, <2>1 DEF ReadAnswered, Polling
  <2>3. Polling'
    BY <1>3, <1>5, <2>2 DEF ReadAnswered, Polling, PollFits, HiddenQuiet, ReadsFit, Watched, view
  <2>4. RestTyped' BY <1>1, <1>5 DEF ReadAnswered, backend, view, scanBounds
  <2> QED BY <1>2, <2>3, <2>4
<1>6. ASSUME NEW r \in Read, ReadSucceeds(r) PROVE ScanIInv'
  <2>1. CASE StillAwaited(r)
    <3>1. reads[r].answer \in Answer BY <1>3 DEF Polling
    <3>2. /\ observed' \in BOOLEAN
          /\ scanState' \in [kind : {"idle", "running", "cancelled"}, asked : BOOLEAN]
          /\ scanState'.asked => scanState'.kind = "running"
      <4>1. scanState' = ScanOutcome(reads[r].answer) /\ observed' = reads[r].answer.running
        BY <1>6, <2>1 DEF ReadSucceeds, Observe
      <4>2. CASE reads[r].answer.running
        <5>1. scanState' = [kind |-> "running", asked |-> reads[r].answer.cancel \/ scanState.asked]
          BY <4>1, <4>2 DEF ScanOutcome
        <5>2. (reads[r].answer.cancel \/ scanState.asked) \in BOOLEAN OBVIOUS
        <5> QED BY <3>1, <4>1, <5>1, <5>2 DEF Answer
      <4>3. CASE ~reads[r].answer.running /\ scanState.kind # "running"
        BY <1>1, <3>1, <4>1, <4>3 DEF ScanOutcome, Answer
      <4>4. CASE ~reads[r].answer.running /\ scanState.kind = "running"
        BY <3>1, <4>1, <4>4 DEF ScanOutcome, Answer
      <4> QED BY <4>2, <4>3, <4>4
    <3>4. Polling' BY <1>6, <2>1, ReadEndKeeps DEF ReadSucceeds
    <3>5. RestTyped' BY <1>1, <1>6, <3>2 DEF ReadSucceeds, backend, scanBounds
    <3> QED BY <1>2, <3>4, <3>5
  <2>2. CASE ~StillAwaited(r)
    <3>1. UNCHANGED view BY <1>6, <2>2 DEF ReadSucceeds
    <3>2. Polling' BY <1>6, <3>1, ReadEndKeeps DEF ReadSucceeds
    <3>3. RestTyped' BY <1>1, <1>6, <3>1 DEF ReadSucceeds, backend, scanBounds, view
    <3> QED BY <1>2, <3>2, <3>3
  <2> QED BY <2>1, <2>2
<1>7. ASSUME NEW r \in Read, ReadFails(r) PROVE ScanIInv'
  <2>1. Polling' BY <1>7, ReadEndKeeps DEF ReadFails
  <2>2. RestTyped' BY <1>1, <1>7 DEF ReadFails, backend, view
  <2> QED BY <1>2, <2>1, <2>2
<1>8. CASE TimerFires
  <2>1. started BY <1>8 DEF TimerFires, HiddenQuiet
  <2>2. Polling' BY <1>8, <2>1, RefreshKeeps DEF TimerFires
  <2>3. RestTyped' BY <1>1, <1>8 DEF TimerFires, backend, view, scanBounds
  <2> QED BY <1>2, <2>2, <2>3
<1>9. CASE Show
  <2>1. PICK r \in Read : SendRead(r, pollGeneration + 1) BY <1>9 DEF Show
  <2>2. pollGeneration' = pollGeneration + 1 /\ pollGeneration \in Nat /\ started' /\ timer' = "none"
        /\ repoll' = repoll
    BY <1>1, <1>9 DEF Show
  <2>3. /\ reads' \in [Read -> [stage : {"free", "sent", "answered"}, gen : Nat, answer : Answer]]
        /\ reads'[r].stage = "sent" /\ reads'[r].gen = pollGeneration + 1
        /\ \A q \in Read \ {r} : reads'[q] = reads[q]
        /\ currentPoll' = r
    BY <2>1, <2>2, SendKeeps
  <2>4. ReadsFit' BY <1>3, <2>2, <2>3 DEF ReadsFit, Polling
  <2>5. Polling' BY <1>3, <2>2, <2>3, <2>4, NoReadAssumption DEF Polling, PollFits, HiddenQuiet, Watched
  <2>6. RestTyped' BY <1>1, <1>9 DEF Show, backend, view, scanBounds
  <2> QED BY <1>2, <2>5, <2>6
<1>10. CASE Hide
  <2>1. /\ UNCHANGED <<scan, command, round, scanState, observed, reads, cancelling, strays>>
        /\ UNCHANGED <<commands, rounds, losses>>
        /\ started' = FALSE /\ pollGeneration' = pollGeneration + 1 /\ timer' = "none" /\ repoll' = FALSE
        /\ currentPoll' = NoRead /\ hides' = hides + 1
    BY <1>10 DEF Hide, backend, view
  <2>2. ReadsFit' BY <1>1, <1>3, <2>1 DEF Polling, ReadsFit
  <2>3. Polling' BY <1>3, <2>1, <2>2 DEF Polling, PollFits, HiddenQuiet, Watched
  <2>4. pollGeneration' \in Nat /\ hides' \in Nat /\ started' \in BOOLEAN
    <3>1. pollGeneration \in Nat /\ hides \in Nat BY <1>1
    <3>2. pollGeneration' = pollGeneration + 1 /\ hides' = hides + 1 BY <2>1
    <3>3. started' \in BOOLEAN BY <2>1
    <3> QED BY <3>1, <3>2, <3>3
  <2>5. RestTyped'
    BY <1>1, <1>10, <2>4 DEF Hide, backend, view
  <2> QED BY <1>2, <2>3, <2>5
<1>11. CASE AskScan
  <2>1. Polling' BY <1>1, <1>3, <1>11
                 DEF AskScan, Signalled, ScheduleNext, Polling, PollFits, HiddenQuiet, ReadsFit, Watched
  <2>2. RestTyped' BY <1>1, <1>11 DEF AskScan, Signalled
  <2> QED BY <1>2, <2>1, <2>2
<1>12. CASE ScanAnswered \/ CancelSucceeds
  <2>1. Polling'
    <3>1. CASE started BY <1>12, <3>1, RefreshKeeps DEF ScanAnswered, CancelSucceeds, RefreshIfStarted
    <3>2. CASE ~started
      BY <1>3, <1>12, <3>2
         DEF ScanAnswered, CancelSucceeds, RefreshIfStarted, Polling, PollFits, HiddenQuiet, ReadsFit, Watched
    <3> QED BY <3>1, <3>2
  <2>2. RestTyped' BY <1>1, <1>12 DEF ScanAnswered, CancelSucceeds, backend, view, scanBounds
  <2> QED BY <1>2, <2>1, <2>2
<1>13. CASE AskCancel
  <2>1. Polling' BY <1>3, <1>13
                 DEF AskCancel, ScheduleNext, Polling, PollFits, HiddenQuiet, ReadsFit, Watched
  <2>2. RestTyped' BY <1>1, <1>13 DEF AskCancel, backend, scanBounds
  <2> QED BY <1>2, <2>1, <2>2
<1>14. CASE CancelFails
  <2>1. Polling' BY <1>3, <1>14
                 DEF CancelFails, ScheduleNext, Pace, Polling, PollFits, HiddenQuiet, ReadsFit, Watched
  <2>2. scanState' \in [kind : {"idle", "running", "cancelled"}, asked : BOOLEAN]
        /\ (scanState'.asked => scanState'.kind = "running")
    BY <1>1, <1>14 DEF CancelFails
  <2>3. RestTyped' BY <1>1, <1>14, <2>2 DEF CancelFails, backend
  <2> QED BY <1>2, <2>1, <2>3
<1>15. CASE DismissCancelled
  <2>1. Polling' BY <1>3, <1>15
                 DEF DismissCancelled, NotShown, polling, Polling, PollFits, HiddenQuiet, ReadsFit, Watched
  <2>2. RestTyped' BY <1>1, <1>15 DEF DismissCancelled, NotShown, polling, backend, scanBounds
  <2> QED BY <1>2, <2>1, <2>2
<1> QED BY <1>4, <1>5, <1>6, <1>7, <1>8, <1>9, <1>10, <1>11, <1>12, <1>13, <1>14, <1>15
        DEF ScanProgressNext

\* It holds in every reachable state.
LEMMA ScanInvariant == ScanProgressSpec => []ScanIInv
<1>1. ScanIInv /\ [ScanProgressNext]_scanVars => ScanIInv'
  <2>1. CASE UNCHANGED scanVars
    BY <2>1 DEF ScanIInv, ScanProgressTypeOK, PollFits, HiddenQuiet, ReadsFit, Watched,
                scanVars, backend, polling, view, scanBounds
  <2> QED BY <2>1, ScanStep
<1> QED BY <1>1, ScanStart, PTL DEF ScanProgressSpec

\* The view of a scan keeps its types: requests, timers and generations.
THEOREM ScanTypesCorrect == ScanProgressSpec => []ScanProgressTypeOK
<1>1. ScanIInv => ScanProgressTypeOK BY DEF ScanIInv
<1> QED BY <1>1, ScanInvariant, PTL

\* For any number of requests, scans, hidings and losses: a visible window never stops looking
\* at the scan, by a request on its way or by a timer, the short one while a scan is shown.
THEOREM NeverStopsLooking == ScanProgressSpec => []Watched
<1>1. ScanIInv => Watched BY DEF ScanIInv
<1> QED BY <1>1, ScanInvariant, PTL

-----------------------------------------------------------------------------
(* The registry of watchers.                                               *)

\* A source is listed once, and has one handle.
ListedOnce == \A s \in Watchable : \A x, y \in listed[s] : x = y
OneHandle == \A s \in Watchable : \A h, k \in registered[s] : h = k

\* A handle is that of a thread of its source and signature which nobody told to stop.
HandlesFit ==
    \A s \in Watchable : \A h \in registered[s] :
       /\ h.gen <= generations
       /\ thread[h.gen].src = s /\ thread[h.gen].sig = h.sig
       /\ ~thread[h.gen].stop /\ thread[h.gen].pc # "none"

ThreadsFit == \A g \in Generation : g > generations => thread[g].pc = "none"

\* The messages on their way, and whether one of some kinds is of the watcher g.
Said == {inbox[i] : i \in DOMAIN inbox}
Heard(kinds, g) == \E m \in Said : m.kind \in kinds /\ m.gen = g

\* What a message says is true of its thread.
MessagesFit ==
    \A m \in Said :
       /\ m.gen <= generations
       /\ m.kind = "failed" => thread[m.gen].pc = "gone"
       /\ m.kind = "ready" => thread[m.gen].pc \in {"watching", "gone"}

\* WatchersRegistered: who runs and was not told to stop is registered; who is registered
\* runs, or has said that he failed.
RunnersRegistered ==
    \A g \in Generation : thread[g].pc \in {"starting", "watching"} /\ ~thread[g].stop => IsCurrent(g)
HandlesRun ==
    \A s \in Watchable : \A h \in registered[s] :
       thread[h.gen].pc \in {"starting", "watching"} \/ Heard({"failed"}, h.gen)

\* Nothing is missed of a source that is not listed, or whose watcher is of an older signature.
NothingMissed ==
    \A s \in Watchable :
       listed[s] = {} \/ (\E h \in registered[s] : {h.sig} # listed[s]) => ~blind[s] /\ ~unseen[s]

\* A retry of the signature that is configured.
Retries(s) == \E r \in retrying[s] : {r.sig} = listed[s]

\* A source is blind from the failure of its watcher on: that is to be heard, or to be made up
\* for by a retry. It is not while its watcher watches.
BlindKnown ==
    \A s \in Watchable : blind[s] =>
       /\ Retries(s) \/ \E h \in registered[s] : Heard({"failed"}, h.gen)
       /\ \A h \in registered[s] : thread[h.gen].pc # "watching"

\* GapCovered, by a retry that will not be dropped.
GapKept ==
    \A s \in Watchable : unseen[s] =>
       \/ Retries(s) \/ recovering[s] # {}
       \/ \E h \in registered[s] : thread[h.gen].unread \/ Heard({"changed", "failed"}, h.gen)
       \/ \E m \in Said : m.kind = "overflow"

RegistryIInv ==
    /\ RegistryTypeOK /\ ListedOnce /\ OneHandle /\ HandlesFit /\ ThreadsFit /\ MessagesFit
    /\ RunnersRegistered /\ HandlesRun /\ NothingMissed /\ BlindKnown /\ GapKept

LEMMA SaidTyped == RegistryTypeOK => Said \subseteq Message
BY DEF Said, RegistryTypeOK

LEMMA InvariantCovers == RegistryIInv => SourcesWatched
<1> SUFFICES ASSUME RegistryIInv PROVE SourcesWatched OBVIOUS
<1> USE DEF RegistryIInv
<1>1. \A m \in Said : m \in Message /\ \E i \in DOMAIN inbox : inbox[i] = m
  BY SaidTyped DEF Said
<1>2. \A s \in Watchable : \A h \in registered[s] :
         Heard({"failed"}, h.gen) => \E i \in DOMAIN inbox : inbox[i] = [kind |-> "failed", gen |-> h.gen]
  BY <1>1 DEF Heard, Message
<1>3. WatchersRegistered BY <1>2 DEF WatchersRegistered, RunnersRegistered, HandlesRun
<1>4. GapCovered BY <1>1 DEF GapCovered, GapKept, Heard, Retries
<1> QED BY <1>3, <1>4 DEF SourcesWatched

LEMMA RegistryStart == RegistryInit => RegistryIInv
<1> SUFFICES ASSUME RegistryInit PROVE RegistryIInv OBVIOUS
<1> USE DEF RegistryInit
<1>1. Said = {} BY DEF Said
<1>2. \A g \in Generation : thread[g].pc = "none" BY DEF NoThread
<1>3. RegistryTypeOK
  <2>1. NoThread \in [src : Watchable, sig : Signature, pc : {"none", "starting", "watching", "gone"},
                      stop : BOOLEAN, unread : BOOLEAN]
    BY SourcesAssumption, RegistryBounds DEF NoThread, Signature
  <2> QED BY <2>1, RegistryBounds DEF RegistryTypeOK, Signature
<1> QED BY <1>1, <1>2, <1>3
        DEF RegistryIInv, ListedOnce, OneHandle, HandlesFit, ThreadsFit, MessagesFit, RunnersRegistered,
            HandlesRun, NothingMissed, BlindKnown, GapKept

\* A message is added to those on their way.
LEMMA SentSaid ==
    ASSUME RegistryTypeOK, NEW kind \in {"ready", "changed", "failed", "overflow"}, NEW g \in Generation,
           Sent(kind, g)
    PROVE  inbox' \in Seq(Message) /\ Said' = Said \cup {[kind |-> kind, gen |-> g]}
<1> DEFINE m == [kind |-> kind, gen |-> g]
<1>1. m \in Message BY DEF Message
<1>2. inbox \in Seq(Message) /\ inbox' = Append(inbox, m) BY DEF RegistryTypeOK, Sent
<1> HIDE DEF m
<1>3. inbox' \in Seq(Message) /\ Len(inbox') = Len(inbox) + 1 BY <1>1, <1>2
<1>4. /\ \A i \in 1 .. Len(inbox) : inbox'[i] = inbox[i]
      /\ inbox'[Len(inbox) + 1] = m
  BY <1>1, <1>2
<1>5. Said' = Said \cup {m} BY <1>2, <1>3, <1>4 DEF Said
<1> QED BY <1>3, <1>5 DEF m

\* The first message is taken from them; another one that says the same may stay.
LEMMA TakenSaid ==
    ASSUME RegistryTypeOK, inbox # <<>>, inbox' = Tail(inbox)
    PROVE  /\ inbox' \in Seq(Message) /\ Head(inbox) \in Said
           /\ Said' \subseteq Said /\ Said \subseteq Said' \cup {Head(inbox)}
<1>1. inbox \in Seq(Message) /\ Len(inbox) \in Nat /\ Len(inbox) > 0 BY DEF RegistryTypeOK
<1>2. inbox' \in Seq(Message) /\ Len(inbox') = Len(inbox) - 1 BY <1>1
<1>3. \A i \in 1 .. Len(inbox') : i + 1 \in 1 .. Len(inbox) /\ inbox'[i] = inbox[i + 1] BY <1>1, <1>2
<1>4. Head(inbox) = inbox[1] BY <1>1
<1>5. \A i \in 1 .. Len(inbox) : i = 1 \/ (i - 1 \in 1 .. Len(inbox') /\ inbox'[i - 1] = inbox[i])
  BY <1>1, <1>2, <1>3
<1>6. Said' \subseteq Said BY <1>1, <1>2, <1>3 DEF Said
<1>7. DOMAIN inbox = 1 .. Len(inbox) /\ DOMAIN inbox' = 1 .. Len(inbox') BY <1>1, <1>2
<1>8. ASSUME NEW i \in 1 .. Len(inbox) PROVE inbox[i] \in Said' \cup {Head(inbox)}
  <2>1. CASE i = 1 BY <1>4, <2>1
  <2>2. CASE i # 1
    <3>1. i - 1 \in 1 .. Len(inbox') /\ inbox'[i - 1] = inbox[i] BY <1>5, <2>2
    <3> QED BY <1>7, <3>1 DEF Said
  <2> QED BY <2>1, <2>2
<1>9. Said \subseteq Said' \cup {Head(inbox)} BY <1>7, <1>8 DEF Said
<1>10. Head(inbox) \in Said
  <2>1. 1 \in DOMAIN inbox BY <1>1, <1>7
  <2> QED BY <1>4, <2>1 DEF Said
<1> QED BY <1>2, <1>6, <1>9, <1>10
\* The catalog is written: nothing is missed of its source from then on.
LEMMA CatalogKeeps ==
    ASSUME RegistryIInv, NEW s \in Watchable, Reconfigure(s) \/ Unlist(s)
    PROVE  RegistryIInv'
<1> USE DEF RegistryIInv
<1>1. UNCHANGED <<registered, retrying, recovering, generations, thread, inbox, edits, failures>>
  BY DEF Reconfigure, Unlist, registry
<1>2. /\ blind' = [blind EXCEPT ![s] = FALSE] /\ unseen' = [unseen EXCEPT ![s] = FALSE]
  BY DEF Reconfigure, Unlist, Settled
<1>3. PICK x \in SUBSET Signature : listed' = [listed EXCEPT ![s] = x] /\ \A g, h \in x : g = h
  <2>1. CASE Reconfigure(s)
    <3>1. PICK g \in listed[s] : g < MaxSignature /\ listed' = [listed EXCEPT ![s] = {g + 1}]
      BY <2>1 DEF Reconfigure
    <3>2. g \in 0 .. MaxSignature BY DEF RegistryTypeOK, Signature
    <3>3. {g + 1} \in SUBSET Signature BY <3>1, <3>2, RegistryBounds DEF Signature
    <3> WITNESS {g + 1} \in SUBSET Signature
    <3> QED BY <3>1
  <2>2. CASE Unlist(s)
    <3>1. listed' = [listed EXCEPT ![s] = {}] BY <2>2 DEF Unlist
    <3> WITNESS {} \in SUBSET Signature
    <3> QED BY <3>1
  <2> QED BY <2>1, <2>2
<1>4. /\ listed \in [Watchable -> SUBSET Signature]
      /\ blind \in [Watchable -> BOOLEAN] /\ unseen \in [Watchable -> BOOLEAN]
  BY DEF RegistryTypeOK
<1>5. /\ listed' \in [Watchable -> SUBSET Signature]
      /\ \A q \in Watchable \ {s} : listed'[q] = listed[q] /\ blind'[q] = blind[q] /\ unseen'[q] = unseen[q]
      /\ ~blind'[s] /\ ~unseen'[s]
      /\ blind' \in [Watchable -> BOOLEAN] /\ unseen' \in [Watchable -> BOOLEAN]
  BY <1>2, <1>3, <1>4
<1>6. RegistryTypeOK' BY <1>1, <1>5 DEF RegistryTypeOK
<1>7. ListedOnce' BY <1>3, <1>4 DEF ListedOnce
<1>8. Said' = Said BY <1>1 DEF Said
<1>9. OneHandle' /\ HandlesFit' /\ ThreadsFit' /\ MessagesFit'
  BY <1>1, <1>8 DEF OneHandle, HandlesFit, ThreadsFit, MessagesFit
<1>10. RunnersRegistered' /\ HandlesRun'
  BY <1>1, <1>8 DEF RunnersRegistered, HandlesRun, IsCurrent, Heard
<1>11. NothingMissed' BY <1>1, <1>5 DEF NothingMissed
<1>12. BlindKnown' BY <1>1, <1>5, <1>8 DEF BlindKnown, Retries, Heard
<1>13. GapKept' BY <1>1, <1>5, <1>8 DEF GapKept, Retries, Heard
<1> QED BY <1>6, <1>7, <1>9, <1>10, <1>11, <1>12, <1>13

\* A change on disk.
LEMMA EditKeeps == ASSUME RegistryIInv, NEW s \in Watchable, Edit(s) PROVE RegistryIInv'
<1> USE DEF RegistryIInv
<1> DEFINE watching == {g \in Generation : thread[g].src = s /\ thread[g].pc = "watching"}
           seen == \E g \in watching : IsCurrent(g) /\ OfCurrentSignature(g)
<1>1. /\ UNCHANGED <<listed, registered, retrying, recovering, generations, inbox, failures, blind>>
      /\ edits' \in 0 .. MaxEdits
  BY RegistryBounds DEF Edit, registry, RegistryTypeOK
<1>2. /\ thread' = [g \in Generation |-> IF g \in watching THEN [thread[g] EXCEPT !.unread = TRUE] ELSE thread[g]]
      /\ unseen' = [unseen EXCEPT ![s] = @ \/ blind[s] \/ seen]
  BY DEF Edit
<1>3. \A g \in Generation : thread[g] \in [src : Watchable, sig : Signature,
             pc : {"none", "starting", "watching", "gone"}, stop : BOOLEAN, unread : BOOLEAN]
  BY DEF RegistryTypeOK
<1>4. \A g \in Generation :
         /\ thread'[g].src = thread[g].src /\ thread'[g].sig = thread[g].sig
         /\ thread'[g].pc = thread[g].pc /\ thread'[g].stop = thread[g].stop
         /\ thread[g].unread \/ g \in watching => thread'[g].unread
  BY <1>2, <1>3
<1>5. thread' \in [Generation -> [src : Watchable, sig : Signature,
             pc : {"none", "starting", "watching", "gone"}, stop : BOOLEAN, unread : BOOLEAN]]
  BY <1>2, <1>3
<1>6. unseen \in [Watchable -> BOOLEAN] BY DEF RegistryTypeOK
<1> HIDE DEF seen
<1>7. /\ unseen' \in [Watchable -> BOOLEAN]
      /\ \A q \in Watchable : unseen'[q] => unseen[q] \/ (q = s /\ (blind[s] \/ seen))
  BY <1>2, <1>6
<1>8. RegistryTypeOK' BY <1>1, <1>5, <1>7 DEF RegistryTypeOK
<1>9. Said' = Said BY <1>1 DEF Said
<1>10. \A q \in Watchable : \A h \in registered[q] : h.gen \in Generation BY DEF RegistryTypeOK
<1>11. \A m \in Said : m.gen \in Generation BY SaidTyped DEF Message
<1>12. ListedOnce' /\ OneHandle' /\ HandlesFit' /\ ThreadsFit' /\ MessagesFit'
  BY <1>1, <1>4, <1>9, <1>10, <1>11 DEF ListedOnce, OneHandle, HandlesFit, ThreadsFit, MessagesFit
<1>13. RunnersRegistered' /\ HandlesRun'
  BY <1>1, <1>4, <1>9, <1>10 DEF RunnersRegistered, HandlesRun, IsCurrent, Heard
<1>14. seen => \E h \in registered[s] : {h.sig} = listed[s] /\ h.gen \in watching
  BY DEF seen, IsCurrent, OfCurrentSignature, HandlesFit
<1>15. NothingMissed' BY <1>1, <1>7, <1>14 DEF NothingMissed, OneHandle
<1>16. BlindKnown' BY <1>1, <1>4, <1>9, <1>10 DEF BlindKnown, Retries, Heard
<1>17. GapKept'
  <2>1. SUFFICES ASSUME NEW q \in Watchable, unseen'[q]
                 PROVE  \/ Retries(q) \/ recovering[q] # {}
                        \/ \E h \in registered[q] : thread'[h.gen].unread \/ Heard({"changed", "failed"}, h.gen)
                        \/ \E m \in Said : m.kind = "overflow"
    BY <1>1, <1>9 DEF GapKept, Retries, Heard
  <2>2. CASE unseen[q] BY <1>4, <1>10, <2>2 DEF GapKept
  <2>3. CASE q = s /\ blind[s] BY <2>3 DEF BlindKnown, Heard
  <2>4. CASE q = s /\ seen BY <1>4, <1>14, <2>4
  <2> QED BY <1>7, <2>1, <2>2, <2>3, <2>4
<1> QED BY <1>8, <1>12, <1>13, <1>15, <1>16, <1>17
\* The type of a thread.
ThreadTyped(t) == t \in [src : Watchable, sig : Signature, pc : {"none", "starting", "watching", "gone"},
                         stop : BOOLEAN, unread : BOOLEAN]

\* A watcher is ready.
LEMMA StartKeeps == ASSUME RegistryIInv, NEW g \in Generation, StartWatching(g) PROVE RegistryIInv'
<1> USE DEF RegistryIInv
<1> DEFINE s == thread[g].src
           m == [kind |-> "ready", gen |-> g]
<1>1. /\ UNCHANGED <<listed, registered, retrying, recovering, generations, edits, failures, unseen>>
      /\ thread[g].pc = "starting" /\ thread' = [thread EXCEPT ![g].pc = "watching"]
  BY DEF StartWatching, registry
<1>2. \A t \in Generation : ThreadTyped(thread[t]) BY DEF RegistryTypeOK, ThreadTyped
<1>3. /\ thread' \in [Generation -> [src : Watchable, sig : Signature,
             pc : {"none", "starting", "watching", "gone"}, stop : BOOLEAN, unread : BOOLEAN]]
      /\ \A t \in Generation :
            /\ thread'[t].src = thread[t].src /\ thread'[t].sig = thread[t].sig
            /\ thread'[t].stop = thread[t].stop /\ thread'[t].unread = thread[t].unread
            /\ thread'[t].pc = IF t = g THEN "watching" ELSE thread[t].pc
  BY <1>1 DEF RegistryTypeOK
<1>4. inbox' \in Seq(Message) /\ Said' = Said \cup {m} BY SentSaid DEF StartWatching
<1>5. s \in Watchable BY <1>2 DEF ThreadTyped
<1>6. g <= generations BY <1>1 DEF ThreadsFit, RegistryTypeOK, Generation
<1>7. /\ blind' \in [Watchable -> BOOLEAN]
      /\ \A q \in Watchable : blind'[q] => blind[q] /\ ~(q = s /\ OfCurrentSignature(g) /\ ~thread[g].stop)
  BY <1>5 DEF StartWatching, RegistryTypeOK
<1>8. \A q \in Watchable : \A h \in registered[q] : h.gen \in Generation BY DEF RegistryTypeOK
<1>9. \A x \in Said : x.gen \in Generation BY SaidTyped DEF Message
<1>10. RegistryTypeOK' BY <1>1, <1>3, <1>4, <1>7 DEF RegistryTypeOK
<1>11. \A kinds, t : Heard(kinds, t) => Heard(kinds, t)' BY <1>4 DEF Heard
<1>12. ListedOnce' /\ OneHandle' /\ HandlesFit' BY <1>1, <1>3, <1>8 DEF ListedOnce, OneHandle, HandlesFit
<1>13. ThreadsFit' BY <1>1, <1>3, <1>6 DEF ThreadsFit
<1>14. MessagesFit' BY <1>1, <1>3, <1>4, <1>6, <1>9 DEF MessagesFit
<1>15. RunnersRegistered' BY <1>1, <1>3 DEF RunnersRegistered, IsCurrent
<1>16. HandlesRun' BY <1>1, <1>3, <1>8, <1>11 DEF HandlesRun
<1>17. NothingMissed' BY <1>1, <1>7 DEF NothingMissed
<1>18. BlindKnown'
  <2>1. SUFFICES ASSUME NEW q \in Watchable, blind'[q]
                 PROVE  /\ Retries(q)' \/ \E h \in registered[q] : Heard({"failed"}, h.gen)'
                        /\ \A h \in registered[q] : thread'[h.gen].pc # "watching"
    BY <1>1 DEF BlindKnown
  <2>2. blind[q] BY <1>7, <2>1
  <2>3. Retries(q)' <=> Retries(q) BY <1>1 DEF Retries
  <2>4. Retries(q)' \/ \E h \in registered[q] : Heard({"failed"}, h.gen)'
    BY <1>11, <2>2, <2>3 DEF BlindKnown
  <2>5. ASSUME NEW h \in registered[q] PROVE thread'[h.gen].pc # "watching"
    <3>1. h.gen # g
      <4>1. SUFFICES ASSUME h.gen = g PROVE FALSE OBVIOUS
      <4>2. q = s /\ thread[g].sig = h.sig /\ ~thread[g].stop BY <4>1 DEF HandlesFit
      <4>3. {h.sig} = listed[q] BY <2>2 DEF NothingMissed
      <4> QED BY <1>7, <2>1, <4>2, <4>3 DEF OfCurrentSignature
    <3> QED BY <1>3, <1>8, <2>2, <3>1 DEF BlindKnown
  <2> QED BY <2>4, <2>5
<1>19. GapKept' BY <1>1, <1>3, <1>4, <1>8, <1>11 DEF GapKept, Retries
<1> QED BY <1>10, <1>12, <1>13, <1>14, <1>15, <1>16, <1>17, <1>18, <1>19

\* A watcher fails: so far that is a message.
LEMMA FailKeeps == ASSUME RegistryIInv, NEW g \in Generation, WatcherFails(g) PROVE RegistryIInv'
<1> USE DEF RegistryIInv
<1> DEFINE s == thread[g].src
           m == [kind |-> "failed", gen |-> g]
<1>1. /\ UNCHANGED <<listed, registered, retrying, recovering, generations, edits, unseen>>
      /\ thread[g].pc \in {"starting", "watching"}
      /\ thread' = [thread EXCEPT ![g].pc = "gone", ![g].unread = FALSE]
      /\ failures' \in 0 .. MaxFailures
  BY RegistryBounds DEF WatcherFails, registry, RegistryTypeOK
<1>2. \A t \in Generation : ThreadTyped(thread[t]) BY DEF RegistryTypeOK, ThreadTyped
<1>3. /\ thread' \in [Generation -> [src : Watchable, sig : Signature,
             pc : {"none", "starting", "watching", "gone"}, stop : BOOLEAN, unread : BOOLEAN]]
      /\ \A t \in Generation :
            /\ thread'[t].src = thread[t].src /\ thread'[t].sig = thread[t].sig
            /\ thread'[t].stop = thread[t].stop
            /\ t # g => thread'[t].unread = thread[t].unread /\ thread'[t].pc = thread[t].pc
      /\ thread'[g].pc = "gone"
  BY <1>1 DEF RegistryTypeOK
<1>4. inbox' \in Seq(Message) /\ Said' = Said \cup {m} BY SentSaid DEF WatcherFails
<1>5. s \in Watchable BY <1>2 DEF ThreadTyped
<1>6. g <= generations BY <1>1 DEF ThreadsFit, RegistryTypeOK, Generation
<1>7. /\ blind' \in [Watchable -> BOOLEAN]
      /\ \A q \in Watchable : blind'[q] => blind[q] \/ (q = s /\ OfCurrentSignature(g) /\ ~thread[g].stop)
  BY <1>5 DEF WatcherFails, RegistryTypeOK
<1>8. \A q \in Watchable : \A h \in registered[q] : h.gen \in Generation BY DEF RegistryTypeOK
<1>9. \A x \in Said : x.gen \in Generation BY SaidTyped DEF Message
<1>10. RegistryTypeOK' BY <1>1, <1>3, <1>4, <1>7 DEF RegistryTypeOK
<1>11. /\ \A kinds, t : Heard(kinds, t) => Heard(kinds, t)'
       /\ \A kinds : "failed" \in kinds => Heard(kinds, g)'
  <2>1. m \in Said' /\ m.kind = "failed" /\ m.gen = g BY <1>4
  <2> HIDE DEF m
  <2> QED BY <1>4, <2>1 DEF Heard
\* Who fails while it counts is the registered watcher of its source.
<1>12. OfCurrentSignature(g) /\ ~thread[g].stop =>
          \E h \in registered[s] : h.gen = g /\ {h.sig} = listed[s]
  BY <1>1, <1>5 DEF RunnersRegistered, IsCurrent, OfCurrentSignature, HandlesFit
<1>13. ListedOnce' /\ OneHandle' /\ HandlesFit' BY <1>1, <1>3, <1>8 DEF ListedOnce, OneHandle, HandlesFit
<1>14. ThreadsFit' BY <1>1, <1>3, <1>6 DEF ThreadsFit
<1>15. MessagesFit' BY <1>1, <1>3, <1>4, <1>6, <1>9 DEF MessagesFit
<1>16. RunnersRegistered' BY <1>1, <1>3 DEF RunnersRegistered, IsCurrent
<1>17. HandlesRun' BY <1>1, <1>3, <1>8, <1>11 DEF HandlesRun
<1>18. NothingMissed' BY <1>1, <1>7, <1>12 DEF NothingMissed, OneHandle
<1>19. BlindKnown'
  <2>1. SUFFICES ASSUME NEW q \in Watchable, blind'[q]
                 PROVE  /\ Retries(q)' \/ \E h \in registered[q] : Heard({"failed"}, h.gen)'
                        /\ \A h \in registered[q] : thread'[h.gen].pc # "watching"
    BY <1>1 DEF BlindKnown
  <2>2. CASE blind[q]
    <3>1. Retries(q)' <=> Retries(q) BY <1>1 DEF Retries
    <3> QED BY <1>3, <1>8, <1>11, <2>2, <3>1 DEF BlindKnown
  <2>3. CASE q = s /\ OfCurrentSignature(g) /\ ~thread[g].stop
    <3>1. PICK h \in registered[q] : h.gen = g BY <1>12, <2>3
    <3>2. \A k \in registered[q] : k.gen = g BY <3>1 DEF OneHandle
    <3> QED BY <1>3, <1>11, <3>1, <3>2
  <2> QED BY <1>7, <2>1, <2>2, <2>3
<1>20. GapKept'
  <2>1. SUFFICES ASSUME NEW q \in Watchable, unseen[q]
                 PROVE  \/ Retries(q)' \/ recovering[q] # {}
                        \/ \E h \in registered[q] : thread'[h.gen].unread \/ Heard({"changed", "failed"}, h.gen)'
                        \/ \E x \in Said' : x.kind = "overflow"
    BY <1>1 DEF GapKept
  <2>2. CASE Retries(q) BY <1>1, <2>2 DEF Retries
  <2>3. CASE recovering[q] # {} \/ \E x \in Said : x.kind = "overflow" BY <1>4, <2>3
  <2>4. ASSUME NEW h \in registered[q], thread[h.gen].unread \/ Heard({"changed", "failed"}, h.gen)
        PROVE  thread'[h.gen].unread \/ Heard({"changed", "failed"}, h.gen)'
    BY <1>3, <1>8, <1>11, <2>4
  <2> QED BY <2>1, <2>2, <2>3, <2>4 DEF GapKept
<1> QED BY <1>10, <1>13, <1>14, <1>15, <1>16, <1>17, <1>18, <1>19, <1>20
\* Events are read, or a watcher that was told to stop does.
LEMMA ThreadKeeps ==
    ASSUME RegistryIInv, NEW g \in Generation, ReadEvents(g) \/ StopWatching(g)
    PROVE  RegistryIInv'
<1> USE DEF RegistryIInv
<1>1. UNCHANGED <<listed, registered, retrying, recovering, generations, edits, failures, blind, unseen>>
  BY DEF ReadEvents, StopWatching, registry
<1>2. /\ thread' \in [Generation -> [src : Watchable, sig : Signature,
             pc : {"none", "starting", "watching", "gone"}, stop : BOOLEAN, unread : BOOLEAN]]
      /\ \A t \in Generation :
            /\ thread'[t].src = thread[t].src /\ thread'[t].sig = thread[t].sig
            /\ thread'[t].stop = thread[t].stop
            /\ t # g => thread'[t].unread = thread[t].unread /\ thread'[t].pc = thread[t].pc
      /\ thread[g].pc = "watching"
      /\ thread'[g].pc = "watching" \/ (thread'[g].pc = "gone" /\ thread[g].stop)
  <2>1. CASE ReadEvents(g) BY <2>1 DEF ReadEvents, RegistryTypeOK
  <2>2. CASE StopWatching(g) BY <2>2 DEF StopWatching, RegistryTypeOK
  <2> QED BY <2>1, <2>2
<1>3. \E extra \in SUBSET Message :
         /\ inbox' \in Seq(Message) /\ Said' = Said \cup extra
         /\ \A m \in extra : m.kind \in {"changed", "overflow"} /\ m.gen = g
         /\ ~thread[g].stop => extra # {}
  <2>1. CASE StopWatching(g)
    <3>1. inbox' = inbox /\ thread[g].stop BY <2>1 DEF StopWatching
    <3>2. Said' = Said \cup {} BY <3>1 DEF Said
    <3> WITNESS {} \in SUBSET Message
    <3> QED BY <3>1, <3>2 DEF RegistryTypeOK
  <2>2. ASSUME NEW kind \in {"changed", "overflow"}, Sent(kind, g) PROVE <1>3!:
    <3>1. inbox' \in Seq(Message) /\ Said' = Said \cup {[kind |-> kind, gen |-> g]} BY <2>2, SentSaid
    <3>2. {[kind |-> kind, gen |-> g]} \in SUBSET Message BY DEF Message
    <3> WITNESS {[kind |-> kind, gen |-> g]} \in SUBSET Message
    <3> QED BY <3>1
  <2> QED BY <2>1, <2>2 DEF ReadEvents
<1>4. PICK extra \in SUBSET Message :
         /\ inbox' \in Seq(Message) /\ Said' = Said \cup extra
         /\ \A m \in extra : m.kind \in {"changed", "overflow"} /\ m.gen = g
         /\ ~thread[g].stop => extra # {}
  BY <1>3
<1>5. g <= generations BY <1>2 DEF ThreadsFit, RegistryTypeOK, Generation
<1>6. \A q \in Watchable : \A h \in registered[q] : h.gen \in Generation BY DEF RegistryTypeOK
<1>7. \A x \in Said : x.gen \in Generation BY SaidTyped DEF Message
<1>8. RegistryTypeOK' BY <1>1, <1>2, <1>4 DEF RegistryTypeOK
<1>9. \A kinds, t : Heard(kinds, t) => Heard(kinds, t)' BY <1>4 DEF Heard
<1>10. ListedOnce' /\ OneHandle' /\ HandlesFit' BY <1>1, <1>2, <1>6 DEF ListedOnce, OneHandle, HandlesFit
<1>11. ThreadsFit' BY <1>1, <1>2, <1>5 DEF ThreadsFit
<1>12. MessagesFit'
  <2>1. SUFFICES ASSUME NEW m \in Said'
                 PROVE  /\ m.gen <= generations
                        /\ m.kind = "failed" => thread'[m.gen].pc = "gone"
                        /\ m.kind = "ready" => thread'[m.gen].pc \in {"watching", "gone"}
    BY <1>1 DEF MessagesFit
  <2>2. CASE m \in extra BY <1>4, <1>5, <2>2
  <2>3. CASE m \in Said BY <1>2, <1>7, <2>3 DEF MessagesFit
  <2> QED BY <1>4, <2>2, <2>3
<1>13. RunnersRegistered' BY <1>1, <1>2 DEF RunnersRegistered, IsCurrent
\* A handle's thread is not the one that stops.
<1>14. \A q \in Watchable : \A h \in registered[q] : thread'[h.gen].pc = thread[h.gen].pc
  BY <1>2, <1>6 DEF HandlesFit
<1>15. HandlesRun' BY <1>1, <1>9, <1>14 DEF HandlesRun
<1>16. NothingMissed' BY <1>1 DEF NothingMissed
<1>17. BlindKnown' BY <1>1, <1>9, <1>14 DEF BlindKnown, Retries
<1>18. GapKept'
  <2>1. SUFFICES ASSUME NEW q \in Watchable, unseen[q]
                 PROVE  \/ Retries(q)' \/ recovering[q] # {}
                        \/ \E h \in registered[q] : thread'[h.gen].unread \/ Heard({"changed", "failed"}, h.gen)'
                        \/ \E x \in Said' : x.kind = "overflow"
    BY <1>1 DEF GapKept
  <2>2. CASE Retries(q) BY <1>1, <2>2 DEF Retries
  <2>3. CASE recovering[q] # {} \/ \E x \in Said : x.kind = "overflow" BY <1>4, <2>3
  <2>4. ASSUME NEW h \in registered[q], thread[h.gen].unread \/ Heard({"changed", "failed"}, h.gen)
        PROVE  \/ thread'[h.gen].unread \/ Heard({"changed", "failed"}, h.gen)'
               \/ \E x \in Said' : x.kind = "overflow"
    <3>1. CASE h.gen = g
      <4>1. PICK m \in extra : m.kind \in {"changed", "overflow"} /\ m.gen = g
        BY <1>4, <3>1 DEF HandlesFit
      <4> QED BY <1>4, <3>1, <4>1 DEF Heard
    <3>2. CASE h.gen # g BY <1>2, <1>6, <1>9, <2>4, <3>2
    <3> QED BY <3>1, <3>2
  <2> QED BY <2>1, <2>2, <2>3, <2>4 DEF GapKept
<1> QED BY <1>8, <1>10, <1>11, <1>12, <1>13, <1>15, <1>16, <1>17, <1>18

\* A delay passes.
LEMMA ElapseKeeps == ASSUME RegistryIInv, NEW s \in Watchable, Elapse(s) PROVE RegistryIInv'
<1> USE DEF RegistryIInv
<1>1. UNCHANGED <<listed, registered, generations, thread, inbox, edits, failures, blind, unseen>>
  BY DEF Elapse
<1>2. /\ retrying' \in [Watchable -> SUBSET [sig : Signature, due : BOOLEAN]]
      /\ \A q \in Watchable : \A r \in retrying[q] : \E k \in retrying'[q] : k.sig = r.sig
  <2>1. CASE UNCHANGED retrying BY <2>1 DEF RegistryTypeOK
  <2>2. CASE retrying' = [retrying EXCEPT ![s] = {[r EXCEPT !.due = TRUE] : r \in @}]
    <3>1. \A r \in retrying[s] : [r EXCEPT !.due = TRUE] \in [sig : Signature, due : BOOLEAN]
                                 /\ [r EXCEPT !.due = TRUE].sig = r.sig
      <4>1. \A r \in retrying[s] : r \in [sig : Signature, due : BOOLEAN] BY DEF RegistryTypeOK
      <4> QED BY <4>1
    <3>2. \A q \in Watchable : retrying'[q] = IF q = s THEN {[r EXCEPT !.due = TRUE] : r \in retrying[s]}
                                              ELSE retrying[q]
      BY <2>2 DEF RegistryTypeOK
    <3>3. retrying' \in [Watchable -> SUBSET [sig : Signature, due : BOOLEAN]]
      BY <2>2, <3>1 DEF RegistryTypeOK
    <3> QED BY <3>1, <3>2, <3>3
  <2> QED BY <2>1, <2>2 DEF Elapse
<1>3. /\ recovering' \in [Watchable -> SUBSET BOOLEAN]
      /\ \A q \in Watchable : recovering[q] # {} => recovering'[q] # {}
  <2>1. recovering' = recovering \/ recovering' = [recovering EXCEPT ![s] = {TRUE}] BY DEF Elapse
  <2>2. recovering \in [Watchable -> SUBSET BOOLEAN] BY DEF RegistryTypeOK
  <2> QED BY <2>1, <2>2
<1>4. Said' = Said /\ \A kinds, t : Heard(kinds, t)' <=> Heard(kinds, t) BY <1>1 DEF Said, Heard
<1>5. RegistryTypeOK' BY <1>1, <1>2, <1>3 DEF RegistryTypeOK
<1>6. ListedOnce' /\ OneHandle' /\ HandlesFit' /\ ThreadsFit' /\ MessagesFit' /\ NothingMissed'
  BY <1>1, <1>4 DEF ListedOnce, OneHandle, HandlesFit, ThreadsFit, MessagesFit, NothingMissed
<1>7. RunnersRegistered' /\ HandlesRun' BY <1>1, <1>4 DEF RunnersRegistered, HandlesRun, IsCurrent
<1>8. \A q \in Watchable : Retries(q) => Retries(q)' BY <1>1, <1>2 DEF Retries
<1>9. BlindKnown' BY <1>1, <1>4, <1>8 DEF BlindKnown
<1>10. GapKept' BY <1>1, <1>3, <1>4, <1>8 DEF GapKept
<1> QED BY <1>5, <1>6, <1>7, <1>9, <1>10
\* A recovery is stored, or is to be tried again.
LEMMA RecoverStores ==
    ASSUME RegistryTypeOK, NEW s \in Watchable, Recover(s)
    PROVE  /\ recovering' \in [Watchable -> SUBSET BOOLEAN] /\ unseen' \in [Watchable -> BOOLEAN]
           /\ failures' \in 0 .. MaxFailures
           /\ \A q \in Watchable \ {s} : recovering'[q] = recovering[q] /\ unseen'[q] = unseen[q]
           /\ unseen'[s] => recovering'[s] # {}
           /\ unseen'[s] => unseen[s]
<1>1. /\ recovering \in [Watchable -> SUBSET BOOLEAN] /\ unseen \in [Watchable -> BOOLEAN]
      /\ failures \in 0 .. MaxFailures
  BY DEF RegistryTypeOK
<1>2. CASE recovering' = [recovering EXCEPT ![s] = {}] /\ unseen' = [unseen EXCEPT ![s] = FALSE]
           /\ UNCHANGED failures
  BY <1>1, <1>2
<1>3. CASE recovering' = [recovering EXCEPT ![s] = {FALSE}] /\ UNCHANGED unseen
           /\ failures < MaxFailures /\ failures' = failures + 1
  <2>1. failures' \in 0 .. MaxFailures BY <1>1, <1>3, RegistryBounds
  <2> QED BY <1>1, <1>3, <2>1
<1> QED BY <1>2, <1>3 DEF Recover

LEMMA FlushKeeps == ASSUME RegistryIInv, NEW s \in Watchable, Flush(s) PROVE RegistryIInv'
<1> USE DEF RegistryIInv
<1>1. UNCHANGED <<listed, registered, retrying, generations, thread, inbox, edits, blind>> /\ Recover(s)
  BY DEF Flush
<1>2. Said' = Said /\ \A kinds, t : Heard(kinds, t)' <=> Heard(kinds, t) BY <1>1 DEF Said, Heard
<1>3. RegistryTypeOK' BY <1>1, RecoverStores DEF RegistryTypeOK
<1>4. ListedOnce' /\ OneHandle' /\ HandlesFit' /\ ThreadsFit' /\ MessagesFit'
  BY <1>1, <1>2 DEF ListedOnce, OneHandle, HandlesFit, ThreadsFit, MessagesFit
<1>5. RunnersRegistered' /\ HandlesRun' BY <1>1, <1>2 DEF RunnersRegistered, HandlesRun, IsCurrent
<1>6. \A q \in Watchable : Retries(q) => Retries(q)' BY <1>1 DEF Retries
<1>7. BlindKnown' BY <1>1, <1>2, <1>6 DEF BlindKnown
<1>8. NothingMissed' BY <1>1, RecoverStores DEF NothingMissed
<1>9. GapKept'
  <2>1. SUFFICES ASSUME NEW q \in Watchable, unseen'[q]
                 PROVE  \/ Retries(q)' \/ recovering'[q] # {}
                        \/ \E h \in registered[q] : thread[h.gen].unread \/ Heard({"changed", "failed"}, h.gen)
                        \/ \E x \in Said : x.kind = "overflow"
    BY <1>1, <1>2 DEF GapKept
  <2>2. CASE q = s BY <1>1, <2>1, <2>2, RecoverStores
  <2>3. CASE q # s
    <3>1. unseen[q] /\ recovering'[q] = recovering[q] BY <1>1, <2>1, <2>3, RecoverStores
    <3> QED BY <1>6, <3>1 DEF GapKept
  <2> QED BY <2>2, <2>3
<1> QED BY <1>3, <1>4, <1>5, <1>7, <1>8, <1>9

\* A message is handled: what each kind has to see to.
LEMMA ReceiveKeeps == ASSUME RegistryIInv, Receive PROVE RegistryIInv'
<1> USE DEF RegistryIInv
<1> DEFINE m == Head(inbox)
           g == m.gen
           s == thread[g].src
<1>1. UNCHANGED <<listed, thread, edits, blind>> /\ inbox # <<>> /\ inbox' = Tail(inbox) BY DEF Receive
<1>2. /\ inbox' \in Seq(Message) /\ m \in Said /\ Said' \subseteq Said /\ Said \subseteq Said' \cup {m}
  BY <1>1, TakenSaid
<1>3. m \in Message BY <1>2, SaidTyped
<1>4. g \in Generation /\ thread[g] \in [src : Watchable, sig : Signature,
             pc : {"none", "starting", "watching", "gone"}, stop : BOOLEAN, unread : BOOLEAN]
  BY <1>3 DEF RegistryTypeOK, Message
<1>5. s \in Watchable BY <1>4
<1>6. \/ m.kind = "ready" /\ Ready(g)
      \/ m.kind = "changed" /\ SourceChanged(g)
      \/ m.kind = "failed" /\ Failed(g)
      \/ m.kind = "overflow" /\ Overflow
  BY DEF Receive
<1> HIDE DEF m
<1>7. \A q \in Watchable : \A h \in registered[q] : h.gen = g => q = s BY DEF HandlesFit
<1>8. IsCurrent(g) <=> \E h \in registered[s] : h.gen = g BY DEF IsCurrent
\* Whatever is said of another watcher, and of other kinds, is still to be heard.
<1>9. \A kinds, t : Heard(kinds, t) /\ (t # g \/ m.kind \notin kinds) => Heard(kinds, t)'
  BY <1>2 DEF Heard
<1>10. (\E x \in Said : x.kind = "overflow") /\ m.kind # "overflow" => \E x \in Said' : x.kind = "overflow"
  BY <1>2
<1>11. ListedOnce' BY <1>1 DEF ListedOnce
<1>12. generations' = generations
  BY <1>6 DEF Ready, SourceChanged, Failed, Overflow, registry
<1>13. ThreadsFit' /\ MessagesFit' BY <1>1, <1>2, <1>12 DEF ThreadsFit, MessagesFit
<1>14. CASE UNCHANGED <<registered, retrying, recovering>> /\ m.kind # "failed" /\ failures' = failures
            /\ unseen' \in [Watchable -> BOOLEAN]
            /\ \A q \in Watchable : unseen'[q] =>
                  unseen[q] /\ m.kind # "overflow" /\ ~(q = s /\ IsCurrent(g) /\ m.kind = "changed")
  <2>1. RegistryTypeOK' BY <1>1, <1>2, <1>12, <1>14 DEF RegistryTypeOK
  <2>2. OneHandle' /\ HandlesFit' BY <1>1, <1>12, <1>14 DEF OneHandle, HandlesFit
  <2>3. RunnersRegistered' BY <1>1, <1>14 DEF RunnersRegistered, IsCurrent
  <2>4. \A t : Heard({"failed"}, t) => Heard({"failed"}, t)' BY <1>9, <1>14
  <2>5. HandlesRun' BY <1>1, <1>14, <2>4 DEF HandlesRun
  <2>6. NothingMissed' BY <1>1, <1>14 DEF NothingMissed
  <2>7. \A q \in Watchable : Retries(q) => Retries(q)' BY <1>1, <1>14 DEF Retries
  <2>8. BlindKnown' BY <1>1, <1>14, <2>4, <2>7 DEF BlindKnown
  <2>9. GapKept'
    <3>1. SUFFICES ASSUME NEW q \in Watchable, unseen'[q]
                   PROVE  \/ Retries(q)' \/ recovering[q] # {}
                          \/ \E h \in registered[q] : thread[h.gen].unread \/ Heard({"changed", "failed"}, h.gen)'
                          \/ \E x \in Said' : x.kind = "overflow"
      BY <1>1, <1>14 DEF GapKept
    <3>2. unseen[q] /\ m.kind # "overflow" /\ ~(q = s /\ IsCurrent(g) /\ m.kind = "changed") BY <1>14, <3>1
    <3>3. ASSUME NEW h \in registered[q], Heard({"changed", "failed"}, h.gen)
          PROVE  Heard({"changed", "failed"}, h.gen)'
      <4>1. CASE h.gen # g BY <1>9, <3>3, <4>1
      <4>2. CASE h.gen = g
        <5>1. m.kind \notin {"changed", "failed"} BY <1>7, <1>8, <1>14, <3>2, <4>2
        <5> QED BY <1>9, <3>3, <5>1
      <4> QED BY <4>1, <4>2
    <3> QED BY <1>10, <2>7, <3>2, <3>3 DEF GapKept
  <2> QED BY <1>11, <1>13, <2>1, <2>2, <2>3, <2>5, <2>6, <2>8, <2>9
\* The watcher that follows a failure is ready.
<1>15. CASE /\ m.kind = "ready" /\ IsCurrent(g)
            /\ retrying' = [retrying EXCEPT ![s] = {}] /\ Recover(s) /\ registered' = registered
  <2>1. RegistryTypeOK' BY <1>1, <1>2, <1>5, <1>12, <1>15, RecoverStores DEF RegistryTypeOK
  <2>2. OneHandle' /\ HandlesFit' BY <1>1, <1>12, <1>15 DEF OneHandle, HandlesFit
  <2>3. RunnersRegistered' BY <1>1, <1>15 DEF RunnersRegistered, IsCurrent
  <2>4. \A t : Heard({"failed"}, t) => Heard({"failed"}, t)' BY <1>9, <1>15
  <2>5. HandlesRun' BY <1>1, <1>15, <2>4 DEF HandlesRun
  <2>6. NothingMissed' BY <1>1, <1>5, <1>15, RecoverStores DEF NothingMissed
  <2>7. \A q \in Watchable \ {s} : Retries(q) => Retries(q)' BY <1>1, <1>15 DEF Retries, RegistryTypeOK
  \* It watches, and its source is not blind, or it has failed and said so.
  <2>8. BlindKnown'
    <3>1. SUFFICES ASSUME NEW q \in Watchable, blind[q]
                   PROVE  Retries(q)' \/ \E h \in registered[q] : Heard({"failed"}, h.gen)'
      BY <1>1, <1>15 DEF BlindKnown
    <3>2. CASE q # s BY <2>4, <2>7, <3>1, <3>2 DEF BlindKnown
    <3>3. CASE q = s
      <4>1. PICK h \in registered[s] : h.gen = g BY <1>8, <1>15
      <4>2. thread[g].pc \in {"watching", "gone"} BY <1>2, <1>15 DEF MessagesFit
      <4>3. thread[g].pc = "gone" BY <3>1, <3>3, <4>1, <4>2 DEF BlindKnown
      <4>4. Heard({"failed"}, g) BY <1>5, <4>1, <4>3 DEF HandlesRun
      <4> QED BY <2>4, <3>3, <4>1, <4>4
    <3> QED BY <3>2, <3>3
  <2>9. GapKept'
    <3>1. SUFFICES ASSUME NEW q \in Watchable, unseen'[q]
                   PROVE  \/ Retries(q)' \/ recovering'[q] # {}
                          \/ \E h \in registered[q] : thread[h.gen].unread \/ Heard({"changed", "failed"}, h.gen)'
                          \/ \E x \in Said' : x.kind = "overflow"
      BY <1>1, <1>15 DEF GapKept
    <3>2. CASE q = s BY <1>5, <1>15, <3>1, <3>2, RecoverStores
    <3>3. CASE q # s
      <4>1. unseen[q] /\ recovering'[q] = recovering[q] BY <1>5, <1>15, <3>1, <3>3, RecoverStores
      <4>2. \A t : Heard({"changed", "failed"}, t) => Heard({"changed", "failed"}, t)' BY <1>9, <1>15
      <4> QED BY <1>10, <1>15, <2>7, <3>3, <4>1, <4>2 DEF GapKept
    <3> QED BY <3>2, <3>3
  <2> QED BY <1>11, <1>13, <2>1, <2>2, <2>3, <2>5, <2>6, <2>8, <2>9
\* The watcher of a source has failed. Its source is taken from it, and tried again.
<1>16. CASE m.kind = "failed" /\ IsCurrent(g) /\ Failed(g)
  <2>1. PICK h \in registered[s] : h.gen = g BY <1>8, <1>16
  <2>2. {k \in registered[s] : k.gen = g} = {h} BY <1>5, <2>1 DEF OneHandle
  <2>3. h \in [sig : Signature, gen : Generation] BY <1>5, <2>1 DEF RegistryTypeOK
  <2>4. /\ registered' = [registered EXCEPT ![s] = {}] /\ recovering' = [recovering EXCEPT ![s] = {}]
        /\ retrying' = [retrying EXCEPT ![s] = {[sig |-> h.sig, due |-> FALSE]}]
        /\ failures' = failures
    BY <1>16, <2>2 DEF Failed, Counts
  <2>5. \/ unseen' = [unseen EXCEPT ![s] = FALSE]
        \/ unseen' = unseen
    BY <1>16 DEF Failed, Counts
  <2>6. /\ registered'[s] = {} /\ \A q \in Watchable \ {s} : registered'[q] = registered[q]
        /\ \A q \in Watchable \ {s} : recovering'[q] = recovering[q] /\ retrying'[q] = retrying[q]
        /\ retrying'[s] = {[sig |-> h.sig, due |-> FALSE]}
        /\ \A q \in Watchable : unseen'[q] => unseen[q]
    BY <1>5, <2>4, <2>5 DEF RegistryTypeOK
  <2>7. RegistryTypeOK'
    <3>1. {[sig |-> h.sig, due |-> FALSE]} \in SUBSET [sig : Signature, due : BOOLEAN] BY <2>3
    <3>2. retrying' \in [Watchable -> SUBSET [sig : Signature, due : BOOLEAN]]
      BY <1>5, <2>4, <3>1 DEF RegistryTypeOK
    <3>3. unseen' \in [Watchable -> BOOLEAN] BY <2>5 DEF RegistryTypeOK
    <3> QED BY <1>1, <1>2, <1>12, <2>4, <3>2, <3>3 DEF RegistryTypeOK
  <2>8. OneHandle' /\ HandlesFit' BY <1>1, <1>12, <2>6 DEF OneHandle, HandlesFit
  <2>9. RunnersRegistered'
    <3>1. SUFFICES ASSUME NEW t \in Generation, thread[t].pc \in {"starting", "watching"}, ~thread[t].stop
                   PROVE  IsCurrent(t)'
      BY <1>1 DEF RunnersRegistered
    <3>2. PICK k \in registered[thread[t].src] : k.gen = t BY <3>1 DEF RunnersRegistered, IsCurrent
    <3>3. t # g BY <1>2, <1>16, <3>1 DEF MessagesFit
    <3>4. thread[t].src # s BY <1>5, <2>1, <3>2, <3>3 DEF OneHandle
    <3>5. thread[t].src \in Watchable BY DEF RegistryTypeOK
    <3> QED BY <1>1, <2>6, <3>2, <3>4, <3>5 DEF IsCurrent
  <2>10. \A t : t # g /\ Heard({"failed"}, t) => Heard({"failed"}, t)' BY <1>9
  <2>11. HandlesRun' BY <1>1, <1>7, <2>6, <2>10 DEF HandlesRun
  <2>12. NothingMissed' BY <1>1, <1>5, <2>6 DEF NothingMissed
  <2>13. \A q \in Watchable \ {s} : Retries(q) => Retries(q)' BY <1>1, <2>6 DEF Retries
  <2>14. \A q \in Watchable : q = s /\ (blind[q] \/ unseen[q]) => Retries(q)'
    <3>1. SUFFICES ASSUME NEW q \in Watchable, q = s, blind[q] \/ unseen[q] PROVE Retries(q)' OBVIOUS
    <3>2. {h.sig} = listed'[q] BY <1>1, <2>1, <3>1 DEF NothingMissed
    <3>3. [sig |-> h.sig, due |-> FALSE] \in retrying'[q] BY <2>6, <3>1
    <3> QED BY <3>2, <3>3 DEF Retries
  <2>15. BlindKnown'
    <3>1. SUFFICES ASSUME NEW q \in Watchable, blind[q]
                   PROVE  /\ Retries(q)' \/ \E k \in registered'[q] : Heard({"failed"}, k.gen)'
                          /\ \A k \in registered'[q] : thread[k.gen].pc # "watching"
      BY <1>1 DEF BlindKnown
    <3>2. CASE q = s BY <2>6, <2>14, <3>1, <3>2
    <3>3. CASE q # s BY <1>7, <2>6, <2>10, <2>13, <3>1, <3>3 DEF BlindKnown
    <3> QED BY <3>2, <3>3
  <2>16. GapKept'
    <3>1. SUFFICES ASSUME NEW q \in Watchable, unseen'[q]
                   PROVE  \/ Retries(q)' \/ recovering'[q] # {}
                          \/ \E k \in registered'[q] : thread[k.gen].unread \/ Heard({"changed", "failed"}, k.gen)'
                          \/ \E x \in Said' : x.kind = "overflow"
      BY <1>1 DEF GapKept
    <3>2. CASE q = s BY <2>6, <2>14, <3>1, <3>2
    <3>3. CASE q # s
      <4>1. \A k \in registered[q] : Heard({"changed", "failed"}, k.gen) => Heard({"changed", "failed"}, k.gen)'
        BY <1>7, <1>9, <3>3
      <4> QED BY <1>10, <1>16, <2>6, <2>13, <3>1, <3>3, <4>1 DEF GapKept
    <3> QED BY <3>2, <3>3
  <2> QED BY <1>11, <1>13, <2>7, <2>8, <2>9, <2>11, <2>12, <2>15, <2>16
<1>17. CASE m.kind = "ready" /\ Ready(g)
  <2>1. CASE IsCurrent(g) /\ retrying[s] # {} BY <1>15, <1>17, <2>1 DEF Ready, Counts
  <2>2. CASE ~(IsCurrent(g) /\ retrying[s] # {})
    <3>1. UNCHANGED <<registered, retrying, recovering, failures, unseen>>
      BY <1>17, <2>2 DEF Ready, Counts, registry
    <3> QED BY <1>14, <1>17, <3>1 DEF RegistryTypeOK
  <2> QED BY <2>1, <2>2
<1>18. CASE m.kind = "changed" /\ SourceChanged(g)
  <2>1. UNCHANGED <<registered, retrying, recovering, failures>> BY <1>18 DEF SourceChanged, registry
  <2>2. /\ unseen' \in [Watchable -> BOOLEAN]
        /\ \A q \in Watchable : unseen'[q] => unseen[q] /\ ~(q = s /\ IsCurrent(g))
    BY <1>5, <1>18 DEF SourceChanged, Counts, RegistryTypeOK
  <2> QED BY <1>14, <1>18, <2>1, <2>2
<1>19. CASE m.kind = "failed" /\ Failed(g) /\ ~IsCurrent(g)
  <2>1. UNCHANGED <<registered, retrying, recovering, generations, failures, unseen>>
    BY <1>19 DEF Failed, Counts, registry
  <2>2. \A q \in Watchable : \A h \in registered[q] : h.gen # g BY <1>7, <1>8, <1>19
  <2>3. RegistryTypeOK' BY <1>1, <1>2, <2>1 DEF RegistryTypeOK
  <2>4. OneHandle' /\ HandlesFit' /\ NothingMissed' BY <1>1, <2>1 DEF OneHandle, HandlesFit, NothingMissed
  <2>5. \A kinds : \A q \in Watchable : \A h \in registered[q] : Heard(kinds, h.gen) => Heard(kinds, h.gen)'
    BY <1>9, <2>2
  <2>6. RunnersRegistered' /\ HandlesRun' BY <1>1, <2>1, <2>5 DEF RunnersRegistered, HandlesRun, IsCurrent
  <2>7. BlindKnown' BY <1>1, <2>1, <2>5 DEF BlindKnown, Retries
  <2>8. GapKept' BY <1>1, <1>10, <1>19, <2>1, <2>5 DEF GapKept, Retries
  <2> QED BY <1>11, <1>13, <2>3, <2>4, <2>6, <2>7, <2>8
<1>20. CASE m.kind = "overflow" /\ Overflow
  <2>1. UNCHANGED <<registered, retrying, recovering, failures>> BY <1>20 DEF Overflow, registry
  <2>2. unseen' \in [Watchable -> BOOLEAN] /\ \A q \in Watchable : ~unseen'[q] BY <1>20 DEF Overflow
  <2> QED BY <1>14, <1>20, <2>1, <2>2
<1> QED BY <1>6, <1>16, <1>17, <1>18, <1>19, <1>20
\* The sources that a poll registers.
New == {s \in Watchable : Registers(s)}

\* reconcile: who is registered then, under which generation.
LEMMA CatalogRead ==
    ASSUME RegistryIInv, ReadCatalog
    PROVE  \E gen \in [New -> Generation] :
                 /\ generations' \in 0 .. MaxGeneration /\ generations' >= generations
                 /\ \A s \in New : gen[s] > generations /\ gen[s] <= generations'
                 /\ \A s, q \in New : gen[s] = gen[q] => s = q
                 /\ \A g \in Generation : g > generations /\ g <= generations' =>
                       \E s \in New : gen[s] = g
                 /\ registered' = [s \in Watchable |->
                       CASE s \in New -> {[sig |-> x, gen |-> gen[s]] : x \in listed[s]}
                         [] s \notin New /\ (Outdated(s) \/ listed[s] = {}) -> {}
                         [] OTHER -> registered[s]]
                 /\ thread' = [g \in Generation |->
                       IF g > generations /\ g <= generations'
                       THEN LET s == CHOOSE s \in New : gen[s] = g IN
                            [NoThread EXCEPT !.src = s, !.sig = CHOOSE x \in listed[s] : TRUE, !.pc = "starting"]
                       ELSE [thread[g] EXCEPT !.stop = Retired(g)]]
<1>1. IsFiniteSet(New) /\ Cardinality(New) \in Nat
  BY SourcesAssumption, FS_Subset, FS_CardinalityType DEF New
<1>2. generations \in 0 .. MaxGeneration BY DEF RegistryIInv, RegistryTypeOK
<1>3. generations' = generations + Cardinality(New) /\ generations' <= MaxGeneration
  BY DEF ReadCatalog, New
<1>4. generations' \in 0 .. MaxGeneration /\ generations' >= generations
  BY <1>1, <1>2, <1>3, RegistryBounds
<1>5. PICK gen \in Maps!Bijection(New, generations + 1 .. generations + Cardinality(New)) :
          /\ registered' = [s \in Watchable |->
                CASE s \in New -> {[sig |-> x, gen |-> gen[s]] : x \in listed[s]}
                  [] s \notin New /\ (Outdated(s) \/ listed[s] = {}) -> {}
                  [] OTHER -> registered[s]]
          /\ thread' = [g \in Generation |->
                IF g > generations /\ g <= generations'
                THEN LET s == CHOOSE s \in New : gen[s] = g IN
                     [NoThread EXCEPT !.src = s, !.sig = CHOOSE x \in listed[s] : TRUE, !.pc = "starting"]
                ELSE [thread[g] EXCEPT !.stop = Retired(g)]]
  BY DEF ReadCatalog, New
<1>6. /\ gen \in [New -> generations + 1 .. generations + Cardinality(New)]
      /\ \A s, q \in New : gen[s] = gen[q] => s = q
      /\ \A g \in generations + 1 .. generations + Cardinality(New) : \E s \in New : gen[s] = g
  BY <1>5 DEF Maps!Bijection, Maps!Injection, Maps!Surjection, Maps!IsInjective
<1>7. \A g : g \in generations + 1 .. generations + Cardinality(New) <=>
             g \in Generation /\ g > generations /\ g <= generations'
  BY <1>1, <1>2, <1>3, RegistryBounds DEF Generation
<1>8. gen \in [New -> Generation] BY <1>6, <1>7
<1>9. \A s \in New : gen[s] > generations /\ gen[s] <= generations' BY <1>6, <1>7
<1>10. \A g \in Generation : g > generations /\ g <= generations' => \E s \in New : gen[s] = g
  BY <1>6, <1>7, <1>8
<1> WITNESS gen \in [New -> Generation]
<1> QED BY <1>4, <1>5, <1>6, <1>9, <1>10

\* The threads that have been made, and those that go on.
LEMMA CatalogKept == ASSUME RegistryIInv, ReadCatalog PROVE RegistryIInv'
<1> USE DEF RegistryIInv
<1>1. PICK gen \in [New -> Generation] :
         /\ generations' \in 0 .. MaxGeneration /\ generations' >= generations
         /\ \A s \in New : gen[s] > generations /\ gen[s] <= generations'
         /\ \A s, q \in New : gen[s] = gen[q] => s = q
         /\ \A g \in Generation : g > generations /\ g <= generations' =>
               \E s \in New : gen[s] = g
         /\ registered' = [s \in Watchable |->
               CASE s \in New -> {[sig |-> x, gen |-> gen[s]] : x \in listed[s]}
                 [] s \notin New /\ (Outdated(s) \/ listed[s] = {}) -> {}
                 [] OTHER -> registered[s]]
         /\ thread' = [g \in Generation |->
               IF g > generations /\ g <= generations'
               THEN LET s == CHOOSE s \in New : gen[s] = g IN
                    [NoThread EXCEPT !.src = s, !.sig = CHOOSE x \in listed[s] : TRUE, !.pc = "starting"]
               ELSE [thread[g] EXCEPT !.stop = Retired(g)]]
  BY CatalogRead
<1>2. New \subseteq Watchable /\ \A s \in New : Outdated(s) BY DEF New, Registers
<1>4. /\ UNCHANGED <<listed, inbox, edits, failures, blind, unseen>>
      /\ retrying' = [s \in Watchable |-> IF Outdated(s) \/ listed[s] = {} THEN RetryOf(s) ELSE retrying[s]]
      /\ recovering' = [s \in Watchable |-> IF listed[s] = {} THEN {} ELSE recovering[s]]
  BY DEF ReadCatalog
\* A source that is listed is listed with one signature.
<1>5. \A s \in Watchable : listed[s] # {} =>
         \E x \in Signature : listed[s] = {x} /\ (CHOOSE y \in listed[s] : TRUE) = x
  BY DEF RegistryTypeOK, ListedOnce
<1>6. \A s \in New : \E x \in Signature :
         listed[s] = {x} /\ registered'[s] = {[sig |-> x, gen |-> gen[s]]}
  <2>1. SUFFICES ASSUME NEW s \in New PROVE \E x \in Signature :
                    listed[s] = {x} /\ registered'[s] = {[sig |-> x, gen |-> gen[s]]}
    OBVIOUS
  <2>2. s \in Watchable /\ listed[s] # {} BY <1>2 DEF Outdated
  <2>3. PICK x \in Signature : listed[s] = {x} BY <1>5, <2>2
  <2>4. registered'[s] = {[sig |-> y, gen |-> gen[s]] : y \in listed[s]} BY <1>1, <2>2
  <2> QED BY <2>3, <2>4
<1>7. \A s \in Watchable \ New : registered'[s] = IF Outdated(s) \/ listed[s] = {} THEN {} ELSE registered[s]
  BY <1>1
<1>8. \A g \in Generation : ThreadTyped(thread[g]) BY DEF RegistryTypeOK, ThreadTyped
\* The threads of the sources that are registered.
<1>9. ASSUME NEW g \in Generation, g > generations, g <= generations'
      PROVE  \E s \in New : /\ gen[s] = g /\ thread'[g].src = s /\ listed[s] = {thread'[g].sig}
                            /\ thread'[g].pc = "starting" /\ ~thread'[g].stop /\ ThreadTyped(thread'[g])
  <2>1. PICK s \in New : gen[s] = g BY <1>1, <1>9
  <2>2. (CHOOSE q \in New : gen[q] = g) = s BY <1>1, <2>1
  <2>3. s \in Watchable /\ listed[s] # {} BY <1>2 DEF Outdated
  <2>4. PICK x \in Signature : listed[s] = {x} /\ (CHOOSE y \in listed[s] : TRUE) = x BY <1>5, <2>3
  <2>5. thread'[g] = [NoThread EXCEPT !.src = s, !.sig = x, !.pc = "starting"]
    BY <1>1, <1>9, <2>2, <2>4
  <2>6. thread'[g] = [src |-> s, sig |-> x, pc |-> "starting", stop |-> FALSE, unread |-> FALSE]
    BY <2>5 DEF NoThread
  <2> QED BY <2>1, <2>3, <2>4, <2>6 DEF ThreadTyped
<1>10. ASSUME NEW g \in Generation, ~(g > generations /\ g <= generations')
       PROVE  /\ thread'[g].src = thread[g].src /\ thread'[g].sig = thread[g].sig
              /\ thread'[g].pc = thread[g].pc /\ thread'[g].unread = thread[g].unread
              /\ thread'[g].stop <=> Retired(g)
              /\ ThreadTyped(thread'[g])
  <2>1. thread'[g] = [thread[g] EXCEPT !.stop = Retired(g)] BY <1>1, <1>10
  <2>2. Retired(g) \in BOOLEAN BY <1>8 DEF Retired, ThreadTyped, IsCurrent, OfCurrentSignature
  <2> HIDE DEF RegistryIInv
  <2> QED BY <1>8, <2>1, <2>2 DEF ThreadTyped
\* The source of a watcher that stays registered is of its signature.
<1>11. ASSUME NEW s \in Watchable \ New, NEW h \in registered'[s]
       PROVE  /\ registered'[s] = registered[s] /\ {h.sig} = listed[s]
              /\ h.gen \in Generation /\ h.gen <= generations
              /\ ~(h.gen > generations /\ h.gen <= generations')
              /\ ~Retired(h.gen)
  <2>1. ~Outdated(s) /\ listed[s] # {} /\ registered'[s] = registered[s] BY <1>7, <1>11
  <2>2. {h.sig} = listed[s] BY <1>11, <2>1 DEF Outdated, OneHandle
  <2>3. h.gen \in Generation /\ h.gen <= generations /\ generations \in Nat
    BY <1>11, <2>1 DEF HandlesFit, RegistryTypeOK
  <2>4. ~Retired(h.gen) BY <1>11, <2>1, <2>2 DEF Retired, OfCurrentSignature, HandlesFit
  <2> QED BY <2>1, <2>2, <2>3, <2>4 DEF Generation
\* The watcher of a source that is registered anew.
<1>12. ASSUME NEW s \in New, NEW h \in registered'[s]
       PROVE  /\ {h.sig} = listed[s] /\ h.gen = gen[s]
              /\ h.gen \in Generation /\ h.gen > generations /\ h.gen <= generations'
              /\ thread'[h.gen].src = s /\ thread'[h.gen].sig = h.sig
              /\ thread'[h.gen].pc = "starting" /\ ~thread'[h.gen].stop
  <2>1. PICK x \in Signature : listed[s] = {x} /\ registered'[s] = {[sig |-> x, gen |-> gen[s]]} BY <1>6
  <2>2. h = [sig |-> x, gen |-> gen[s]] BY <1>12, <2>1
  <2>3. gen[s] \in Generation /\ gen[s] > generations /\ gen[s] <= generations' BY <1>1
  <2>4. PICK q \in New : /\ gen[q] = gen[s] /\ thread'[gen[s]].src = q
                         /\ listed[q] = {thread'[gen[s]].sig}
                         /\ thread'[gen[s]].pc = "starting" /\ ~thread'[gen[s]].stop
    BY <1>9, <2>3
  <2>5. q = s BY <1>1, <2>4
  <2> QED BY <2>1, <2>2, <2>3, <2>4, <2>5
<1>13. \A s \in Watchable : Retries(s)' <=> Retries(s)
  <2>1. SUFFICES ASSUME NEW s \in Watchable PROVE Retries(s)' <=> Retries(s) OBVIOUS
  <2>2. retrying'[s] = retrying[s] \/ retrying'[s] = {r \in retrying[s] : {r.sig} = listed[s]}
    BY <1>4 DEF RetryOf
  <2> QED BY <1>4, <2>2 DEF Retries
<1>14. Said' = Said /\ \A kinds, t : Heard(kinds, t)' <=> Heard(kinds, t) BY <1>4 DEF Said, Heard
<1>15. generations \in Nat /\ generations' \in Nat /\ generations' >= generations
  <2>1. generations' \in 0 .. MaxGeneration /\ generations' >= generations BY <1>1
  <2>2. generations \in 0 .. MaxGeneration BY DEF RegistryTypeOK
  <2> QED BY <2>1, <2>2
<1>16. RegistryTypeOK'
  <2>1. registered' \in [Watchable -> SUBSET [sig : Signature, gen : Generation]]
    <3>1. ASSUME NEW s \in Watchable PROVE registered'[s] \in SUBSET [sig : Signature, gen : Generation]
      <4>1. CASE s \in New
        <5>1. PICK x \in Signature : registered'[s] = {[sig |-> x, gen |-> gen[s]]} BY <1>6, <4>1
        <5>2. gen[s] \in Generation BY <1>1, <4>1
        <5> QED BY <5>1, <5>2
      <4>2. CASE s \notin New BY <1>7, <4>2 DEF RegistryTypeOK
      <4> QED BY <4>1, <4>2
    <3>2. registered' = [s \in Watchable |-> registered'[s]] BY <1>1
    <3> QED BY <3>1, <3>2
  <2>2. retrying' \in [Watchable -> SUBSET [sig : Signature, due : BOOLEAN]]
    BY <1>4 DEF RetryOf, RegistryTypeOK
  <2>3. recovering' \in [Watchable -> SUBSET BOOLEAN] BY <1>4 DEF RegistryTypeOK
  <2>4. thread' \in [Generation -> [src : Watchable, sig : Signature,
             pc : {"none", "starting", "watching", "gone"}, stop : BOOLEAN, unread : BOOLEAN]]
    <3>1. ASSUME NEW g \in Generation PROVE ThreadTyped(thread'[g])
      <4>1. CASE g > generations /\ g <= generations'
        <5>1. \E s \in New : ThreadTyped(thread'[g]) BY <1>9, <4>1
        <5> QED BY <5>1
      <4>2. CASE ~(g > generations /\ g <= generations') BY <1>10, <4>2
      <4> QED BY <4>1, <4>2
    <3> DEFINE Made(g) == IF g > generations /\ g <= generations'
                          THEN LET s == CHOOSE s \in New : gen[s] = g IN
                               [NoThread EXCEPT !.src = s, !.sig = CHOOSE x \in listed[s] : TRUE, !.pc = "starting"]
                          ELSE [thread[g] EXCEPT !.stop = Retired(g)]
    <3>2. thread' = [g \in Generation |-> Made(g)] BY <1>1
    <3> HIDE DEF Made
    <3>3. thread' = [g \in Generation |-> thread'[g]] BY <3>2
    <3> QED BY <3>1, <3>3 DEF ThreadTyped
  <2> QED BY <1>1, <1>4, <2>1, <2>2, <2>3, <2>4 DEF RegistryTypeOK
<1>17. ListedOnce' BY <1>4 DEF ListedOnce
<1>18. OneHandle'
  <2>1. SUFFICES ASSUME NEW s \in Watchable, NEW h \in registered'[s], NEW k \in registered'[s] PROVE h = k
    BY DEF OneHandle
  <2>2. CASE s \in New BY <1>6, <2>2
  <2>3. CASE s \notin New BY <1>11, <2>3 DEF OneHandle
  <2> QED BY <2>2, <2>3
<1>19. HandlesFit'
  <2>1. SUFFICES ASSUME NEW s \in Watchable, NEW h \in registered'[s]
                 PROVE  /\ h.gen <= generations'
                        /\ thread'[h.gen].src = s /\ thread'[h.gen].sig = h.sig
                        /\ ~thread'[h.gen].stop /\ thread'[h.gen].pc # "none"
    BY DEF HandlesFit
  <2>2. CASE s \in New BY <1>12, <2>2
  <2>3. CASE s \notin New
    <3>1. /\ h \in registered[s] /\ h.gen \in Generation /\ h.gen <= generations
          /\ ~(h.gen > generations /\ h.gen <= generations') /\ ~Retired(h.gen)
      BY <1>11, <2>3
    <3>2. h.gen <= generations' BY <1>15, <3>1 DEF Generation
    <3> QED BY <1>10, <3>1, <3>2 DEF HandlesFit
  <2> QED BY <2>2, <2>3
<1>20. ThreadsFit'
  <2>1. SUFFICES ASSUME NEW g \in Generation, g > generations' PROVE thread'[g].pc = "none" BY DEF ThreadsFit
  <2>2. g > generations /\ ~(g <= generations') BY <1>15, <2>1 DEF Generation
  <2> QED BY <1>10, <2>2 DEF ThreadsFit
<1>21. MessagesFit'
  <2>1. SUFFICES ASSUME NEW m \in Said
                 PROVE  /\ m.gen <= generations'
                        /\ m.kind = "failed" => thread'[m.gen].pc = "gone"
                        /\ m.kind = "ready" => thread'[m.gen].pc \in {"watching", "gone"}
    BY <1>14 DEF MessagesFit
  <2>2. m.gen \in Generation BY SaidTyped DEF Message
  <2>3. m.gen <= generations BY DEF MessagesFit
  <2>4. m.gen <= generations' /\ ~(m.gen > generations /\ m.gen <= generations')
    BY <1>15, <2>2, <2>3 DEF Generation
  <2> QED BY <1>10, <2>2, <2>4 DEF MessagesFit
<1>22. RunnersRegistered'
  <2>1. SUFFICES ASSUME NEW g \in Generation, thread'[g].pc \in {"starting", "watching"}, ~thread'[g].stop
                 PROVE  \E h \in registered'[thread'[g].src] : h.gen = g
    BY DEF RunnersRegistered, IsCurrent
  <2>2. CASE g > generations /\ g <= generations'
    <3>1. PICK s \in New : gen[s] = g /\ thread'[g].src = s BY <1>9, <2>2
    <3>2. PICK x \in Signature : registered'[s] = {[sig |-> x, gen |-> g]} BY <1>6, <3>1
    <3> QED BY <3>1, <3>2
  <2>3. CASE ~(g > generations /\ g <= generations')
    <3>1. /\ thread[g].pc \in {"starting", "watching"} /\ ~Retired(g) /\ thread'[g].src = thread[g].src
      BY <1>10, <2>1, <2>3
    <3>2. PICK h \in registered[thread[g].src] : h.gen = g
      BY <3>1 DEF RunnersRegistered, Retired, IsCurrent
    <3>3. thread[g].src \in Watchable BY <1>8 DEF ThreadTyped
    <3>4. {h.sig} = listed[thread[g].src]
      BY <3>1, <3>2, <3>3 DEF Retired, IsCurrent, OfCurrentSignature, HandlesFit
    <3>5. ~Outdated(thread[g].src) BY <3>2, <3>4 DEF Outdated
    <3>6. registered'[thread[g].src] = registered[thread[g].src] BY <1>2, <1>7, <3>3, <3>4, <3>5
    <3> QED BY <3>1, <3>2, <3>6
  <2> QED BY <2>2, <2>3
<1>23. HandlesRun'
  <2>1. SUFFICES ASSUME NEW s \in Watchable, NEW h \in registered'[s]
                 PROVE  thread'[h.gen].pc \in {"starting", "watching"} \/ Heard({"failed"}, h.gen)
    BY <1>14 DEF HandlesRun
  <2>2. CASE s \in New BY <1>12, <2>2
  <2>3. CASE s \notin New BY <1>10, <1>11, <2>3 DEF HandlesRun
  <2> QED BY <2>2, <2>3
<1>24. \A s \in Watchable : \A h \in registered'[s] : {h.sig} = listed[s] BY <1>11, <1>12
<1>25. NothingMissed' BY <1>4, <1>24 DEF NothingMissed
\* What is known of a source by its watcher stays known: the watcher stays, as well.
<1>26. \A s \in Watchable : (blind[s] \/ unseen[s]) /\ registered[s] # {} => registered'[s] = registered[s]
  <2>1. SUFFICES ASSUME NEW s \in Watchable, blind[s] \/ unseen[s], NEW h \in registered[s]
                 PROVE  registered'[s] = registered[s]
    OBVIOUS
  <2>2. {h.sig} = listed[s] /\ listed[s] # {} BY <2>1 DEF NothingMissed
  <2>3. ~Outdated(s) BY <2>1, <2>2 DEF Outdated
  <2> QED BY <1>2, <1>7, <2>2, <2>3
<1>27. BlindKnown'
  <2>1. SUFFICES ASSUME NEW s \in Watchable, blind[s]
                 PROVE  /\ Retries(s) \/ \E h \in registered'[s] : Heard({"failed"}, h.gen)
                        /\ \A h \in registered'[s] : thread'[h.gen].pc # "watching"
    BY <1>4, <1>13, <1>14 DEF BlindKnown
  <2>2. Retries(s) \/ \E h \in registered'[s] : Heard({"failed"}, h.gen) BY <1>26, <2>1 DEF BlindKnown
  <2>3. ASSUME NEW h \in registered'[s] PROVE thread'[h.gen].pc # "watching"
    <3>1. CASE s \in New BY <1>12, <3>1
    <3>2. CASE s \notin New BY <1>10, <1>11, <2>1, <3>2 DEF BlindKnown
    <3> QED BY <3>1, <3>2
  <2> QED BY <2>2, <2>3
<1>28. GapKept'
  <2>1. SUFFICES ASSUME NEW s \in Watchable, unseen[s]
                 PROVE  \/ Retries(s) \/ recovering'[s] # {}
                        \/ \E h \in registered'[s] : thread'[h.gen].unread \/ Heard({"changed", "failed"}, h.gen)
                        \/ \E m \in Said : m.kind = "overflow"
    BY <1>4, <1>13, <1>14 DEF GapKept
  <2>2. recovering'[s] = recovering[s] BY <1>4, <2>1 DEF NothingMissed
  <2>3. ASSUME NEW h \in registered[s], thread[h.gen].unread \/ Heard({"changed", "failed"}, h.gen)
        PROVE  h \in registered'[s] /\ (thread'[h.gen].unread \/ Heard({"changed", "failed"}, h.gen))
    <3>1. h \in registered'[s] BY <1>26, <2>1
    <3>2. s \notin New
      <4>1. h.gen <= generations /\ h.gen \in Generation BY DEF HandlesFit, RegistryTypeOK
      <4> QED BY <1>12, <1>15, <3>1, <4>1 DEF Generation
    <3> QED BY <1>10, <1>11, <2>3, <3>1, <3>2
  <2> QED BY <2>1, <2>2, <2>3 DEF GapKept
<1> QED BY <1>16, <1>17, <1>18, <1>19, <1>20, <1>21, <1>22, <1>23, <1>25, <1>27, <1>28

\* It holds in every reachable state.
LEMMA RegistryInvariant == RegistrySpec => []RegistryIInv
<1>1. RegistryIInv /\ [RegistryNext]_registryVars => RegistryIInv'
  <2>1. SUFFICES ASSUME RegistryIInv, [RegistryNext]_registryVars PROVE RegistryIInv' OBVIOUS
  <2>2. CASE UNCHANGED registryVars
    <3>1. Said' = Said /\ \A kinds, t : Heard(kinds, t)' <=> Heard(kinds, t)
      BY <2>2 DEF registryVars, Said, Heard
    <3>2. /\ UNCHANGED <<listed, registered, retrying, recovering, generations, thread, inbox>>
          /\ UNCHANGED <<edits, failures, blind, unseen>>
      BY <2>2 DEF registryVars, registry
    <3>3. RegistryTypeOK' BY <2>1, <3>2 DEF RegistryIInv, RegistryTypeOK
    <3>4. ListedOnce' /\ OneHandle' /\ HandlesFit' /\ ThreadsFit'
      BY <2>1, <3>2 DEF RegistryIInv, ListedOnce, OneHandle, HandlesFit, ThreadsFit
    <3>5. MessagesFit' /\ HandlesRun'
      BY <2>1, <3>1, <3>2 DEF RegistryIInv, MessagesFit, HandlesRun
    <3>6. RunnersRegistered' /\ NothingMissed'
      BY <2>1, <3>2 DEF RegistryIInv, RunnersRegistered, NothingMissed, IsCurrent
    <3>7. \A s \in Watchable : Retries(s)' <=> Retries(s) BY <3>2 DEF Retries
    <3>8. BlindKnown' BY <2>1, <3>1, <3>2, <3>7 DEF RegistryIInv, BlindKnown
    <3>9. GapKept' BY <2>1, <3>1, <3>2, <3>7 DEF RegistryIInv, GapKept
    <3> QED BY <3>3, <3>4, <3>5, <3>6, <3>8, <3>9 DEF RegistryIInv
  <2> QED BY <2>1, <2>2, CatalogKeeps, EditKeeps, FlushKeeps, ElapseKeeps, StartKeeps, ThreadKeeps, FailKeeps,
             CatalogKept, ReceiveKeeps DEF RegistryNext, ThreadStep
<1> QED BY <1>1, RegistryStart, PTL DEF RegistrySpec

\* The registry keeps its types: handles, threads, retries and messages.
THEOREM RegistryTypesCorrect == RegistrySpec => []RegistryTypeOK
<1>1. RegistryIInv => RegistryTypeOK BY DEF RegistryIInv
<1> QED BY <1>1, RegistryInvariant, PTL

\* For any number of sources, watchers, reconfigurations, changes and failures: a source is
\* watched, or the loop is about to hear that it is not, and no change that was to be seen is
\* forgotten.
THEOREM SourcesKeptWatched == RegistrySpec => []SourcesWatched
BY RegistryInvariant, InvariantCovers, PTL

-----------------------------------------------------------------------------
(* All of them together.                                                   *)

\* What TLC runs side by side is, for the variables of each part, a behaviour of this part: so
\* all that is proved of a part holds in the run, the rounds of LibraryRefresh included.
LEMMA ServicesRunTheirParts ==
    ServicesSpec => Spec /\ RegistrySpec /\ CoordinatorSpec /\ ScanProgressSpec /\ Rounds!Spec
<1>1. ServicesInit => Init /\ RegistryInit /\ CoordinatorInit /\ ScanProgressInit /\ Rounds!Init
  BY DEF ServicesInit
<1>2. [ServicesNext]_servicesVars
        => /\ [Next]_vars /\ [RegistryNext]_registryVars /\ [CoordinatorNext]_coordination
           /\ [ScanProgressNext]_scanVars
  BY DEF ServicesNext, servicesVars
<1>3. [ServicesNext]_servicesVars => [Rounds!Next]_(Rounds!vars)
  <2>1. UNCHANGED roundsVars => UNCHANGED Rounds!vars
    BY DEF roundsVars, Rounds!vars, Rounds!db, Rounds!files, Rounds!locks, Rounds!counters
  <2> QED BY <2>1 DEF ServicesNext, servicesVars
<1> QED BY <1>1, <1>2, <1>3, PTL
        DEF ServicesSpec, Spec, RegistrySpec, CoordinatorSpec, ScanProgressSpec, Rounds!Spec

\* Every variable of the services has its type, for any values of the constants.
THEOREM ServicesTypesCorrect == ServicesSpec => []ServicesTypeOK
<1>1. TypeOK /\ RegistryTypeOK /\ CoordinatorTypeOK /\ ScanProgressTypeOK => ServicesTypeOK
  BY DEF ServicesTypeOK
<1> QED BY <1>1, ServicesRunTheirParts, TypeCorrect, RegistryTypesCorrect, CoordinatorTypesCorrect,
           ScanTypesCorrect, PTL
=============================================================================
