---------------------------- MODULE ServicesProofs ----------------------------
(***************************************************************************)
(* Proofs about three small services: the queue of IdleCompaction is       *)
(* served, the flows of OAuthFlows are settled, the end of an init of      *)
(* InitState is on disk before anybody hears of it and releases every tool *)
(* that waits for it.                                                      *)
(***************************************************************************)
EXTENDS IdleCompaction, OAuthFlows, InitState, SequenceTheorems, TLAPS

-----------------------------------------------------------------------------
(* IdleCompaction *)

\* The values the service's state can have.
IdleTypeOK ==
    /\ idleStopped \in BOOLEAN /\ idleProcessing \in BOOLEAN
    /\ idleStep \in {"none", "recheck", "compaction"}
    /\ idleChecks \subseteq Compactable /\ idleQueued \subseteq Compactable /\ idleActive \subseteq Compactable
    /\ idleQueue \in Seq(Compactable)

\* The loop runs exactly while it awaits something, and only then a workspace is active.
LoopIsMarked ==
    /\ idleProcessing <=> idleStep # "none"
    /\ ~idleProcessing => idleActive = {}

\* After stop() the queue may fill again, but the set that goes with it still tells what is in it.
QueuedIsTheQueue ==
    /\ idleQueued = {idleQueue[i] : i \in DOMAIN idleQueue}
    /\ \A i, j \in DOMAIN idleQueue : idleQueue[i] = idleQueue[j] => i = j
    /\ idleQueued \cap idleActive = {}

\* The inductive invariant of the service.
IdleIInv == IdleTypeOK /\ LoopIsMarked /\ QueuedIsTheQueue /\ QueueIsServed

\* Initially nothing is queued and no loop runs.
LEMMA IdleInitIInv == IdleInit => IdleIInv
<1> SUFFICES ASSUME IdleInit PROVE IdleIInv
  OBVIOUS
<1>1. idleQueue \in Seq(Compactable) /\ DOMAIN idleQueue = {}
  BY DEF IdleInit
<1>2. IdleTypeOK BY <1>1 DEF IdleInit, IdleTypeOK
<1>3. QueuedIsTheQueue BY <1>1 DEF IdleInit, QueuedIsTheQueue
<1>4. LoopIsMarked BY DEF IdleInit, LoopIsMarked
<1>5. QueueIsServed BY <1>3 DEF IdleInit, QueuedIsTheQueue, QueueIsServed
<1> QED BY <1>2, <1>3, <1>4, <1>5 DEF IdleIInv

\* A workspace that is neither queued nor active joins the queue at its end.
LEMMA AppendKeepsQueue ==
    ASSUME IdleIInv, NEW w \in Compactable, w \notin idleQueued \cup idleActive
    PROVE  LET q == Append(idleQueue, w)
           IN  /\ q \in Seq(Compactable) /\ q # <<>>
               /\ idleQueued \cup {w} = {q[i] : i \in DOMAIN q}
               /\ \A i, j \in DOMAIN q : q[i] = q[j] => i = j
<1> DEFINE q == Append(idleQueue, w)
<1>1. idleQueue \in Seq(Compactable) BY DEF IdleIInv, IdleTypeOK
<1>2. /\ q \in Seq(Compactable)
      /\ DOMAIN q = 1 .. (Len(idleQueue) + 1) /\ DOMAIN idleQueue = 1 .. Len(idleQueue)
      /\ Len(idleQueue) \in Nat
      /\ \A i \in 1 .. Len(idleQueue) : q[i] = idleQueue[i]
      /\ q[Len(idleQueue) + 1] = w
  BY <1>1
<1>3. \A i \in DOMAIN idleQueue : idleQueue[i] # w
  BY DEF IdleIInv, QueuedIsTheQueue
<1>4. \A i \in DOMAIN q : i \in DOMAIN idleQueue \/ i = Len(idleQueue) + 1
  BY <1>2
<1>5. Len(idleQueue) + 1 \in DOMAIN q /\ \A i \in DOMAIN idleQueue : i \in DOMAIN q
  BY <1>2
<1> HIDE DEF q
<1>6. idleQueued \cup {w} = {q[i] : i \in DOMAIN q}
  <2>1. idleQueued = {idleQueue[i] : i \in DOMAIN idleQueue} BY DEF IdleIInv, QueuedIsTheQueue
  <2> QED BY <2>1, <1>2, <1>4, <1>5
<1>7. \A i, j \in DOMAIN q : q[i] = q[j] => i = j
  BY <1>2, <1>3, <1>4 DEF IdleIInv, QueuedIsTheQueue
<1>8. q # <<>>
  BY <1>2
<1> QED BY <1>2, <1>6, <1>7, <1>8 DEF q

\* The loop goes on with a queue that holds each of ids once and keeps the service in order.
LEMMA LoopOnKeeps ==
    ASSUME IdleTypeOK, IdleTypeOK', NEW q \in Seq(Compactable), NEW ids,
           ids = {q[i] : i \in DOMAIN q},
           \A i, j \in DOMAIN q : q[i] = q[j] => i = j,
           LoopOn(q, ids), UNCHANGED idleStopped
    PROVE  LoopIsMarked' /\ QueuedIsTheQueue' /\ QueueIsServed'
<1>1. CASE q = <<>> \/ idleStopped
  <2>1. /\ idleQueue' = q /\ idleQueued' = ids /\ idleActive' = {}
        /\ idleProcessing' = FALSE /\ idleStep' = "none"
    BY <1>1 DEF LoopOn, LoopEnds
  <2> QED BY <1>1, <2>1 DEF LoopIsMarked, QueuedIsTheQueue, QueueIsServed
<1>2. CASE q # <<>> /\ ~idleStopped
  <2>1. /\ idleQueue' = Tail(q) /\ idleQueued' = ids \ {Head(q)} /\ idleActive' = {Head(q)}
        /\ idleProcessing' = TRUE /\ idleStep' = "recheck"
    BY <1>2 DEF LoopOn
  <2>2. /\ DOMAIN Tail(q) = 1 .. (Len(q) - 1) /\ DOMAIN q = 1 .. Len(q)
        /\ Len(q) \in Nat \ {0}
        /\ \A i \in 1 .. (Len(q) - 1) : Tail(q)[i] = q[i + 1]
        /\ Head(q) = q[1]
    BY <1>2
  <2>3. \A i \in DOMAIN Tail(q) : i + 1 \in DOMAIN q /\ Tail(q)[i] = q[i + 1] /\ i + 1 # 1
    BY <2>2
  <2>4. \A i \in DOMAIN q : i = 1 \/ (i - 1 \in DOMAIN Tail(q) /\ Tail(q)[i - 1] = q[i])
    BY <2>2
  <2>5. ids \ {Head(q)} = {Tail(q)[i] : i \in DOMAIN Tail(q)}
    <3>1. ASSUME NEW i \in DOMAIN Tail(q) PROVE Tail(q)[i] \in ids \ {Head(q)}
      BY <2>2, <2>3
    <3>2. ASSUME NEW x \in ids \ {Head(q)} PROVE x \in {Tail(q)[i] : i \in DOMAIN Tail(q)}
      <4>1. PICK i \in DOMAIN q : x = q[i] OBVIOUS
      <4> QED BY <4>1, <2>2, <2>4
    <3> QED BY <3>1, <3>2
  <2>6. \A i, j \in DOMAIN Tail(q) : Tail(q)[i] = Tail(q)[j] => i = j
    <3> SUFFICES ASSUME NEW i \in DOMAIN Tail(q), NEW j \in DOMAIN Tail(q), Tail(q)[i] = Tail(q)[j]
                 PROVE i = j
      OBVIOUS
    <3>1. i + 1 = j + 1 BY <2>3
    <3> QED BY <3>1, <2>2
  <2> QED BY <2>1, <2>5, <2>6 DEF LoopIsMarked, QueuedIsTheQueue, QueueIsServed
<1> QED BY <1>1, <1>2

\* What the loop leaves in the service's state has its type.
LEMMA LoopOnTypes ==
    ASSUME IdleTypeOK, NEW q \in Seq(Compactable), NEW ids \in SUBSET Compactable,
           LoopOn(q, ids), UNCHANGED idleStopped, idleChecks' \subseteq Compactable
    PROVE  IdleTypeOK'
<1>1. CASE q = <<>> \/ idleStopped
  BY <1>1 DEF IdleTypeOK, LoopOn, LoopEnds
<1>2. CASE q # <<>> /\ ~idleStopped
  <2>1. Tail(q) \in Seq(Compactable) /\ Head(q) \in Compactable BY <1>2
  <2> QED BY <1>2, <2>1 DEF IdleTypeOK, LoopOn
<1> QED BY <1>1, <1>2

\* The loop goes on with what is queued.
LEMMA LoopOnKeepsIInv ==
    ASSUME IdleIInv, LoopOn(idleQueue, idleQueued), UNCHANGED <<idleStopped, idleChecks>>
    PROVE  IdleIInv'
<1>1. IdleTypeOK' BY LoopOnTypes DEF IdleIInv, IdleTypeOK
<1> QED BY <1>1, LoopOnKeeps DEF IdleIInv, IdleTypeOK, QueuedIsTheQueue

\* Every step of the service keeps the inductive invariant.
LEMMA IdleStepIInv == IdleIInv /\ [IdleNext]_idleVars => IdleIInv'
<1> SUFFICES ASSUME IdleIInv, [IdleNext]_idleVars PROVE IdleIInv'
  OBVIOUS
<1>1. ASSUME NEW w \in Compactable, CheckBegins(w) PROVE IdleIInv'
  BY <1>1 DEF CheckBegins, IdleIInv, IdleTypeOK, LoopIsMarked, QueuedIsTheQueue, QueueIsServed
<1>2. ASSUME NEW w \in Compactable, CheckEnds(w) PROVE IdleIInv'
  <2>0. UNCHANGED idleStopped /\ idleChecks' = idleChecks \ {w}
    BY <1>2 DEF CheckEnds
  <2>1. CASE UNCHANGED <<idleQueue, idleQueued, idleActive, idleProcessing, idleStep>>
    BY <2>0, <2>1 DEF IdleIInv, IdleTypeOK, LoopIsMarked, QueuedIsTheQueue, QueueIsServed
  <2>2. CASE Enqueue(w) /\ w \notin idleQueued \cup idleActive
    <3> DEFINE q == Append(idleQueue, w)
               ids == idleQueued \cup {w}
    <3>1. /\ q \in Seq(Compactable) /\ q # <<>>
          /\ ids = {q[i] : i \in DOMAIN q}
          /\ \A i, j \in DOMAIN q : q[i] = q[j] => i = j
      BY <2>2, AppendKeepsQueue
    <3>2. ids \in SUBSET Compactable BY DEF IdleIInv, IdleTypeOK
    <3>3. CASE idleProcessing \/ idleStopped
      <4>1. idleQueue' = q /\ idleQueued' = ids /\ UNCHANGED <<idleActive, idleProcessing, idleStep>>
        BY <2>2, <3>3 DEF Enqueue
      <4>2. ids \cap idleActive = {} BY <2>2 DEF IdleIInv, QueuedIsTheQueue
      <4>3. IdleTypeOK'
        BY <2>0, <3>1, <3>2, <4>1 DEF IdleIInv, IdleTypeOK
      <4> HIDE DEF q, ids
      <4>4. LoopIsMarked' /\ QueuedIsTheQueue'
        BY <3>1, <4>1, <4>2 DEF IdleIInv, LoopIsMarked, QueuedIsTheQueue
      <4>5. QueueIsServed'
        BY <3>3, <2>0, <4>1, <4>4 DEF QueuedIsTheQueue, QueueIsServed
      <4> QED BY <4>3, <4>4, <4>5 DEF IdleIInv
    <3>4. CASE ~(idleProcessing \/ idleStopped)
      <4>1. LoopOn(q, ids)
        BY <2>2, <3>4 DEF Enqueue
      <4>2. IdleTypeOK /\ idleChecks' \subseteq Compactable BY <2>0 DEF IdleIInv, IdleTypeOK
      <4> HIDE DEF q, ids
      <4>3. IdleTypeOK' BY <2>0, <3>1, <3>2, <4>1, <4>2, LoopOnTypes
      <4>4. LoopIsMarked' /\ QueuedIsTheQueue' /\ QueueIsServed'
        BY <2>0, <3>1, <4>1, <4>2, <4>3, LoopOnKeeps
      <4> QED BY <4>3, <4>4 DEF IdleIInv
    <3> QED BY <3>3, <3>4
  <2> QED BY <1>2, <2>1, <2>2 DEF CheckEnds, Enqueue
<1>3. CASE RecheckEnds
  <2>1. CASE idleStep' = "compaction" /\ UNCHANGED <<idleQueue, idleQueued, idleActive, idleProcessing>>
    BY <1>3, <2>1 DEF RecheckEnds, IdleIInv, IdleTypeOK, LoopIsMarked, QueuedIsTheQueue, QueueIsServed
  <2> QED BY <1>3, <2>1, LoopOnKeepsIInv DEF RecheckEnds
<1>4. CASE CompactionEnds
  BY <1>4, LoopOnKeepsIInv DEF CompactionEnds
<1>5. CASE IdleStops
  BY <1>5 DEF IdleStops, IdleIInv, IdleTypeOK, LoopIsMarked, QueuedIsTheQueue, QueueIsServed
<1>6. CASE UNCHANGED idleVars
  BY <1>6 DEF idleVars, IdleIInv, IdleTypeOK, LoopIsMarked, QueuedIsTheQueue, QueueIsServed
<1> QED BY <1>1, <1>2, <1>3, <1>4, <1>5, <1>6 DEF IdleNext

\* For any workspaces: while the service runs, a loop is on its way to every queued workspace, none
\* is queued twice and none that is being compacted is queued again, whatever checks end together.
THEOREM IdleQueueIsServed == IdleSpec => []QueueIsServed
<1>1. IdleIInv => QueueIsServed BY DEF IdleIInv
<1> QED BY <1>1, IdleInitIInv, IdleStepIInv, PTL DEF IdleSpec

-----------------------------------------------------------------------------
(* OAuthFlows *)

\* The values the state of a flow id can have.
FlowTypeOK ==
    /\ registered \in 0 .. MaxFlows /\ current \in 0 .. registered
    /\ outcome \in [Flows -> {"none", "ok", "error"}]
    /\ completed \in {"none", "ok", "error"}
    /\ exchanging \subseteq Flows
    /\ waits \in [FlowWaiters -> 0 .. registered]
    /\ answers \in [FlowWaiters -> {"none", "ok", "error"}]

\* The inductive invariant of the flows.
FlowIInv == FlowTypeOK /\ FlowsAreSettled

\* Initially no flow is registered.
LEMMA FlowInitIInv == FlowInit => FlowIInv
<1> SUFFICES ASSUME FlowInit PROVE FlowIInv
  OBVIOUS
<1>1. FlowTypeOK
  BY MaxFlowsAssumption DEF FlowInit, FlowTypeOK, Flows, NoFlow
<1>2. FlowsAreSettled
  BY DEF FlowInit, FlowsAreSettled, NoFlow
<1> QED BY <1>1, <1>2 DEF FlowIInv

\* A flow once resolved stays so, and the resolved one has an outcome.
LEMMA ResolvedOutcome ==
    ASSUME FlowTypeOK, NEW f \in Flows, NEW r \in {"ok", "error"}
    PROVE  /\ Resolved(f, r) \in [Flows -> {"none", "ok", "error"}]
           /\ Resolved(f, r)[f] # "none"
           /\ \A g \in Flows : outcome[g] # "none" => Resolved(f, r)[g] = outcome[g]
           /\ \A g \in Flows : g # f => Resolved(f, r)[g] = outcome[g]
  BY DEF FlowTypeOK, Resolved

\* The flows of a prefix are flows of the model.
LEMMA RegisteredFlows ==
    ASSUME FlowTypeOK
    PROVE  /\ registered \in Nat /\ 1 .. registered \subseteq Flows
           /\ current # NoFlow => current \in Flows /\ current \in 1 .. registered
  BY MaxFlowsAssumption DEF FlowTypeOK, Flows, NoFlow

\* finish() settles the registered flow; what the callers of it change besides has its type.
LEMMA FinishKeeps ==
    ASSUME FlowIInv, NEW r \in {"ok", "error"}, FinishFlow(r), registered' = registered,
           exchanging' \subseteq Flows,
           waits' \in [FlowWaiters -> 0 .. registered],
           answers' \in [FlowWaiters -> {"none", "ok", "error"}]
    PROVE  FlowIInv'
<1>0. FlowTypeOK BY DEF FlowIInv
<1>1. CASE current = NoFlow
  BY <1>1 DEF FinishFlow, FlowIInv, FlowTypeOK, FlowsAreSettled
<1>2. CASE current # NoFlow
  <2>1. /\ current' = NoFlow /\ outcome' = Resolved(current, r)
        /\ armed' = armed \ {current} /\ listening' = listening \ {current} /\ completed' = r
    BY <1>2 DEF FinishFlow
  <2>2. current \in Flows /\ registered \in Nat /\ 1 .. registered \subseteq Flows
    BY <1>0, <1>2, RegisteredFlows
  <2>3. /\ outcome' \in [Flows -> {"none", "ok", "error"}]
        /\ outcome'[current] # "none"
        /\ \A g \in Flows : g # current => outcome'[g] = outcome[g]
    BY <1>0, <2>1, <2>2, ResolvedOutcome
  <2>4. FlowTypeOK'
    BY <1>0, <2>1, <2>2, <2>3 DEF FlowTypeOK, NoFlow
  <2>5. FlowsAreSettled'
    BY <1>2, <2>1, <2>2, <2>3 DEF FlowIInv, FlowsAreSettled
  <2> QED BY <2>4, <2>5 DEF FlowIInv
<1> QED BY <1>1, <1>2

\* Every step keeps the inductive invariant.
LEMMA FlowStepIInv == FlowIInv /\ [FlowNext]_flowVars => FlowIInv'
<1> SUFFICES ASSUME FlowIInv, [FlowNext]_flowVars PROVE FlowIInv'
  OBVIOUS
<1>0. /\ FlowTypeOK /\ FlowsAreSettled
      /\ registered \in Nat /\ 1 .. registered \subseteq Flows
      /\ current # NoFlow => current \in Flows /\ current \in 1 .. registered
  BY RegisteredFlows DEF FlowIInv
<1>1. CASE RegisterFlow
  <2>1. /\ registered' = registered + 1 /\ current' = registered + 1 /\ completed' = "none"
        /\ registered + 1 \in Flows
        /\ UNCHANGED <<exchanging, waits, answers>>
    BY <1>0, <1>1, MaxFlowsAssumption DEF RegisterFlow, Flows, FlowTypeOK
  <2>2. /\ outcome' \in [Flows -> {"none", "ok", "error"}]
        /\ \A g \in 1 .. registered : outcome'[g] # "none"
    <3>1. CASE current = NoFlow
      BY <1>0, <1>1, <3>1 DEF RegisterFlow, FlowTypeOK, FlowsAreSettled, NoFlow
    <3>2. CASE current # NoFlow
      <4>1. outcome' = Resolved(current, "error") BY <1>1, <3>2 DEF RegisterFlow
      <4> QED BY <1>0, <3>2, <4>1, ResolvedOutcome DEF FlowsAreSettled
    <3> QED BY <3>1, <3>2
  <2>3. armed' = {current'} /\ listening' = {current'}
    BY <1>0, <1>1, <2>1 DEF RegisterFlow, FlowsAreSettled
  <2>4. FlowTypeOK'
    BY <1>0, <2>1, <2>2 DEF FlowTypeOK, Flows
  <2>5. FlowsAreSettled'
    BY <1>0, <2>1, <2>2, <2>3 DEF FlowsAreSettled, NoFlow
  <2> QED BY <2>4, <2>5 DEF FlowIInv
<1>2. CASE CancelFlow
  BY <1>0, <1>2, FinishKeeps DEF CancelFlow, FlowTypeOK
<1>3. CASE CompletedExpires
  BY <1>0, <1>3 DEF CompletedExpires, FlowIInv, FlowTypeOK, FlowsAreSettled
<1>4. ASSUME NEW f \in Flows, CallbackArrives(f) PROVE FlowIInv'
  BY <1>0, <1>4 DEF CallbackArrives, FlowIInv, FlowTypeOK, FlowsAreSettled
<1>5. ASSUME NEW f \in Flows, FlowTimesOut(f) PROVE FlowIInv'
  BY <1>0, <1>5, FinishKeeps DEF FlowTimesOut, FlowTypeOK
<1>6. ASSUME NEW f \in Flows, NEW r \in {"ok", "error"}, ExchangeEnds(f, r) PROVE FlowIInv'
  BY <1>0, <1>6, FinishKeeps DEF ExchangeEnds, FlowTypeOK
<1>7. ASSUME NEW w \in FlowWaiters, WaitForFlow(w) PROVE FlowIInv'
  BY <1>0, <1>7 DEF WaitForFlow, FlowIInv, FlowTypeOK, FlowsAreSettled
<1>8. ASSUME NEW w \in FlowWaiters, NEW r \in {"ok", "error"}, WaitEnds(w, r) PROVE FlowIInv'
  <2>1. /\ registered' = registered /\ exchanging' = exchanging
        /\ waits' \in [FlowWaiters -> 0 .. registered]
        /\ answers' \in [FlowWaiters -> {"none", "ok", "error"}]
    BY <1>0, <1>8 DEF WaitEnds, FlowTypeOK, NoFlow
  <2>2. CASE r = "error"
    BY <1>0, <1>8, <2>1, <2>2, FinishKeeps DEF WaitEnds, FlowTypeOK
  <2>3. CASE r = "ok"
    BY <1>0, <1>8, <2>1, <2>3 DEF WaitEnds, FlowIInv, FlowTypeOK, FlowsAreSettled
  <2> QED BY <2>2, <2>3
<1>9. CASE UNCHANGED flowVars
  BY <1>0, <1>9 DEF flowVars, FlowIInv, FlowTypeOK, FlowsAreSettled
<1> QED BY <1>1, <1>2, <1>3, <1>4, <1>5, <1>6, <1>7, <1>8, <1>9 DEF FlowNext

\* For any number of flows and waiters: a flow that is no longer registered has its deferred
\* resolved, its timer cleared and its server closed, whatever raced to end it.
THEOREM FlowsSettled == FlowSpec => []FlowsAreSettled
<1>1. FlowIInv => FlowsAreSettled BY DEF FlowIInv
<1> QED BY <1>1, FlowInitIInv, FlowStepIInv, PTL DEF FlowSpec

-----------------------------------------------------------------------------
(* InitState *)

\* The values the state of a workspace's init can have.
InitStateTypeOK ==
    /\ initState \in {"none", "running", "ended"}
    /\ initPhase \in {"runtime_setup", "init_hook"}
    /\ initPromise \in {"none", "pending"}
    /\ initFile \in {"absent", "there", "failed"}
    /\ ending \in {"idle", "lock", "write", "after", "done"}
    /\ removal \in {"idle", "cleared", "done"}
    /\ announced \in BOOLEAN
    /\ tool \in [InitWaiters -> {"new", "setup", "hook", "back"}]

\* endInit() is over before the end is visible, it has written unless the entry was gone, and the
\* entry goes only with the workspace.
EndFollowsTheFile ==
    /\ initState = "ended" \/ announced => ending = "done"
    /\ ending \in {"after", "done"} /\ removal = "idle" => initFile # "absent"
    /\ initState = "none" /\ ending # "idle" => removal # "idle"

\* The inductive invariant of the init.
InitIInv == InitStateTypeOK /\ EndFollowsTheFile /\ EndIsOnDisk /\ NobodyLeftWaiting

\* Initially no init was started.
LEMMA InitStateInitIInv == InitStateInit => InitIInv
  BY DEF InitStateInit, InitIInv, InitStateTypeOK, EndFollowsTheFile, EndIsOnDisk, NobodyLeftWaiting

\* Every step keeps the types.
LEMMA InitStateStepTypes == InitStateTypeOK /\ [InitStateNext]_initVars => InitStateTypeOK'
<1> SUFFICES ASSUME InitStateTypeOK, [InitStateNext]_initVars PROVE InitStateTypeOK'
  OBVIOUS
<1> USE DEF InitStateTypeOK
<1>1. CASE StartInit \/ EndBegins \/ EndLooks \/ EndWrites \/ RemovalDeletes
  BY <1>1 DEF StartInit, EndBegins, EndLooks, EndWrites, RemovalDeletes
<1>2. CASE EnterHookPhase
  BY <1>2 DEF EnterHookPhase
<1>3. CASE EndAnnounces
  BY <1>3 DEF EndAnnounces, Released
<1>4. CASE RemovalClears
  BY <1>4 DEF RemovalClears, Released
<1>5. ASSUME NEW w \in InitWaiters, WaitForInit(w) \/ WaitGivenUp(w) PROVE InitStateTypeOK'
  BY <1>5 DEF WaitForInit, WaitGivenUp
<1>6. CASE UNCHANGED initVars
  BY <1>6 DEF initVars
<1> QED BY <1>1, <1>2, <1>3, <1>4, <1>5, <1>6 DEF InitStateNext

\* Every step keeps the order of the file, the state in memory and the event.
LEMMA InitStateStepFile ==
    InitIInv /\ [InitStateNext]_initVars => EndFollowsTheFile' /\ EndIsOnDisk'
<1> SUFFICES ASSUME InitStateTypeOK, EndFollowsTheFile, EndIsOnDisk, [InitStateNext]_initVars
             PROVE  EndFollowsTheFile' /\ EndIsOnDisk'
  BY DEF InitIInv
<1> USE DEF InitStateTypeOK, EndFollowsTheFile, EndIsOnDisk
<1>1. CASE StartInit BY <1>1 DEF StartInit
<1>2. CASE EnterHookPhase BY <1>2 DEF EnterHookPhase
<1>3. CASE EndBegins BY <1>3 DEF EndBegins
<1>4. CASE EndLooks BY <1>4 DEF EndLooks
<1>5. CASE EndWrites BY <1>5 DEF EndWrites
<1>6. CASE EndAnnounces BY <1>6 DEF EndAnnounces
<1>7. CASE RemovalClears BY <1>7 DEF RemovalClears
<1>8. CASE RemovalDeletes BY <1>8 DEF RemovalDeletes
<1>9. ASSUME NEW w \in InitWaiters, WaitForInit(w) \/ WaitGivenUp(w)
      PROVE  EndFollowsTheFile' /\ EndIsOnDisk'
  BY <1>9 DEF WaitForInit, WaitGivenUp
<1>10. CASE UNCHANGED initVars BY <1>10 DEF initVars
<1> QED BY <1>1, <1>2, <1>3, <1>4, <1>5, <1>6, <1>7, <1>8, <1>9, <1>10 DEF InitStateNext

\* Whatever settles the promise releases every tool that waits for it.
LEMMA InitStateStepWaiters ==
    InitStateTypeOK /\ NobodyLeftWaiting /\ [InitStateNext]_initVars => NobodyLeftWaiting'
<1> SUFFICES ASSUME InitStateTypeOK, NobodyLeftWaiting, [InitStateNext]_initVars
             PROVE  NobodyLeftWaiting'
  OBVIOUS
<1> USE DEF InitStateTypeOK, NobodyLeftWaiting
<1>1. CASE StartInit BY <1>1 DEF StartInit
<1>2. CASE EnterHookPhase BY <1>2 DEF EnterHookPhase
<1>3. CASE EndBegins BY <1>3 DEF EndBegins
<1>4. CASE EndLooks BY <1>4 DEF EndLooks
<1>5. CASE EndWrites BY <1>5 DEF EndWrites
<1>6. CASE EndAnnounces BY <1>6 DEF EndAnnounces, Released
<1>7. CASE RemovalClears BY <1>7 DEF RemovalClears, Released
<1>8. CASE RemovalDeletes BY <1>8 DEF RemovalDeletes
<1>9. ASSUME NEW w \in InitWaiters, WaitForInit(w) PROVE NobodyLeftWaiting'
  BY <1>9 DEF WaitForInit
<1>10. ASSUME NEW w \in InitWaiters, WaitGivenUp(w) PROVE NobodyLeftWaiting'
  BY <1>10 DEF WaitGivenUp
<1>11. CASE UNCHANGED initVars BY <1>11 DEF initVars
<1> QED
  BY <1>1, <1>2, <1>3, <1>4, <1>5, <1>6, <1>7, <1>8, <1>9, <1>10, <1>11 DEF InitStateNext

\* The inductive invariant holds throughout.
LEMMA InitStateIInvariant == InitStateSpec => []InitIInv
<1>1. InitIInv /\ [InitStateNext]_initVars => InitIInv'
  BY InitStateStepTypes, InitStateStepFile, InitStateStepWaiters DEF InitIInv
<1> QED BY <1>1, InitStateInitIInv, PTL DEF InitStateSpec

\* Whenever the end of an init is visible in memory or was announced, and the workspace is not being
\* removed, its file was written first.
THEOREM InitEndIsOnDisk == InitStateSpec => []EndIsOnDisk
<1>1. InitIInv => EndIsOnDisk BY DEF InitIInv
<1> QED BY <1>1, InitStateIInvariant, PTL

\* For any tools: none of them waits for a promise that endInit() or the removal has dropped.
THEOREM InitReleasesTools == InitStateSpec => []NobodyLeftWaiting
<1>1. InitIInv => NobodyLeftWaiting BY DEF InitIInv
<1> QED BY <1>1, InitStateIInvariant, PTL
=============================================================================
