------------------------------ MODULE LockProofs ------------------------------
(***************************************************************************)
(* Proofs about AsyncMutex, MutexMap and the tool calls that queue at an   *)
(* AsyncMutex: both locks implement Lock, for any set of callers, no       *)
(* wake-up is lost, and the calls of a MutexMap run in order.              *)
(***************************************************************************)
EXTENDS SequentialExecution, MutexMap, SequenceTheorems, TLAPS

-----------------------------------------------------------------------------
(* AsyncMutex *)

\* One caller at most is inside, and then the flag is set.
FlagTellsHolder ==
    /\ ~locked => Inside = {}
    /\ \A a, b \in Inside : a = b

\* The queue holds callers that wait, each once.
QueueWaits ==
    /\ \A i \in DOMAIN queue : pc[queue[i]] = "waiting"
    /\ \A i, j \in DOMAIN queue : queue[i] = queue[j] => i = j

\* The inductive invariant of the mutex.
MutexIInv == MutexTypeOK /\ FlagTellsHolder /\ QueueWaits /\ NoLostWakeup

\* What Append and Tail do to the positions of a sequence.
LEMMA AppendPositions ==
    ASSUME NEW S, NEW s \in Seq(S), NEW x \in S
    PROVE  /\ Append(s, x) \in Seq(S)
           /\ DOMAIN Append(s, x) = 1 .. (Len(s) + 1)
           /\ DOMAIN s = 1 .. Len(s)
           /\ Len(s) \in Nat
           /\ \A i \in 1 .. Len(s) : Append(s, x)[i] = s[i]
           /\ Append(s, x)[Len(s) + 1] = x
  OBVIOUS

\* ... and likewise for Tail.
LEMMA TailPositions ==
    ASSUME NEW S, NEW s \in Seq(S), s # <<>>
    PROVE  /\ Tail(s) \in Seq(S)
           /\ DOMAIN Tail(s) = 1 .. (Len(s) - 1)
           /\ DOMAIN s = 1 .. Len(s)
           /\ Len(s) \in Nat \ {0}
           /\ \A i \in 1 .. (Len(s) - 1) : Tail(s)[i] = s[i + 1]
           /\ Head(s) = s[1]
           /\ Head(s) \in S
  OBVIOUS

\* Initially the queue is empty and nobody is inside.
LEMMA MutexInitIInv == MutexInit => MutexIInv
<1> SUFFICES ASSUME MutexInit PROVE MutexIInv
  OBVIOUS
<1>1. MutexTypeOK
  <2>1. locked \in BOOLEAN BY DEF MutexInit
  <2>2. queue \in Seq(Callers) /\ jobs \in Seq(Callers) BY DEF MutexInit
  <2>3. pc \in [Callers -> {"idle", "waiting", "woken", "granted", "holding"}] BY DEF MutexInit
  <2> QED BY <2>1, <2>2, <2>3 DEF MutexTypeOK
<1>2. Inside = {} BY DEF MutexInit, Inside
<1>3. queue = <<>> BY DEF MutexInit
<1> QED BY <1>1, <1>2, <1>3 DEF MutexIInv, FlagTellsHolder, QueueWaits, NoLostWakeup

\* A caller that is not in the queue joins it at its end.
LEMMA WaitKeeps ==
    ASSUME MutexIInv, NEW c \in Callers, Wait(c), jobs' \in Seq(Callers),
           pc[c] \in {"idle", "woken"}
    PROVE  MutexIInv'
<1>1. MutexTypeOK'
  BY AppendPositions DEF MutexIInv, MutexTypeOK, Wait
<1>2. Inside' = Inside
  BY DEF Inside, Wait, MutexIInv, MutexTypeOK
<1>3. FlagTellsHolder'
  BY <1>2 DEF FlagTellsHolder, MutexIInv, Wait
<1>4. QueueWaits'
  <2>1. \A i \in DOMAIN queue : queue[i] # c /\ queue[i] \in Callers
    BY DEF MutexIInv, QueueWaits, MutexTypeOK
  <2>2. \A i \in DOMAIN queue' :
            \/ i \in DOMAIN queue /\ queue'[i] = queue[i]
            \/ i = Len(queue) + 1 /\ queue'[i] = c /\ i \notin DOMAIN queue
    BY AppendPositions DEF Wait, MutexIInv, MutexTypeOK
  <2>3. \A i \in DOMAIN queue' : pc'[queue'[i]] = "waiting"
    BY <2>1, <2>2 DEF Wait, MutexIInv, MutexTypeOK, QueueWaits
  <2>4. \A i, j \in DOMAIN queue' : queue'[i] = queue'[j] => i = j
    BY <2>1, <2>2 DEF MutexIInv, QueueWaits
  <2> QED BY <2>3, <2>4 DEF QueueWaits
<1>5. NoLostWakeup'
  BY DEF NoLostWakeup, Wait
<1> QED BY <1>1, <1>3, <1>4, <1>5 DEF MutexIInv

\* A caller outside the queue takes the free lock.
LEMMA TakeKeeps ==
    ASSUME MutexIInv, NEW c \in Callers, Take(c), jobs' \in Seq(Callers),
           pc[c] \in {"idle", "woken"}
    PROVE  MutexIInv'
<1>1. MutexTypeOK'
  BY DEF MutexIInv, MutexTypeOK, Take
<1>2. Inside = {} /\ Inside' = {c}
  BY DEF Inside, Take, MutexIInv, MutexTypeOK, FlagTellsHolder
<1>3. FlagTellsHolder'
  BY <1>2 DEF FlagTellsHolder, Take
<1>4. QueueWaits'
  BY DEF Take, MutexIInv, MutexTypeOK, QueueWaits
<1>5. NoLostWakeup'
  BY DEF NoLostWakeup, Take
<1> QED BY <1>1, <1>3, <1>4, <1>5 DEF MutexIInv

\* A granted caller begins its critical section.
LEMMA EnterKeeps ==
    ASSUME MutexIInv, NEW c \in Callers, Enter(c)
    PROVE  MutexIInv'
<1>1. MutexTypeOK'
  BY TailPositions DEF MutexIInv, MutexTypeOK, Enter
<1>2. Inside' = Inside
  BY DEF Inside, Enter, MutexIInv, MutexTypeOK
<1>3. FlagTellsHolder'
  BY <1>2 DEF FlagTellsHolder, MutexIInv, Enter
<1>4. QueueWaits'
  BY DEF Enter, MutexIInv, MutexTypeOK, QueueWaits
<1>5. NoLostWakeup'
  \* The flag is set while a granted caller is inside.
  BY DEF NoLostWakeup, Enter, MutexIInv, MutexTypeOK, FlagTellsHolder, Inside
<1> QED BY <1>1, <1>3, <1>4, <1>5 DEF MutexIInv

\* A release frees the lock and wakes the head of the queue.
LEMMA ReleaseKeeps ==
    ASSUME MutexIInv, NEW c \in Callers, Release(c)
    PROVE  MutexIInv'
<1> USE DEF MutexIInv
<1>1. Inside = {c}
  BY DEF Inside, Release, FlagTellsHolder, MutexTypeOK
<1>2. CASE queue = <<>>
  <2>1. MutexTypeOK' BY <1>2 DEF Release, MutexTypeOK
  <2>2. Inside' = {} BY <1>1, <1>2 DEF Inside, Release, MutexTypeOK
  <2>3. FlagTellsHolder' BY <2>2 DEF FlagTellsHolder
  <2>4. queue' = <<>> BY <1>2 DEF Release
  <2>5. QueueWaits' /\ NoLostWakeup' BY <2>4 DEF QueueWaits, NoLostWakeup
  <2> QED BY <2>1, <2>3, <2>5
<1>3. CASE queue # <<>>
  <2> DEFINE w == Head(queue)
  <2>1. w \in Callers /\ w = queue[1] /\ 1 \in DOMAIN queue /\ pc[w] = "waiting" /\ w # c
    BY <1>3, TailPositions DEF QueueWaits, MutexTypeOK, Release
  <2>2. /\ queue' = Tail(queue) /\ jobs' = Append(jobs, w)
        /\ pc' = [pc EXCEPT ![c] = "idle", ![w] = "woken"] /\ locked' = FALSE
    BY <1>3 DEF Release
  <2>3. MutexTypeOK'
    BY <1>3, <2>1, <2>2, TailPositions, AppendPositions DEF MutexTypeOK
  <2>4. Inside' = {}
    BY <1>1, <2>1, <2>2 DEF Inside, MutexTypeOK
  <2>5. FlagTellsHolder'
    BY <2>4 DEF FlagTellsHolder
  <2>6. \A i \in DOMAIN queue' :
            i + 1 \in DOMAIN queue /\ queue'[i] = queue[i + 1] /\ i \in Nat \ {0}
    BY <1>3, <2>2, TailPositions DEF MutexTypeOK
  <2>7. \A i \in DOMAIN queue' : queue'[i] # w /\ queue'[i] \in Callers
    BY <2>1, <2>6 DEF QueueWaits, MutexTypeOK
  <2>8. \A i \in DOMAIN queue' : pc'[queue'[i]] = "waiting"
    BY <2>2, <2>6, <2>7 DEF QueueWaits, MutexTypeOK, Release
  <2>9. \A i, j \in DOMAIN queue' : queue'[i] = queue'[j] => i = j
    BY <2>6 DEF QueueWaits
  <2>10. QueueWaits' BY <2>8, <2>9 DEF QueueWaits
  <2>11. NoLostWakeup'
    <3>1. Len(jobs) + 1 \in DOMAIN jobs' /\ jobs'[Len(jobs) + 1] = w
      BY <2>1, <2>2, AppendPositions DEF MutexTypeOK
    <3>2. pc'[w] = "woken"
      BY <2>1, <2>2 DEF MutexTypeOK
    <3> QED BY <3>1, <3>2 DEF NoLostWakeup
  <2> QED BY <2>3, <2>5, <2>10, <2>11
<1> QED BY <1>2, <1>3

\* Every step of the mutex keeps its inductive invariant.
LEMMA MutexNextKeeps == MutexIInv /\ [MutexNext]_mutexVars => MutexIInv'
<1> SUFFICES ASSUME MutexIInv, [MutexNext]_mutexVars PROVE MutexIInv'
  OBVIOUS
<1>1. ASSUME NEW c \in Callers, Acquire(c) PROVE MutexIInv'
  <2>1. jobs' \in Seq(Callers) /\ pc[c] = "idle"
    BY <1>1, AppendPositions DEF Acquire, MutexIInv, MutexTypeOK
  <2> QED BY <1>1, <2>1, WaitKeeps, TakeKeeps DEF Acquire
<1>2. ASSUME NEW c \in Callers, Recheck(c) PROVE MutexIInv'
  <2>1. Tail(jobs) \in Seq(Callers)
    BY <1>2, TailPositions DEF Recheck, MutexIInv, MutexTypeOK
  <2>2. jobs' \in Seq(Callers) /\ pc[c] = "woken"
    BY <1>2, <2>1, AppendPositions DEF Recheck
  <2> QED BY <1>2, <2>2, WaitKeeps, TakeKeeps DEF Recheck
<1>3. CASE UNCHANGED mutexVars
  BY <1>3 DEF mutexVars, MutexIInv, MutexTypeOK, FlagTellsHolder, QueueWaits, NoLostWakeup, Inside
<1> QED BY <1>1, <1>2, <1>3, EnterKeeps, ReleaseKeeps DEF MutexNext

\* The invariant holds throughout.
LEMMA MutexSafe == MutexSpec => []MutexIInv
  BY MutexInitIInv, MutexNextKeeps, PTL DEF MutexSpec

\* Whatever the order of releases, barging callers and woken waiters, nobody
\* waits at a free lock without a microtask on its way to it.
THEOREM WakeupsKept == MutexSpec => []NoLostWakeup
<1>1. MutexIInv => NoLostWakeup BY DEF MutexIInv
<1> QED BY <1>1, MutexSafe, PTL

\* A step of the mutex is a step of the abstract lock or leaves it alone.
LEMMA MutexStepSimulates ==
    MutexIInv /\ [MutexNext]_mutexVars => [AsLock!Next]_(AsLock!lockVars)
<1> SUFFICES ASSUME MutexIInv, [MutexNext]_mutexVars PROVE [AsLock!Next]_(AsLock!lockVars)
  OBVIOUS
<1> USE DEF AsLock!Next, AsLock!lockVars, AsLock!Ask, AsLock!Enter, AsLock!Leave
<1>1. ASSUME NEW c \in Callers, Wait(c), pc[c] \in {"idle", "woken"}
      PROVE  [AsLock!Next]_(AsLock!lockVars)
  <2>1. Inside' = Inside /\ Wanting' = Wanting \cup {c} /\ c \notin Inside
    BY <1>1 DEF Inside, Wanting, Wait, MutexIInv, MutexTypeOK
  <2>2. CASE c \in Wanting BY <2>1, <2>2
  <2>3. CASE c \notin Wanting BY <2>1, <2>3
  <2> QED BY <2>2, <2>3
<1>2. ASSUME NEW c \in Callers, Take(c), pc[c] \in {"idle", "woken"}
      PROVE  [AsLock!Next]_(AsLock!lockVars)
  <2>1. Inside = {} /\ Inside' = {c} /\ Wanting' = Wanting \ {c}
    BY <1>2 DEF Inside, Wanting, Take, MutexIInv, MutexTypeOK, FlagTellsHolder
  <2> QED BY <2>1
<1>3. ASSUME NEW c \in Callers, Enter(c) PROVE [AsLock!Next]_(AsLock!lockVars)
  <2>1. Inside' = Inside /\ Wanting' = Wanting
    BY <1>3 DEF Inside, Wanting, Enter, MutexIInv, MutexTypeOK
  <2> QED BY <2>1
<1>4. ASSUME NEW c \in Callers, Release(c) PROVE [AsLock!Next]_(AsLock!lockVars)
  <2>1. Inside = {c}
    BY <1>4 DEF Inside, Release, MutexIInv, FlagTellsHolder, MutexTypeOK
  <2>2. CASE queue = <<>>
    <3>1. Inside' = {} /\ Wanting' = Wanting
      BY <1>4, <2>1, <2>2 DEF Inside, Wanting, Release, MutexIInv, MutexTypeOK
    <3> QED BY <2>1, <3>1
  <2>3. CASE queue # <<>>
    <3>1. Head(queue) \in Callers /\ pc[Head(queue)] = "waiting"
      BY <2>3, TailPositions DEF MutexIInv, MutexTypeOK, QueueWaits
    <3>2. Inside' = {} /\ Wanting' = Wanting
      BY <1>4, <2>1, <2>3, <3>1 DEF Inside, Wanting, Release, MutexIInv, MutexTypeOK
    <3> QED BY <2>1, <3>2
  <2> QED BY <2>2, <2>3
<1>5. CASE UNCHANGED mutexVars
  BY <1>5 DEF mutexVars, Inside, Wanting
<1> QED BY <1>1, <1>2, <1>3, <1>4, <1>5 DEF MutexNext, Acquire, Recheck

\* The mutex with its flag, queue and microtasks implements the abstract lock:
\* mutual exclusion from acquire() to the disposal, for any number of callers.
THEOREM MutexImplementsLock == MutexSpec => ImplementsLock
<1>1. MutexInit => AsLock!Init
  BY DEF MutexInit, AsLock!Init, Inside, Wanting
<1> QED BY <1>1, MutexSafe, MutexStepSimulates, PTL DEF MutexSpec, ImplementsLock, AsLock!Spec

-----------------------------------------------------------------------------
(* Tool calls *)

\* Tool calls use the mutex by its protocol: the composition takes steps of
\* the mutex or none.
THEOREM ToolsUseTheMutex == ToolSpec => MutexSpec
<1>1. ToolInit => MutexInit BY DEF ToolInit
<1>2. [ToolNext]_toolVars => [MutexNext]_mutexVars
  BY DEF ToolNext, ToolStep, toolVars, mutexVars, MutexNext, Refuse, Begin, Abort, Wake, Proceed,
         Start, GiveBack, Return
<1> QED BY <1>1, <1>2, PTL DEF ToolSpec, MutexSpec

\* Sibling tools of a stream hold the lock one at a time, aborted waits included.
THEOREM ToolsImplementLock == ToolSpec => ImplementsLock
  BY ToolsUseTheMutex, MutexImplementsLock, PTL

\* A tool executes, or is about to, only while its call holds the lock.
RunningHolds == \A c \in Admitted : pc[c] = "holding"

\* The inductive invariant of the tool calls.
ToolIInv == ToolTypeOK /\ MutexIInv /\ RunningHolds

\* A step of the tool calls keeps the type of what they are.
LEMMA ToolStepTypes == ToolTypeOK /\ MutexTypeOK' /\ [ToolNext]_toolVars => ToolTypeOK'
  BY DEF ToolTypeOK, ToolNext, ToolStep, toolVars, Refuse, Begin, Abort, Wake, Proceed, Start,
         GiveBack, Return, SetCall

\* Nobody but its own disposal takes the lock from a call that executes its tool.
LEMMA ToolStepHolds == ToolIInv /\ [ToolNext]_toolVars => RunningHolds'
<1> SUFFICES ASSUME ToolIInv, [ToolNext]_toolVars PROVE RunningHolds'
  OBVIOUS
<1>0. /\ call \in [Callers -> {"new", "acquiring", "cleared", "running", "done", "interrupted"}]
      /\ pc \in [Callers -> {"idle", "waiting", "woken", "granted", "holding"}]
      /\ RunningHolds
  BY DEF ToolIInv, ToolTypeOK, MutexTypeOK
<1>1. ASSUME NEW c \in Callers, Refuse(c) PROVE RunningHolds'
  BY <1>0, <1>1 DEF Refuse, SetCall, mutexVars, RunningHolds, Admitted
<1>2. ASSUME NEW c \in Callers, Begin(c) PROVE RunningHolds'
  BY <1>0, <1>2 DEF Begin, SetCall, Acquire, Wait, Take, RunningHolds, Admitted
<1>3. ASSUME NEW c \in Callers, Wake(c) PROVE RunningHolds'
  BY <1>0, <1>3 DEF Wake, Recheck, Wait, Take, RunningHolds, Admitted
<1>4. ASSUME NEW c \in Callers, Proceed(c) PROVE RunningHolds'
  BY <1>0, <1>4 DEF Proceed, SetCall, Enter, RunningHolds, Admitted
<1>5. ASSUME NEW c \in Callers, Release(c), c \notin Admitted',
             \A d \in Callers : d # c => call'[d] = call[d]
      PROVE  RunningHolds'
  <2>1. queue # <<>> => Head(queue) \in Callers /\ pc[Head(queue)] = "waiting"
    BY TailPositions DEF ToolIInv, MutexIInv, MutexTypeOK, QueueWaits
  <2>2. \A d \in Callers : d # c /\ pc[d] = "holding" => pc'[d] = "holding"
    BY <1>0, <1>5, <2>1 DEF Release
  <2> QED BY <1>0, <1>5, <2>2 DEF RunningHolds, Admitted
<1>6. ASSUME NEW c \in Callers, GiveBack(c) PROVE RunningHolds'
  BY <1>5, <1>6 DEF GiveBack, Admitted
<1>7. ASSUME NEW c \in Callers, Return(c) PROVE RunningHolds'
  BY <1>0, <1>5, <1>7 DEF Return, SetCall, Admitted
<1>8. CASE Abort
  BY <1>0, <1>8 DEF Abort, mutexVars, RunningHolds, Admitted
<1>9. CASE UNCHANGED toolVars
  <2>1. call' = call /\ pc' = pc BY <1>9 DEF toolVars
  <2> QED BY <1>0, <2>1 DEF RunningHolds, Admitted
<1>10. ASSUME NEW c \in Callers, Start(c) PROVE RunningHolds'
  BY <1>0, <1>10 DEF Start, SetCall, mutexVars, RunningHolds, Admitted
<1> QED BY <1>1, <1>2, <1>3, <1>4, <1>10, <1>6, <1>7, <1>8, <1>9 DEF ToolNext, ToolStep

\* The inductive invariant holds throughout.
LEMMA ToolSafe == ToolSpec => []ToolIInv
<1>1. ToolInit => ToolTypeOK /\ RunningHolds
  <2> SUFFICES ASSUME ToolInit PROVE ToolTypeOK /\ RunningHolds
    OBVIOUS
  <2>1. MutexTypeOK BY MutexInitIInv DEF ToolInit, MutexIInv
  <2> QED BY <2>1 DEF ToolInit, ToolTypeOK, RunningHolds, Admitted
<1>2. MutexIInv => MutexTypeOK BY DEF MutexIInv
<1>3. MutexIInv /\ ToolTypeOK /\ RunningHolds => ToolIInv BY DEF ToolIInv
<1> QED BY <1>1, <1>2, <1>3, ToolsUseTheMutex, MutexSafe, ToolStepTypes, ToolStepHolds, PTL DEF ToolSpec

\* The tools that a provider asks for at once execute one after the other: from the check of the
\* signal to the tool's end no other passes it, however many there are and whenever the stream is aborted.
THEOREM ToolsRunOneByOne == ToolSpec => [](\A c, d \in Admitted : c = d)
<1>1. ToolIInv => \A c, d \in Admitted : c = d
  BY DEF ToolIInv, RunningHolds, MutexIInv, FlagTellsHolder, Inside, Admitted
<1> QED BY <1>1, ToolSafe, PTL

\* Once the stream is aborted, at most one tool runs or is about to, and no other starts any more.
THEOREM NoToolAfterAbort == ToolSpec => NoStartAfterAbort
<1>1. ToolIInv => \A c, d \in Admitted : c = d
  BY DEF ToolIInv, RunningHolds, MutexIInv, FlagTellsHolder, Inside, Admitted
<1>2. ToolIInv /\ [ToolNext]_toolVars => (aborted => Admitted' \subseteq Admitted)
  BY DEF ToolIInv, ToolTypeOK, ToolNext, ToolStep, toolVars, Refuse, Begin, Abort, Wake, Proceed,
         Start, GiveBack, Return, SetCall, Admitted
<1>3. ToolIInv /\ [ToolNext]_toolVars
        => [aborted => Admitted' \subseteq Admitted /\ \A c, d \in Admitted : c = d]_toolVars
  BY <1>1, <1>2
<1> QED BY <1>3, ToolSafe, PTL DEF ToolSpec, NoStartAfterAbort

-----------------------------------------------------------------------------
(* MutexMap *)

\* The calls asked for are distinct, and those are the ones that are not new.
AskedOnce ==
    /\ \A i, j \in DOMAIN asked : asked[i] = asked[j] => i = j
    /\ \A i \in DOMAIN asked : stage[asked[i]] # "new"
    /\ \A o \in Operations : stage[o] # "new" => \E i \in DOMAIN asked : asked[i] = o

\* All calls up to the i-th have finished.
DoneUpTo(i) == \A k \in DOMAIN asked : k <= i => stage[asked[k]] = "done"

\* The key holds the last call, unless every call has finished.
ChainedIsLast ==
    \/ DoneUpTo(Len(asked)) /\ chained = {}
    \/ asked # <<>> /\ chained = {asked[Len(asked)]}

\* A call is chained behind the one before it, unless all before it had finished.
ChainIsOrder ==
    \A i \in DOMAIN asked :
        \/ DoneUpTo(i - 1)
        \/ i > 1 /\ previous[asked[i]] = {asked[i - 1]}

\* The inductive invariant of one key's chain of promises.
MapIInv == MapTypeOK /\ AskedOnce /\ ChainedIsLast /\ ChainIsOrder /\ InOrder

\* Initially no call was made.
LEMMA MapInitIInv == MapInit => MapIInv
<1> SUFFICES ASSUME MapInit PROVE MapIInv
  OBVIOUS
<1>1. MapTypeOK BY DEF MapInit, MapTypeOK
<1>2. asked = <<>> /\ chained = {} BY DEF MapInit
<1>3. \A o \in Operations : stage[o] = "new" BY DEF MapInit
<1> QED BY <1>1, <1>2, <1>3 DEF MapIInv, AskedOnce, ChainedIsLast, ChainIsOrder, InOrder, DoneUpTo

\* A call chains itself behind the last one, if that has not finished.
LEMMA CallKeeps ==
    ASSUME MapIInv, NEW o \in Operations, Call(o)
    PROVE  MapIInv'
<1> USE DEF MapIInv
<1> DEFINE n == Len(asked)
<1>1. /\ asked' \in Seq(Operations) /\ DOMAIN asked' = 1 .. (n + 1) /\ DOMAIN asked = 1 .. n
      /\ n \in Nat /\ Len(asked') = n + 1
      /\ \A i \in 1 .. n : asked'[i] = asked[i] /\ asked[i] \in Operations
      /\ asked'[n + 1] = o
  BY AppendPositions DEF Call, MapTypeOK
<1>2. MapTypeOK' BY <1>1 DEF Call, MapTypeOK
<1>3. \A i \in 1 .. n : asked[i] # o
  BY <1>1 DEF AskedOnce, Call
<1>4. stage'[o] = "waiting" /\ \A i \in 1 .. n : stage'[asked[i]] = stage[asked[i]]
  BY <1>1, <1>3 DEF Call, MapTypeOK
<1>5. AskedOnce'
  <2>1. /\ \A i, j \in DOMAIN asked' : asked'[i] = asked'[j] => i = j
        /\ \A i \in DOMAIN asked' : stage'[asked'[i]] # "new"
    BY <1>1, <1>3, <1>4 DEF AskedOnce
  <2>2. ASSUME NEW p \in Operations, stage'[p] # "new"
        PROVE  \E i \in DOMAIN asked' : asked'[i] = p
    <3>1. CASE p = o BY <1>1, <3>1
    <3>2. CASE p # o
      <4>1. stage[p] # "new" BY <2>2, <3>2 DEF Call, MapTypeOK
      <4>2. PICK i \in DOMAIN asked : asked[i] = p BY <4>1 DEF AskedOnce
      <4> QED BY <1>1, <4>2
    <3> QED BY <3>1, <3>2
  <2> QED BY <2>1, <2>2 DEF AskedOnce
<1>6. chained' = {o} /\ previous' = [previous EXCEPT ![o] = chained]
  BY DEF Call
<1>7. ChainedIsLast' BY <1>1, <1>6 DEF ChainedIsLast
<1>8. \A i \in 0 .. n : DoneUpTo(i) => DoneUpTo(i)'
  BY <1>1, <1>4 DEF DoneUpTo
<1>9. ChainIsOrder'
  <2> SUFFICES ASSUME NEW i \in 1 .. (n + 1)
               PROVE  \/ DoneUpTo(i - 1)'
                      \/ i > 1 /\ previous'[asked'[i]] = {asked'[i - 1]}
    BY <1>1 DEF ChainIsOrder
  <2>1. CASE i = n + 1
    <3>1. previous'[o] = chained BY <1>6 DEF MapTypeOK
    <3>2. CASE DoneUpTo(n) BY <1>1, <1>8, <2>1, <3>2
    <3>3. CASE asked # <<>> /\ chained = {asked[n]}
      <4>1. n > 0 BY <1>1, <3>3
      <4> QED BY <1>1, <2>1, <3>1, <3>3, <4>1
    <3> QED BY <3>2, <3>3 DEF ChainedIsLast
  <2>2. CASE i \in 1 .. n
    <3>1. asked'[i] = asked[i] /\ asked[i] # o /\ (i > 1 => asked'[i - 1] = asked[i - 1])
      BY <1>1, <1>3, <2>2
    <3>2. previous'[asked[i]] = previous[asked[i]]
      BY <1>1, <1>6, <2>2, <3>1 DEF MapTypeOK
    <3>3. i - 1 \in 0 .. n BY <1>1, <2>2
    <3> QED BY <1>1, <1>8, <2>2, <3>1, <3>2, <3>3 DEF ChainIsOrder
  <2> QED BY <1>1, <2>1, <2>2
<1>10. InOrder'
  BY <1>1, <1>4 DEF InOrder
<1> QED BY <1>2, <1>5, <1>7, <1>9, <1>10

\* An operation starts when everything before it has finished.
LEMMA RunKeeps ==
    ASSUME MapIInv, NEW o \in Operations, Run(o)
    PROVE  MapIInv'
<1> USE DEF MapIInv
<1>1. stage' = [stage EXCEPT ![o] = "running"] /\ stage[o] = "waiting"
  BY DEF Run
<1>2. UNCHANGED <<chained, previous, asked>> BY DEF Run
<1>3. MapTypeOK' BY <1>1, <1>2 DEF MapTypeOK
<1>4. \A i \in DOMAIN asked : asked[i] \in Operations /\ i \in Nat BY DEF MapTypeOK
<1>5. AskedOnce' BY <1>1, <1>2, <1>4 DEF AskedOnce, MapTypeOK
<1>6. \A k \in DOMAIN asked : (stage'[asked[k]] = "done") <=> (stage[asked[k]] = "done")
  BY <1>1, <1>4 DEF MapTypeOK
<1>7. ASSUME NEW i PROVE DoneUpTo(i)' <=> DoneUpTo(i)
  BY <1>2, <1>6 DEF DoneUpTo
<1>8. ChainedIsLast' BY <1>2, <1>7 DEF ChainedIsLast
<1>9. ChainIsOrder' BY <1>2, <1>7 DEF ChainIsOrder
<1>10. ASSUME NEW j \in DOMAIN asked, asked[j] = o PROVE DoneUpTo(j - 1)
  <2>1. CASE DoneUpTo(j - 1) BY <2>1
  <2>2. CASE j > 1 /\ previous[asked[j]] = {asked[j - 1]}
    <3>1. stage[asked[j - 1]] = "done" BY <1>10, <2>2 DEF Run
    <3>2. j - 1 \in DOMAIN asked BY <2>2, <1>4 DEF MapTypeOK
    <3>3. \A i \in DOMAIN asked : i < j - 1 => stage[asked[i]] = "done"
      BY <3>1, <3>2 DEF InOrder
    <3> QED BY <1>4, <3>1, <3>3 DEF DoneUpTo
  <2> QED BY <2>1, <2>2 DEF ChainIsOrder
<1>11. InOrder'
  <2> SUFFICES ASSUME NEW i \in DOMAIN asked, NEW j \in DOMAIN asked, i < j,
                      stage'[asked[j]] \in {"running", "done"}
               PROVE  stage[asked[i]] = "done"
    BY <1>2, <1>6 DEF InOrder
  <2>1. CASE asked[j] = o
    <3>1. DoneUpTo(j - 1) BY <1>10, <2>1
    <3> QED BY <1>4, <3>1 DEF DoneUpTo
  <2>2. CASE asked[j] # o
    <3>1. stage[asked[j]] \in {"running", "done"} BY <1>1, <1>4, <2>2 DEF MapTypeOK
    <3> QED BY <3>1 DEF InOrder
  <2> QED BY <2>1, <2>2
<1> QED BY <1>3, <1>5, <1>8, <1>9, <1>11

\* An operation that finishes leaves the key only when nobody chained behind it.
LEMMA FinishKeeps ==
    ASSUME MapIInv, NEW o \in Operations, Finish(o)
    PROVE  MapIInv'
<1> USE DEF MapIInv
<1>1. /\ stage' = [stage EXCEPT ![o] = "done"] /\ stage[o] = "running"
      /\ chained' = IF chained = {o} THEN {} ELSE chained
      /\ UNCHANGED <<previous, asked>>
  BY DEF Finish
<1>2. MapTypeOK' BY <1>1 DEF MapTypeOK
<1>3. \A i \in DOMAIN asked : asked[i] \in Operations /\ i \in Nat BY DEF MapTypeOK
<1>4. AskedOnce' BY <1>1, <1>3 DEF AskedOnce, MapTypeOK
<1>5. \A k \in DOMAIN asked : (stage'[asked[k]] = "done") <=> (stage[asked[k]] = "done" \/ asked[k] = o)
  BY <1>1, <1>3 DEF MapTypeOK
<1>6. ASSUME NEW i PROVE DoneUpTo(i) => DoneUpTo(i)'
  BY <1>1, <1>5 DEF DoneUpTo
<1>7. ChainIsOrder' BY <1>1, <1>6 DEF ChainIsOrder
<1>8. ASSUME NEW j \in DOMAIN asked, asked[j] = o
      PROVE  \A k \in DOMAIN asked : k < j => stage[asked[k]] = "done"
  BY <1>1, <1>8 DEF InOrder
<1>9. ChainedIsLast'
  <2>1. CASE DoneUpTo(Len(asked)) /\ chained = {}
    BY <1>1, <1>6, <2>1 DEF ChainedIsLast
  <2>2. CASE asked # <<>> /\ chained = {asked[Len(asked)]} /\ asked[Len(asked)] # o
    BY <1>1, <2>2 DEF ChainedIsLast
  <2>3. CASE asked # <<>> /\ chained = {asked[Len(asked)]} /\ asked[Len(asked)] = o
    <3>1. chained' = {} BY <1>1, <2>3
    <3>2. Len(asked) \in DOMAIN asked /\ \A k \in DOMAIN asked : k <= Len(asked)
      BY <2>3 DEF MapTypeOK
    <3>3. \A k \in DOMAIN asked : stage'[asked[k]] = "done"
      BY <1>3, <1>5, <1>8, <2>3, <3>2
    <3> QED BY <1>1, <3>1, <3>3 DEF ChainedIsLast, DoneUpTo
  <2> QED BY <2>1, <2>2, <2>3 DEF ChainedIsLast
<1>10. InOrder'
  BY <1>1, <1>3, <1>5, <1>8 DEF InOrder, MapTypeOK
<1> QED BY <1>2, <1>4, <1>7, <1>9, <1>10

\* The invariant holds throughout.
LEMMA MapSafe == MapSpec => []MapIInv
<1>1. MapIInv /\ [MapNext]_mapVars => MapIInv'
  <2> SUFFICES ASSUME MapIInv, [MapNext]_mapVars PROVE MapIInv'
    OBVIOUS
  <2>1. CASE UNCHANGED mapVars
    BY <2>1 DEF mapVars, MapIInv, MapTypeOK, AskedOnce, ChainedIsLast, ChainIsOrder, InOrder,
                DoneUpTo
  <2> QED BY <2>1, CallKeeps, RunKeeps, FinishKeeps DEF MapNext
<1> QED BY <1>1, MapInitIInv, PTL DEF MapSpec

\* While the promise of a waiting call's predecessor is released, nobody runs.
LEMMA RunFindsNobody ==
    ASSUME MapIInv, NEW o \in Operations, Run(o), NEW p \in Operations
    PROVE  stage[p] # "running"
<1> SUFFICES ASSUME stage[p] = "running" PROVE FALSE
  OBVIOUS
<1> USE DEF MapIInv
<1>1. PICK j \in DOMAIN asked : asked[j] = o BY DEF AskedOnce, Run
<1>2. PICK i \in DOMAIN asked : asked[i] = p BY DEF AskedOnce
<1>3. i \in Nat /\ j \in Nat /\ i # j BY <1>1, <1>2 DEF MapTypeOK, Run
<1>4. ~(i > j) BY <1>1, <1>2, <1>3 DEF InOrder, Run
<1>5. ~DoneUpTo(j - 1) BY <1>2, <1>3, <1>4 DEF DoneUpTo
<1>6. j > 1 /\ previous[o] = {asked[j - 1]} BY <1>1, <1>5 DEF ChainIsOrder
<1>7. stage[asked[j - 1]] = "done" BY <1>6 DEF Run
<1>8. j - 1 \in DOMAIN asked BY <1>1, <1>3, <1>6 DEF MapTypeOK
<1> QED BY <1>2, <1>3, <1>4, <1>7, <1>8 DEF InOrder

\* The chain of promises of one key implements the abstract lock.
THEOREM MapIsALock == MapSpec => MapImplementsLock
<1> DEFINE In == {o \in Operations : stage[o] = "running"}
           Out == {o \in Operations : stage[o] = "waiting"}
<1>1. MapInit => MapAsLock!Init
  BY DEF MapInit, MapAsLock!Init
<1>2. MapIInv /\ [MapNext]_mapVars => [MapAsLock!Next]_(MapAsLock!lockVars)
  <2> SUFFICES ASSUME MapIInv, [MapNext]_mapVars
               PROVE  [MapAsLock!Next]_(MapAsLock!lockVars)
    OBVIOUS
  <2> USE DEF MapAsLock!Next, MapAsLock!lockVars, MapAsLock!Ask, MapAsLock!Enter, MapAsLock!Leave
  <2>1. ASSUME NEW o \in Operations, Call(o) PROVE [MapAsLock!Next]_(MapAsLock!lockVars)
    <3>1. o \notin In /\ o \notin Out /\ In' = In /\ Out' = Out \cup {o}
      BY <2>1 DEF Call, MapIInv, MapTypeOK
    <3> QED BY <3>1
  <2>2. ASSUME NEW o \in Operations, Run(o) PROVE [MapAsLock!Next]_(MapAsLock!lockVars)
    <3>1. In = {} BY <2>2, RunFindsNobody
    <3>2. In' = {o} /\ Out' = Out \ {o} BY <2>2, <3>1 DEF Run, MapIInv, MapTypeOK
    <3> QED BY <3>1, <3>2
  <2>3. ASSUME NEW o \in Operations, Finish(o) PROVE [MapAsLock!Next]_(MapAsLock!lockVars)
    <3>1. ASSUME NEW p \in Operations, stage[p] = "running" PROVE p = o
      <4>1. PICK j \in DOMAIN asked : asked[j] = o BY <2>3 DEF AskedOnce, Finish, MapIInv
      <4>2. PICK i \in DOMAIN asked : asked[i] = p BY <3>1 DEF AskedOnce, MapIInv
      <4>3. i \in Nat /\ j \in Nat BY DEF MapIInv, MapTypeOK
      <4> QED BY <2>3, <3>1, <4>1, <4>2, <4>3 DEF InOrder, MapIInv, Finish
    <3>2. In = {o} BY <2>3, <3>1 DEF Finish
    <3>3. In' = {} /\ Out' = Out BY <2>3, <3>2 DEF Finish, MapIInv, MapTypeOK
    <3> QED BY <3>2, <3>3
  <2>4. CASE UNCHANGED mapVars BY <2>4 DEF mapVars
  <2> QED BY <2>1, <2>2, <2>3, <2>4 DEF MapNext
<1> QED BY <1>1, <1>2, MapSafe, PTL DEF MapSpec, MapImplementsLock, MapAsLock!Spec

\* Calls of withLock for one key run one at a time, in the order they were
\* made, however many there are and whenever the key leaves the Map.
THEOREM MapRunsInOrder == MapSpec => []InOrder
<1>1. MapIInv => InOrder BY DEF MapIInv
<1> QED BY <1>1, MapSafe, PTL
====
