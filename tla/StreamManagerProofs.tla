------------------------- MODULE StreamManagerProofs -------------------------
(***************************************************************************)
(* The control invariant StreamInv of StreamManager, for any number of     *)
(* messages and stop calls, and what follows from it: the mutex and        *)
(* ensureStreamSafety make a registration meet an empty slot, stream-abort *)
(* is the last event of its stream, and no stream exits in silence.        *)
(* MutexOK is inductive by itself; SlotOK needs MutexOK, because only the  *)
(* mutex keeps a second start from registering during the first one's      *)
(* temporary-directory await; CancelOK says who stands behind an aborted   *)
(* signal, which is what NoSilentExit needs at the loop's silent exit.     *)
(***************************************************************************)
EXTENDS StreamManager, TLAPS

\* The steps of the processing loop that neither exit nor abort.
Quiet(s) ==
    \/ Part(s) \/ PartLands(s) \/ ToolResult(s) \/ ResultDone(s)
    \/ TimerFires(s) \/ SoftCancel(s) \/ LoopEnds(s) \/ LoopRetries(s)
    \/ Fail(s) \/ Reset(s) \/ FinalFlush(s) \/ Check(s) \/ MetaDone(s)
    \/ DeletePartial(s) \/ UpdateHistory(s) \/ ErrorWrite(s)

\* They leave everything but the loop's own state alone and the stream live.
LEMMA QuietSteps ==
    ASSUME TypeOK, NEW s \in Streams, Quiet(s)
    PROVE  /\ UNCHANGED <<start, lock, pendingStart, registered, aborted, cancels, events>>
           /\ run' \in [Streams -> RunPC]
           /\ \A t \in Streams : run'[t] # run[t] => run[t] # "done"
           /\ \A t \in Streams : run'[t] = "off" <=> run[t] = "off"
           /\ \A t \in Streams : run'[t] = "done" <=> run[t] = "done"
  <1> USE DEF TypeOK, RunPC, startVars, streamVars, Goto
  <1>1. CASE Part(s)
    BY <1>1 DEF Part
  <1>2. CASE TimerFires(s)
    BY <1>2 DEF TimerFires
  <1>3. CASE SoftCancel(s)
    BY <1>3 DEF SoftCancel
  <1>4. CASE LoopEnds(s)
    BY <1>4 DEF LoopEnds
  <1>5. CASE LoopRetries(s)
    BY <1>5 DEF LoopRetries
  <1>6. CASE Fail(s)
    BY <1>6 DEF Fail
  <1>7. CASE Reset(s)
    BY <1>7 DEF Reset
  <1>8. CASE FinalFlush(s)
    BY <1>8 DEF FinalFlush
  <1>9. CASE Check(s)
    BY <1>9 DEF Check
  <1>10. CASE MetaDone(s)
    BY <1>10 DEF MetaDone
  <1>11. CASE DeletePartial(s)
    BY <1>11 DEF DeletePartial
  <1>12. CASE UpdateHistory(s)
    BY <1>12 DEF UpdateHistory
  <1>13. CASE ErrorWrite(s)
    BY <1>13 DEF ErrorWrite
  <1>14. CASE PartLands(s)
    BY <1>14 DEF PartLands
  <1>15. CASE ToolResult(s)
    BY <1>15 DEF ToolResult
  <1>16. CASE ResultDone(s)
    BY <1>16 DEF ResultDone
  <1> QED BY <1>1, <1>2, <1>3, <1>4, <1>5, <1>6, <1>7, <1>8, <1>9, <1>10, <1>11, <1>12, <1>13,
             <1>14, <1>15, <1>16 DEF Quiet

\* Moving a cancellation on changes its program counter and nothing else.
LEMMA AdvanceKeeps ==
    ASSUME TypeOK, NEW x \in cancels, NEW pc \in CancelPC, Advance(x, pc)
    PROVE  /\ \A y \in cancels' : y \in cancels
                 \/ (y.by = x.by /\ y.stream = x.stream /\ y.pc = pc)
           /\ \A y \in cancels :
                 \E z \in cancels' : z.by = y.by /\ z.stream = y.stream
           /\ cancels' \subseteq [by : Callers, stream : Streams, pc : CancelPC]
  <1> DEFINE z == [x EXCEPT !.pc = pc]
  <1>1. /\ x \in [by : Callers, stream : Streams, pc : CancelPC]
        /\ cancels \subseteq [by : Callers, stream : Streams, pc : CancelPC]
    BY DEF TypeOK
  <1>2. /\ z \in [by : Callers, stream : Streams, pc : CancelPC]
        /\ z.by = x.by /\ z.stream = x.stream /\ z.pc = pc
    BY <1>1
  <1>3. cancels' = (cancels \ {x}) \cup {z}
    BY DEF Advance
  <1> HIDE DEF z
  <1> QED BY <1>1, <1>2, <1>3

\* Every action keeps the variables in their types.
LEMMA TypeStep == TypeOK /\ [Next]_vars => TypeOK'
  <1> SUFFICES ASSUME TypeOK, [Next]_vars PROVE TypeOK'
    OBVIOUS
  <1> USE StreamAssumption
      DEF TypeOK, StartPC, State, RunPC, Callers, CancelPC, Event, startVars, streamVars
  <1>1. ASSUME NEW s \in Streams, RequestStart(s) PROVE TypeOK'
    BY <1>1 DEF RequestStart
  <1>2. ASSUME NEW s \in Streams, Acquire(s) PROVE TypeOK'
    BY <1>2 DEF Acquire
  <1>3. ASSUME NEW s \in Streams, EnsureCancels(s) PROVE TypeOK'
    BY <1>3 DEF EnsureCancels, BeginCancel
  <1>4. ASSUME NEW s \in Streams, EnsureDone(s) PROVE TypeOK'
    BY <1>4 DEF EnsureDone, Return, CancelsBy
  <1>5. ASSUME NEW s \in Streams, StartDropped(s) PROVE TypeOK'
    BY <1>5 DEF StartDropped, Return
  <1>6. ASSUME NEW s \in Streams, StartFailed(s) PROVE TypeOK'
    BY <1>6 DEF StartFailed, Return
  <1>7. ASSUME NEW s \in Streams, Register(s) PROVE TypeOK'
    BY <1>7 DEF Register, Return
  <1>8. ASSUME NEW s \in Streams, PartLands(s) PROVE TypeOK'
    <2>1. /\ parts[s] + 1 \in 0..MaxParts
          /\ run' = [run EXCEPT ![s] = "loop"]
          /\ parts' = [parts EXCEPT ![s] = @ + 1]
      BY <1>8 DEF PartLands, Goto
    <2>2. /\ parts' \in [Streams -> 0..MaxParts]
          /\ run' \in [Streams -> RunPC]
          /\ \A t \in Streams : run'[t] = "part" => parts'[t] < MaxParts
      BY <2>1
    <2>3. timer' \in [Streams -> BOOLEAN]
      BY <1>8 DEF PartLands
    <2>4. partial' \in [stream : Streams \cup {NoStream}, parts : 0..MaxParts, error : BOOLEAN]
      <3>1. UNCHANGED partial \/ partial' = [stream |-> s, parts |-> parts[s] + 1, error |-> FALSE]
        BY <1>8 DEF PartLands
      <3>2. [stream |-> s, parts |-> parts[s] + 1, error |-> FALSE]
               \in [stream : Streams \cup {NoStream}, parts : 0..MaxParts, error : BOOLEAN]
        BY <2>1
      <3> QED BY <3>1, <3>2
    <2> QED BY <1>8, <2>2, <2>3, <2>4 DEF PartLands
  <1>9. ASSUME NEW s \in Streams, TimerFires(s) PROVE TypeOK'
    BY <1>9 DEF TimerFires, PartialOf
  <1>10. ASSUME NEW s \in Streams, SoftCancel(s) PROVE TypeOK'
    BY <1>10 DEF SoftCancel, Goto
  <1>11. ASSUME NEW s \in Streams, LoopEnds(s) PROVE TypeOK'
    BY <1>11 DEF LoopEnds, Goto
  <1>12. ASSUME NEW s \in Streams, LoopRetries(s) PROVE TypeOK'
    BY <1>12 DEF LoopRetries, Goto
  <1>13. ASSUME NEW s \in Streams, Fail(s) PROVE TypeOK'
    BY <1>13 DEF Fail, Goto
  <1>14. ASSUME NEW s \in Streams, SoftFlush(s) PROVE TypeOK'
    BY <1>14 DEF SoftFlush, Goto, PartialOf
  <1>15. ASSUME NEW s \in Streams, Reset(s) PROVE TypeOK'
    BY <1>15 DEF Reset, Goto, NoPartial
  <1>16. ASSUME NEW s \in Streams, FinalFlush(s) PROVE TypeOK'
    BY <1>16 DEF FinalFlush, Goto, PartialOf
  <1>17. ASSUME NEW s \in Streams, Check(s) PROVE TypeOK'
    BY <1>17 DEF Check, Goto
  <1>18. ASSUME NEW s \in Streams, MetaDone(s) PROVE TypeOK'
    BY <1>18 DEF MetaDone, Goto
  <1>19. ASSUME NEW s \in Streams, DeletePartial(s) PROVE TypeOK'
    BY <1>19 DEF DeletePartial, Goto, NoPartial
  <1>20. ASSUME NEW s \in Streams, UpdateHistory(s) PROVE TypeOK'
    BY <1>20 DEF UpdateHistory, Goto
  <1>21. ASSUME NEW s \in Streams, AbortedExit(s) PROVE TypeOK'
    BY <1>21 DEF AbortedExit, Finally, Goto
  <1>22. ASSUME NEW s \in Streams, End(s) PROVE TypeOK'
    BY <1>22 DEF End, Finally, Goto
  <1>23. ASSUME NEW s \in Streams, ErrorWrite(s) PROVE TypeOK'
    BY <1>23 DEF ErrorWrite, Goto, PartialOf
  <1>24. ASSUME NEW s \in Streams, ErrorEmit(s) PROVE TypeOK'
    BY <1>24 DEF ErrorEmit, Finally, Goto
  <1>25. ASSUME NEW x \in cancels, CancelFlush(x) PROVE TypeOK'
    BY <1>25 DEF CancelFlush, PartialOf, Advance
  <1>26. ASSUME NEW x \in cancels, CancelAbort(x) PROVE TypeOK'
    BY <1>26 DEF CancelAbort, Advance
  <1>27. ASSUME NEW x \in cancels, CancelJoin(x) PROVE TypeOK'
    BY <1>27 DEF CancelJoin, Advance
  <1>28. ASSUME NEW x \in cancels, CancelFinish(x) PROVE TypeOK'
    BY <1>28 DEF CancelFinish
  <1>29. ASSUME NEW k \in stops, StopNothing(k) PROVE TypeOK'
    BY <1>29 DEF StopNothing, AbortPending
  <1>30. ASSUME NEW k \in stops, StopSoft(k) PROVE TypeOK'
    BY <1>30 DEF StopSoft, AbortPending
  <1>31. ASSUME NEW k \in stops, StopHard(k) PROVE TypeOK'
    BY <1>31 DEF StopHard, AbortPending, BeginCancel
  <1>32. ASSUME NEW s \in Streams, Part(s) PROVE TypeOK'
    BY <1>32 DEF Part, Goto
  <1>33. ASSUME NEW s \in Streams, ToolResult(s) PROVE TypeOK'
    BY <1>33 DEF ToolResult, Goto, PartialOf
  <1>34. ASSUME NEW s \in Streams, ResultDone(s) PROVE TypeOK'
    BY <1>34 DEF ResultDone, Goto
  <1>35. CASE UNCHANGED vars
    BY <1>35 DEF vars
  <1> QED BY <1>1, <1>2, <1>3, <1>4, <1>5, <1>6, <1>7, <1>8, <1>9, <1>10, <1>11, <1>12, <1>13,
             <1>14, <1>15, <1>16, <1>17, <1>18, <1>19, <1>20, <1>21, <1>22, <1>23, <1>24, <1>25,
             <1>26, <1>27, <1>28, <1>29, <1>30, <1>31, <1>32, <1>33, <1>34, <1>35 DEF Next, StartStep, Process,
             Finish, CancelStep

\* The initial states satisfy the invariant.
LEMMA InitInv == Init => StreamInv
  <1> SUFFICES ASSUME Init PROVE StreamInv
    OBVIOUS
  <1> USE StreamAssumption DEF Init
  <1>1. TypeOK
    <2>1. 0 \in 0..MaxParts
      OBVIOUS
    <2>2. /\ parts \in [Streams -> 0..MaxParts]
          /\ partial \in [stream : Streams \cup {NoStream}, parts : 0..MaxParts, error : BOOLEAN]
      BY <2>1 DEF NoPartial
    <2>3. /\ aborted \in [Streams -> BOOLEAN]
          /\ softInterrupt \in [Streams -> BOOLEAN]
          /\ timer \in [Streams -> BOOLEAN]
          /\ retried \in [Streams -> BOOLEAN]
      OBVIOUS
    <2>4. /\ start \in [Streams -> StartPC]
          /\ state \in [Streams -> State]
          /\ run \in [Streams -> RunPC]
          /\ events \in [Streams -> SUBSET Event]
      BY DEF StartPC, State, RunPC
    <2>5. /\ lock \in Streams \cup {NoStream}
          /\ pendingStart \in Streams \cup {NoStream}
          /\ registered \in Streams \cup {NoStream}
          /\ stops \subseteq Stoppers
          /\ cancels \subseteq [by : Callers, stream : Streams, pc : CancelPC]
      OBVIOUS
    <2> QED BY <2>2, <2>3, <2>4, <2>5 DEF TypeOK
  <1>2. MutexOK
    BY DEF MutexOK
  <1>3. RunOK
    BY DEF RunOK
  <1>4. SlotOK
    BY DEF SlotOK
  <1>5. CancelOK
    BY DEF CancelOK
  <1>6. NoSilentExit
    BY DEF NoSilentExit
  <1> QED BY <1>1, <1>2, <1>3, <1>4, <1>5, <1>6 DEF StreamInv

\* The mutex and the pending start follow the calls.
LEMMA MutexStep == TypeOK /\ MutexOK /\ [Next]_vars => MutexOK'
  <1> SUFFICES ASSUME TypeOK, MutexOK, [Next]_vars PROVE MutexOK'
    OBVIOUS
  <1> USE StreamAssumption
      DEF TypeOK, RunPC, Callers, CancelPC, Event, startVars, streamVars, StartPC, MutexOK,
          Starting
  <1>1. ASSUME NEW s \in Streams, RequestStart(s) PROVE MutexOK'
    BY <1>1 DEF RequestStart
  <1>2. ASSUME NEW s \in Streams, Acquire(s) PROVE MutexOK'
    BY <1>2 DEF Acquire
  <1>3. ASSUME NEW s \in Streams, EnsureCancels(s) PROVE MutexOK'
    BY <1>3 DEF EnsureCancels, BeginCancel
  <1>4. ASSUME NEW s \in Streams, EnsureDone(s) PROVE MutexOK'
    BY <1>4 DEF EnsureDone, Return
  <1>5. ASSUME NEW s \in Streams, StartDropped(s) PROVE MutexOK'
    BY <1>5 DEF StartDropped, Return
  <1>6. ASSUME NEW s \in Streams, StartFailed(s) PROVE MutexOK'
    BY <1>6 DEF StartFailed, Return
  <1>7. ASSUME NEW s \in Streams, Register(s) PROVE MutexOK'
    BY <1>7 DEF Register, Return
  <1>8. ASSUME NEW s \in Streams, Quiet(s) PROVE MutexOK'
    BY <1>8, QuietSteps
  <1>9. ASSUME NEW s \in Streams, SoftFlush(s) PROVE MutexOK'
    BY <1>9 DEF SoftFlush, Goto
  <1>10. ASSUME NEW s \in Streams, AbortedExit(s) PROVE MutexOK'
    BY <1>10 DEF AbortedExit, Finally, Goto
  <1>11. ASSUME NEW s \in Streams, End(s) PROVE MutexOK'
    BY <1>11 DEF End, Finally, Goto
  <1>12. ASSUME NEW s \in Streams, ErrorEmit(s) PROVE MutexOK'
    BY <1>12 DEF ErrorEmit, Finally, Goto
  <1>13. ASSUME NEW x \in cancels, CancelFlush(x) PROVE MutexOK'
    BY <1>13, AdvanceKeeps DEF CancelFlush
  <1>14. ASSUME NEW x \in cancels, CancelAbort(x) PROVE MutexOK'
    BY <1>14, AdvanceKeeps DEF CancelAbort
  <1>15. ASSUME NEW x \in cancels, CancelJoin(x) PROVE MutexOK'
    BY <1>15, AdvanceKeeps DEF CancelJoin
  <1>16. ASSUME NEW x \in cancels, CancelFinish(x) PROVE MutexOK'
    BY <1>16 DEF CancelFinish
  <1>17. ASSUME NEW k \in stops, StopNothing(k) PROVE MutexOK'
    BY <1>17 DEF StopNothing, AbortPending
  <1>18. ASSUME NEW k \in stops, StopSoft(k) PROVE MutexOK'
    BY <1>18 DEF StopSoft, AbortPending
  <1>19. ASSUME NEW k \in stops, StopHard(k) PROVE MutexOK'
    BY <1>19 DEF StopHard, AbortPending, BeginCancel
  <1>20. CASE UNCHANGED vars
    BY <1>20 DEF vars
  <1> QED BY <1>1, <1>2, <1>3, <1>4, <1>5, <1>6, <1>7, <1>8, <1>9, <1>10, <1>11, <1>12, <1>13,
             <1>14, <1>15, <1>16, <1>17, <1>18, <1>19, <1>20
         DEF Next, StartStep, Process, Finish, CancelStep, Quiet

\* A stream's program counter, its start and its events stay together.
LEMMA RunStep == TypeOK /\ MutexOK /\ RunOK /\ CancelOK /\ [Next]_vars => RunOK'
  <1> SUFFICES ASSUME TypeOK, MutexOK, RunOK, CancelOK, [Next]_vars PROVE RunOK'
    OBVIOUS
  <1> USE StreamAssumption
      DEF TypeOK, RunPC, Callers, CancelPC, Event, startVars, streamVars, StartPC, MutexOK,
          Starting, RunOK, CancelOK, Live
  <1>1. ASSUME NEW s \in Streams, RequestStart(s) PROVE RunOK'
    BY <1>1 DEF RequestStart
  <1>2. ASSUME NEW s \in Streams, Acquire(s) PROVE RunOK'
    BY <1>2 DEF Acquire
  <1>3. ASSUME NEW s \in Streams, EnsureCancels(s) PROVE RunOK'
    BY <1>3 DEF EnsureCancels, BeginCancel
  <1>4. ASSUME NEW s \in Streams, EnsureDone(s) PROVE RunOK'
    BY <1>4 DEF EnsureDone, Return
  <1>5. ASSUME NEW s \in Streams, StartDropped(s) PROVE RunOK'
    BY <1>5 DEF StartDropped, Return
  <1>6. ASSUME NEW s \in Streams, StartFailed(s) PROVE RunOK'
    BY <1>6 DEF StartFailed, Return
  <1>7. ASSUME NEW s \in Streams, Register(s) PROVE RunOK'
    BY <1>7 DEF Register, Return
  <1>8. ASSUME NEW s \in Streams, Quiet(s) PROVE RunOK'
    BY <1>8, QuietSteps
  <1>9. ASSUME NEW s \in Streams, SoftFlush(s) PROVE RunOK'
    BY <1>9 DEF SoftFlush, Goto
  <1>10. ASSUME NEW s \in Streams, AbortedExit(s) PROVE RunOK'
    BY <1>10 DEF AbortedExit, Finally, Goto
  <1>11. ASSUME NEW s \in Streams, End(s) PROVE RunOK'
    BY <1>11 DEF End, Finally, Goto
  <1>12. ASSUME NEW s \in Streams, ErrorEmit(s) PROVE RunOK'
    BY <1>12 DEF ErrorEmit, Finally, Goto
  <1>13. ASSUME NEW x \in cancels, CancelFlush(x) PROVE RunOK'
    BY <1>13, AdvanceKeeps DEF CancelFlush
  <1>14. ASSUME NEW x \in cancels, CancelAbort(x) PROVE RunOK'
    BY <1>14, AdvanceKeeps DEF CancelAbort
  <1>15. ASSUME NEW x \in cancels, CancelJoin(x) PROVE RunOK'
    BY <1>15, AdvanceKeeps DEF CancelJoin
  <1>16. ASSUME NEW x \in cancels, CancelFinish(x) PROVE RunOK'
    BY <1>16 DEF CancelFinish
  <1>17. ASSUME NEW k \in stops, StopNothing(k) PROVE RunOK'
    BY <1>17 DEF StopNothing, AbortPending
  <1>18. ASSUME NEW k \in stops, StopSoft(k) PROVE RunOK'
    BY <1>18 DEF StopSoft, AbortPending
  <1>19. ASSUME NEW k \in stops, StopHard(k) PROVE RunOK'
    BY <1>19 DEF StopHard, AbortPending, BeginCancel
  <1>20. CASE UNCHANGED vars
    BY <1>20 DEF vars
  <1> QED BY <1>1, <1>2, <1>3, <1>4, <1>5, <1>6, <1>7, <1>8, <1>9, <1>10, <1>11, <1>12, <1>13,
             <1>14, <1>15, <1>16, <1>17, <1>18, <1>19, <1>20
         DEF Next, StartStep, Process, Finish, CancelStep, Quiet

\* No stream is registered behind the back of the start that holds the mutex.
LEMMA SlotStep == TypeOK /\ MutexOK /\ SlotOK /\ [Next]_vars => SlotOK'
  <1> SUFFICES ASSUME TypeOK, MutexOK, SlotOK, [Next]_vars PROVE SlotOK'
    OBVIOUS
  <1> USE StreamAssumption
      DEF TypeOK, RunPC, Callers, CancelPC, Event, startVars, streamVars, StartPC, MutexOK,
          SlotOK, Starting, CancelsBy
  <1>1. ASSUME NEW s \in Streams, RequestStart(s) PROVE SlotOK'
    BY <1>1 DEF RequestStart
  <1>2. ASSUME NEW s \in Streams, Acquire(s) PROVE SlotOK'
    BY <1>2 DEF Acquire
  <1>3. ASSUME NEW s \in Streams, EnsureCancels(s) PROVE SlotOK'
    <2>1. /\ UNCHANGED <<lock, registered>>
          /\ start' = [start EXCEPT ![s] = "wait"]
          /\ start[s] = "ensure"
          /\ cancels \subseteq cancels'
          /\ \E x \in cancels' : x.by = s
      <3>1. [by |-> s, stream |-> registered, pc |-> "flush"] \in cancels'
        BY <1>3 DEF EnsureCancels, BeginCancel
      <3>2. [by |-> s, stream |-> registered, pc |-> "flush"].by = s
        OBVIOUS
      <3> QED BY <1>3, <3>1, <3>2 DEF EnsureCancels, BeginCancel
    <2>2. CancelsBy(s)' # {}
      BY <2>1
    <2>3. \A t \in Streams : CancelsBy(t) # {} => CancelsBy(t)' # {}
      BY <2>1
    <2> QED BY <2>1, <2>2, <2>3
  <1>4. ASSUME NEW s \in Streams, EnsureDone(s) PROVE SlotOK'
    BY <1>4 DEF EnsureDone, Return
  <1>5. ASSUME NEW s \in Streams, StartDropped(s) PROVE SlotOK'
    BY <1>5 DEF StartDropped, Return
  <1>6. ASSUME NEW s \in Streams, StartFailed(s) PROVE SlotOK'
    BY <1>6 DEF StartFailed, Return
  <1>7. ASSUME NEW s \in Streams, Register(s) PROVE SlotOK'
    BY <1>7 DEF Register, Return
  <1>8. ASSUME NEW s \in Streams, Quiet(s) PROVE SlotOK'
    BY <1>8, QuietSteps
  <1>9. ASSUME NEW s \in Streams, SoftFlush(s) PROVE SlotOK'
    BY <1>9 DEF SoftFlush, Goto
  <1>10. ASSUME NEW s \in Streams, AbortedExit(s) PROVE SlotOK'
    BY <1>10 DEF AbortedExit, Finally, Goto
  <1>11. ASSUME NEW s \in Streams, End(s) PROVE SlotOK'
    BY <1>11 DEF End, Finally, Goto
  <1>12. ASSUME NEW s \in Streams, ErrorEmit(s) PROVE SlotOK'
    BY <1>12 DEF ErrorEmit, Finally, Goto
  <1>13. ASSUME NEW x \in cancels, CancelFlush(x) PROVE SlotOK'
    BY <1>13, AdvanceKeeps DEF CancelFlush
  <1>14. ASSUME NEW x \in cancels, CancelAbort(x) PROVE SlotOK'
    BY <1>14, AdvanceKeeps DEF CancelAbort
  <1>15. ASSUME NEW x \in cancels, CancelJoin(x) PROVE SlotOK'
    BY <1>15, AdvanceKeeps DEF CancelJoin
  <1>16. ASSUME NEW x \in cancels, CancelFinish(x) PROVE SlotOK'
    BY <1>16 DEF CancelFinish
  <1>17. ASSUME NEW k \in stops, StopNothing(k) PROVE SlotOK'
    BY <1>17 DEF StopNothing, AbortPending
  <1>18. ASSUME NEW k \in stops, StopSoft(k) PROVE SlotOK'
    BY <1>18 DEF StopSoft, AbortPending
  <1>19. ASSUME NEW k \in stops, StopHard(k) PROVE SlotOK'
    BY <1>19 DEF StopHard, AbortPending, BeginCancel
  <1>20. CASE UNCHANGED vars
    BY <1>20 DEF vars
  <1> QED BY <1>1, <1>2, <1>3, <1>4, <1>5, <1>6, <1>7, <1>8, <1>9, <1>10, <1>11, <1>12, <1>13,
             <1>14, <1>15, <1>16, <1>17, <1>18, <1>19, <1>20
         DEF Next, StartStep, Process, Finish, CancelStep, Quiet

\* Every aborted live stream has a cancellation that will report it.
LEMMA CancelStepOK == TypeOK /\ MutexOK /\ RunOK /\ CancelOK /\ [Next]_vars => CancelOK'
  <1> SUFFICES ASSUME TypeOK, MutexOK, RunOK, CancelOK, [Next]_vars PROVE CancelOK'
    OBVIOUS
  <1> USE StreamAssumption
      DEF TypeOK, RunPC, Callers, CancelPC, Event, startVars, streamVars, StartPC, MutexOK,
          Starting, RunOK, CancelOK, Live, CancelsBy
  <1>1. ASSUME NEW s \in Streams, RequestStart(s) PROVE CancelOK'
    BY <1>1 DEF RequestStart
  <1>2. ASSUME NEW s \in Streams, Acquire(s) PROVE CancelOK'
    BY <1>2 DEF Acquire
  <1>3. ASSUME NEW s \in Streams, EnsureCancels(s) PROVE CancelOK'
    BY <1>3 DEF EnsureCancels, BeginCancel
  <1>4. ASSUME NEW s \in Streams, EnsureDone(s) PROVE CancelOK'
    BY <1>4 DEF EnsureDone, Return
  <1>5. ASSUME NEW s \in Streams, StartDropped(s) PROVE CancelOK'
    BY <1>5 DEF StartDropped, Return
  <1>6. ASSUME NEW s \in Streams, StartFailed(s) PROVE CancelOK'
    BY <1>6 DEF StartFailed, Return
  <1>7. ASSUME NEW s \in Streams, Register(s) PROVE CancelOK'
    BY <1>7 DEF Register, Return
  <1>8. ASSUME NEW s \in Streams, Quiet(s) PROVE CancelOK'
    BY <1>8, QuietSteps
  <1>9. ASSUME NEW s \in Streams, SoftFlush(s) PROVE CancelOK'
    <2> DEFINE c == [by |-> "soft", stream |-> s, pc |-> "wait"]
    <2>1. c.by = "soft" /\ c.stream = s /\ c.pc = "wait"
      OBVIOUS
    <2>2. cancels' = cancels \cup {c}
      BY <1>9 DEF SoftFlush
    <2> HIDE DEF c
    <2>3. /\ UNCHANGED start
          /\ run' = [run EXCEPT ![s] = "loop"]
          /\ run[s] = "softflush"
          /\ aborted' = [aborted EXCEPT ![s] = TRUE]
      BY <1>9 DEF SoftFlush, Goto
    <2>4. \A x \in cancels' :
             /\ run'[x.stream] # "off"
             /\ x.pc = "record" => run'[x.stream] = "done"
             /\ x.by \in Streams => start'[x.by] = "wait"
      BY <2>1, <2>2, <2>3
    <2>5. \A t \in Streams : aborted'[t] /\ run'[t] \notin {"off", "done"} =>
             \E x \in cancels' : x.stream = t
      BY <2>1, <2>2, <2>3
    <2> QED BY <2>4, <2>5
  <1>10. ASSUME NEW s \in Streams, AbortedExit(s) PROVE CancelOK'
    BY <1>10 DEF AbortedExit, Finally, Goto
  <1>11. ASSUME NEW s \in Streams, End(s) PROVE CancelOK'
    BY <1>11 DEF End, Finally, Goto
  <1>12. ASSUME NEW s \in Streams, ErrorEmit(s) PROVE CancelOK'
    BY <1>12 DEF ErrorEmit, Finally, Goto
  <1>13. ASSUME NEW x \in cancels, CancelFlush(x) PROVE CancelOK'
    BY <1>13, AdvanceKeeps DEF CancelFlush
  <1>14. ASSUME NEW x \in cancels, CancelAbort(x) PROVE CancelOK'
    BY <1>14, AdvanceKeeps DEF CancelAbort
  <1>15. ASSUME NEW x \in cancels, CancelJoin(x) PROVE CancelOK'
    BY <1>15, AdvanceKeeps DEF CancelJoin
  <1>16. ASSUME NEW x \in cancels, CancelFinish(x) PROVE CancelOK'
    BY <1>16 DEF CancelFinish
  <1>17. ASSUME NEW k \in stops, StopNothing(k) PROVE CancelOK'
    BY <1>17 DEF StopNothing, AbortPending
  <1>18. ASSUME NEW k \in stops, StopSoft(k) PROVE CancelOK'
    BY <1>18 DEF StopSoft, AbortPending
  <1>19. ASSUME NEW k \in stops, StopHard(k) PROVE CancelOK'
    BY <1>19 DEF StopHard, AbortPending, BeginCancel
  <1>20. CASE UNCHANGED vars
    BY <1>20 DEF vars
  <1> QED BY <1>1, <1>2, <1>3, <1>4, <1>5, <1>6, <1>7, <1>8, <1>9, <1>10, <1>11, <1>12, <1>13,
             <1>14, <1>15, <1>16, <1>17, <1>18, <1>19, <1>20
         DEF Next, StartStep, Process, Finish, CancelStep, Quiet

\* A stream that exits has emitted a last event or has a cancellation.
LEMMA ExitStep == TypeOK /\ RunOK /\ CancelOK /\ NoSilentExit /\ [Next]_vars => NoSilentExit'
  <1> SUFFICES ASSUME TypeOK, RunOK, CancelOK, NoSilentExit, [Next]_vars PROVE NoSilentExit'
    OBVIOUS
  <1> USE StreamAssumption
      DEF TypeOK, RunPC, Callers, CancelPC, Event, startVars, streamVars, RunOK, CancelOK, Live,
          NoSilentExit
  <1>1. ASSUME NEW s \in Streams, RequestStart(s) PROVE NoSilentExit'
    BY <1>1 DEF RequestStart
  <1>2. ASSUME NEW s \in Streams, Acquire(s) PROVE NoSilentExit'
    BY <1>2 DEF Acquire
  <1>3. ASSUME NEW s \in Streams, EnsureCancels(s) PROVE NoSilentExit'
    BY <1>3 DEF EnsureCancels, BeginCancel
  <1>4. ASSUME NEW s \in Streams, EnsureDone(s) PROVE NoSilentExit'
    BY <1>4 DEF EnsureDone, Return
  <1>5. ASSUME NEW s \in Streams, StartDropped(s) PROVE NoSilentExit'
    BY <1>5 DEF StartDropped, Return
  <1>6. ASSUME NEW s \in Streams, StartFailed(s) PROVE NoSilentExit'
    BY <1>6 DEF StartFailed, Return
  <1>7. ASSUME NEW s \in Streams, Register(s) PROVE NoSilentExit'
    BY <1>7 DEF Register, Return
  <1>8. ASSUME NEW s \in Streams, Quiet(s) PROVE NoSilentExit'
    BY <1>8, QuietSteps
  <1>9. ASSUME NEW s \in Streams, SoftFlush(s) PROVE NoSilentExit'
    BY <1>9 DEF SoftFlush, Goto
  <1>10. ASSUME NEW s \in Streams, AbortedExit(s) PROVE NoSilentExit'
    BY <1>10 DEF AbortedExit, Finally, Goto
  <1>11. ASSUME NEW s \in Streams, End(s) PROVE NoSilentExit'
    <2>1. /\ UNCHANGED cancels
          /\ \A t \in Streams : events[t] \subseteq events'[t]
          /\ "end" \in events'[s]
          /\ \A t \in Streams : t # s => run'[t] = run[t]
      BY <1>11 DEF End, Finally, Goto
    <2> QED BY <2>1
  <1>12. ASSUME NEW s \in Streams, ErrorEmit(s) PROVE NoSilentExit'
    <2>1. /\ UNCHANGED cancels
          /\ \A t \in Streams : events[t] \subseteq events'[t]
          /\ "error" \in events'[s]
          /\ \A t \in Streams : t # s => run'[t] = run[t]
      BY <1>12 DEF ErrorEmit, Finally, Goto
    <2> QED BY <2>1
  <1>13. ASSUME NEW x \in cancels, CancelFlush(x) PROVE NoSilentExit'
    BY <1>13, AdvanceKeeps DEF CancelFlush
  <1>14. ASSUME NEW x \in cancels, CancelAbort(x) PROVE NoSilentExit'
    BY <1>14, AdvanceKeeps DEF CancelAbort
  <1>15. ASSUME NEW x \in cancels, CancelJoin(x) PROVE NoSilentExit'
    BY <1>15, AdvanceKeeps DEF CancelJoin
  <1>16. ASSUME NEW x \in cancels, CancelFinish(x) PROVE NoSilentExit'
    BY <1>16 DEF CancelFinish
  <1>17. ASSUME NEW k \in stops, StopNothing(k) PROVE NoSilentExit'
    BY <1>17 DEF StopNothing, AbortPending
  <1>18. ASSUME NEW k \in stops, StopSoft(k) PROVE NoSilentExit'
    BY <1>18 DEF StopSoft, AbortPending
  <1>19. ASSUME NEW k \in stops, StopHard(k) PROVE NoSilentExit'
    BY <1>19 DEF StopHard, AbortPending, BeginCancel
  <1>20. CASE UNCHANGED vars
    BY <1>20 DEF vars
  <1> QED BY <1>1, <1>2, <1>3, <1>4, <1>5, <1>6, <1>7, <1>8, <1>9, <1>10, <1>11, <1>12, <1>13,
             <1>14, <1>15, <1>16, <1>17, <1>18, <1>19, <1>20
         DEF Next, StartStep, Process, Finish, CancelStep, Quiet

\* The control invariant of a workspace's streams holds in every reachable state:
\* types, mutex, program counters, slot and cancellations agree.
THEOREM StreamInvAlways == Spec => []StreamInv
  <1>1. StreamInv /\ [Next]_vars => StreamInv'
    BY TypeStep, MutexStep, RunStep, SlotStep, CancelStepOK, ExitStep DEF StreamInv
  <1> QED BY InitInv, <1>1, PTL DEF Spec

\* A stream whose processing loop is over has reported its end, error or abort, or a
\* cleanup that is still running will report the abort.
THEOREM NoStreamExitsSilently == Spec => []NoSilentExit
  <1>1. StreamInv => NoSilentExit
    BY DEF StreamInv
  <1> QED BY StreamInvAlways, <1>1, PTL

\* createStreamAtomically never overwrites a registered stream, and the call that
\* registers holds the mutex with no cancellation of its own left running.
THEOREM RegistrationIsExclusive == Spec => RegistersOnlyWhenFree
  <1> DEFINE Exclusive ==
        registered' \notin {registered, NoStream} =>
            /\ registered = NoStream
            /\ lock = registered'
            /\ CancelsBy(registered') = {}
  <1>1. ASSUME StreamInv, [Next]_vars, registered' \notin {registered, NoStream}
        PROVE  \E s \in Streams : Register(s)
    <2> USE <1>1 DEF startVars, streamVars
    <2>1. ASSUME NEW s \in Streams, Quiet(s) PROVE UNCHANGED registered
      BY <2>1, QuietSteps DEF StreamInv
    <2>2. ASSUME NEW s \in Streams, RequestStart(s) PROVE registered' \in {registered, NoStream}
      BY <2>2 DEF RequestStart
    <2>3. ASSUME NEW s \in Streams, Acquire(s) PROVE registered' \in {registered, NoStream}
      BY <2>3 DEF Acquire
    <2>4. ASSUME NEW s \in Streams, EnsureCancels(s) PROVE registered' \in {registered, NoStream}
      BY <2>4 DEF EnsureCancels, BeginCancel
    <2>5. ASSUME NEW s \in Streams, EnsureDone(s) PROVE registered' \in {registered, NoStream}
      BY <2>5 DEF EnsureDone, Return
    <2>6. ASSUME NEW s \in Streams, StartDropped(s) PROVE registered' \in {registered, NoStream}
      BY <2>6 DEF StartDropped, Return
    <2>7. ASSUME NEW s \in Streams, StartFailed(s) PROVE registered' \in {registered, NoStream}
      BY <2>7 DEF StartFailed, Return
    <2>8. ASSUME NEW s \in Streams, SoftFlush(s) PROVE registered' \in {registered, NoStream}
      BY <2>8 DEF SoftFlush, Goto
    <2>9. ASSUME NEW s \in Streams, AbortedExit(s) PROVE registered' \in {registered, NoStream}
      BY <2>9 DEF AbortedExit, Finally, Goto
    <2>10. ASSUME NEW s \in Streams, End(s) PROVE registered' \in {registered, NoStream}
      BY <2>10 DEF End, Finally, Goto
    <2>11. ASSUME NEW s \in Streams, ErrorEmit(s) PROVE registered' \in {registered, NoStream}
      BY <2>11 DEF ErrorEmit, Finally, Goto
    <2>12. ASSUME NEW x \in cancels, CancelFlush(x) PROVE registered' \in {registered, NoStream}
      BY <2>12 DEF CancelFlush
    <2>13. ASSUME NEW x \in cancels, CancelAbort(x) PROVE registered' \in {registered, NoStream}
      BY <2>13 DEF CancelAbort
    <2>14. ASSUME NEW x \in cancels, CancelJoin(x) PROVE registered' \in {registered, NoStream}
      BY <2>14 DEF CancelJoin
    <2>15. ASSUME NEW x \in cancels, CancelFinish(x) PROVE registered' \in {registered, NoStream}
      BY <2>15 DEF CancelFinish
    <2>16. ASSUME NEW k \in stops, StopNothing(k) PROVE registered' \in {registered, NoStream}
      BY <2>16 DEF StopNothing, AbortPending
    <2>17. ASSUME NEW k \in stops, StopSoft(k) PROVE registered' \in {registered, NoStream}
      BY <2>17 DEF StopSoft, AbortPending
    <2>18. ASSUME NEW k \in stops, StopHard(k) PROVE registered' \in {registered, NoStream}
      BY <2>18 DEF StopHard, AbortPending, BeginCancel
    <2>19. CASE UNCHANGED vars
      BY <2>19 DEF vars
    <2> QED BY <2>2, <2>3, <2>4, <2>5, <2>6, <2>7, <2>8, <2>9, <2>10, <2>11, <2>12, <2>13,
               <2>14, <2>15, <2>16, <2>17, <2>18, <2>19, <2>1 DEF Next, StartStep, Process,
               Finish, CancelStep, Quiet
  <1>2. ASSUME StreamInv, NEW s \in Streams, Register(s) PROVE Exclusive
    BY <1>2 DEF Register, StreamInv, MutexOK, SlotOK, CancelOK, CancelsBy, TypeOK
  <1>3. StreamInv /\ [Next]_vars => [Exclusive]_vars
    BY <1>1, <1>2
  <1> QED BY StreamInvAlways, <1>3, PTL DEF Spec, RegistersOnlyWhenFree

\* stream-abort is the last event of its stream and its loop does nothing more.
THEOREM AbortIsLast == Spec => NothingAfterAbort
  <1>1. StreamInv /\ [Next]_vars => [QuietOnceAborted]_vars
    <2> SUFFICES ASSUME StreamInv, Next PROVE QuietOnceAborted
      BY DEF vars
    <2> USE DEF startVars, streamVars, StreamInv, TypeOK, RunOK, QuietOnceAborted
    <2>1. ASSUME NEW s \in Streams, RequestStart(s) PROVE QuietOnceAborted
      BY <2>1 DEF RequestStart
    <2>2. ASSUME NEW s \in Streams, Acquire(s) PROVE QuietOnceAborted
      BY <2>2 DEF Acquire
    <2>3. ASSUME NEW s \in Streams, EnsureCancels(s) PROVE QuietOnceAborted
      BY <2>3 DEF EnsureCancels, BeginCancel
    <2>4. ASSUME NEW s \in Streams, EnsureDone(s) PROVE QuietOnceAborted
      BY <2>4 DEF EnsureDone, Return
    <2>5. ASSUME NEW s \in Streams, StartDropped(s) PROVE QuietOnceAborted
      BY <2>5 DEF StartDropped, Return
    <2>6. ASSUME NEW s \in Streams, StartFailed(s) PROVE QuietOnceAborted
      BY <2>6 DEF StartFailed, Return
    <2>7. ASSUME NEW s \in Streams, Register(s) PROVE QuietOnceAborted
      BY <2>7 DEF Register, Return
    <2>8. ASSUME NEW s \in Streams, Quiet(s) PROVE QuietOnceAborted
      BY <2>8, QuietSteps
    <2>9. ASSUME NEW s \in Streams, SoftFlush(s) PROVE QuietOnceAborted
      BY <2>9 DEF SoftFlush, Goto
    <2>10. ASSUME NEW s \in Streams, AbortedExit(s) PROVE QuietOnceAborted
      BY <2>10 DEF AbortedExit, Finally, Goto
    <2>11. ASSUME NEW s \in Streams, End(s) PROVE QuietOnceAborted
      BY <2>11 DEF End, Finally, Goto
    <2>12. ASSUME NEW s \in Streams, ErrorEmit(s) PROVE QuietOnceAborted
      BY <2>12 DEF ErrorEmit, Finally, Goto
    <2>13. ASSUME NEW x \in cancels, CancelFlush(x) PROVE QuietOnceAborted
      BY <2>13 DEF CancelFlush
    <2>14. ASSUME NEW x \in cancels, CancelAbort(x) PROVE QuietOnceAborted
      BY <2>14 DEF CancelAbort
    <2>15. ASSUME NEW x \in cancels, CancelJoin(x) PROVE QuietOnceAborted
      BY <2>15 DEF CancelJoin
    <2>16. ASSUME NEW x \in cancels, CancelFinish(x) PROVE QuietOnceAborted
      BY <2>16 DEF CancelFinish, CancelOK
    <2>17. ASSUME NEW k \in stops, StopNothing(k) PROVE QuietOnceAborted
      BY <2>17 DEF StopNothing, AbortPending
    <2>18. ASSUME NEW k \in stops, StopSoft(k) PROVE QuietOnceAborted
      BY <2>18 DEF StopSoft, AbortPending
    <2>19. ASSUME NEW k \in stops, StopHard(k) PROVE QuietOnceAborted
      BY <2>19 DEF StopHard, AbortPending, BeginCancel
    <2> QED BY <2>1, <2>2, <2>3, <2>4, <2>5, <2>6, <2>7, <2>8, <2>9, <2>10, <2>11, <2>12, <2>13,
               <2>14, <2>15, <2>16, <2>17, <2>18, <2>19
           DEF Next, StartStep, Process, Finish, CancelStep, Quiet
  <1> QED BY StreamInvAlways, <1>1, PTL DEF Spec, NothingAfterAbort

\* Once the loop of a stream has flushed, what partial.json holds of it is all its output.
FreshPartial ==
    \A s \in Streams :
        run[s] \in {"check", "empty", "meta", "delete", "update", "usage", "erremit", "done"}
        /\ partial.stream = s => partial.parts = parts[s]

\* Every step keeps that: parts come only before the flush, and each write has all there are.
LEMMA FreshStep == TypeOK /\ RunOK /\ FreshPartial /\ [Next]_vars => FreshPartial'
  <1> SUFFICES ASSUME TypeOK, RunOK, FreshPartial, [Next]_vars PROVE FreshPartial'
    OBVIOUS
  <1> USE DEF startVars, streamVars, TypeOK, FreshPartial, NoPartial, PartialOf, Goto
  <1>1. ASSUME NEW s \in Streams, RequestStart(s) \/ Acquire(s) \/ EnsureCancels(s) \/ EnsureDone(s) PROVE FreshPartial'
    BY <1>1 DEF RequestStart, Acquire, EnsureCancels, BeginCancel, EnsureDone
  <1>2. ASSUME NEW s \in Streams, StartDropped(s) \/ StartFailed(s) PROVE FreshPartial'
    BY <1>2 DEF StartDropped, StartFailed
  <1>3. ASSUME NEW s \in Streams, Register(s) PROVE FreshPartial'
    BY <1>3 DEF Register
  <1>4. ASSUME NEW s \in Streams, PartLands(s) PROVE FreshPartial'
    BY <1>4, StreamAssumption DEF PartLands
  <1>5. ASSUME NEW s \in Streams, TimerFires(s) PROVE FreshPartial'
    BY <1>5, StreamAssumption DEF TimerFires
  <1>6. ASSUME NEW s \in Streams, SoftCancel(s) \/ LoopEnds(s) \/ LoopRetries(s) \/ Fail(s) PROVE FreshPartial'
    BY <1>6 DEF SoftCancel, LoopEnds, LoopRetries, Fail
  <1>7. ASSUME NEW s \in Streams, Reset(s) \/ DeletePartial(s) PROVE FreshPartial'
    BY <1>7, StreamAssumption DEF Reset, DeletePartial
  <1>8. ASSUME NEW s \in Streams, SoftFlush(s) PROVE FreshPartial'
    BY <1>8, StreamAssumption DEF SoftFlush
  <1>9. ASSUME NEW s \in Streams, FinalFlush(s) PROVE FreshPartial'
    BY <1>9, StreamAssumption DEF FinalFlush
  <1>10. ASSUME NEW s \in Streams, ErrorWrite(s) PROVE FreshPartial'
    BY <1>10, StreamAssumption DEF ErrorWrite
  <1>11. ASSUME NEW s \in Streams, Check(s) \/ MetaDone(s) \/ UpdateHistory(s) PROVE FreshPartial'
    BY <1>11 DEF Check, MetaDone, UpdateHistory
  <1>12. ASSUME NEW s \in Streams, AbortedExit(s) \/ End(s) \/ ErrorEmit(s) PROVE FreshPartial'
    BY <1>12 DEF AbortedExit, End, ErrorEmit, Finally
  <1>13. ASSUME NEW x \in cancels, CancelFlush(x) PROVE FreshPartial'
    BY <1>13, StreamAssumption DEF CancelFlush
  <1>14. ASSUME NEW x \in cancels, CancelAbort(x) \/ CancelJoin(x) \/ CancelFinish(x) PROVE FreshPartial'
    BY <1>14 DEF CancelAbort, CancelJoin, CancelFinish
  <1>15. ASSUME NEW k \in stops, StopNothing(k) \/ StopSoft(k) \/ StopHard(k) PROVE FreshPartial'
    BY <1>15 DEF StopNothing, StopSoft, StopHard, BeginCancel
  <1>16. ASSUME NEW s \in Streams, Part(s) \/ ResultDone(s) PROVE FreshPartial'
    BY <1>16 DEF Part, ResultDone
  <1>17. ASSUME NEW s \in Streams, ToolResult(s) PROVE FreshPartial'
    BY <1>17, StreamAssumption DEF ToolResult
  <1>18. CASE UNCHANGED vars
    BY <1>18 DEF vars
  <1> QED BY <1>1, <1>2, <1>3, <1>4, <1>5, <1>6, <1>7, <1>8, <1>9, <1>10, <1>11, <1>12, <1>13,
             <1>14, <1>15, <1>16, <1>17, <1>18
          DEF Next, StartStep, Process, Finish, CancelStep

\* An interrupted stream that is reported as aborted has all its output in partial.json, as far as
\* that is the stream's: what is produced between the stop and the exit is not lost, whoever
\* flushes last (flushPartialWrite, cleanupAbortedStream).
THEOREM OutputIsKept == Spec => []AbortKeepsOutput
  <1>1. Init => FreshPartial
    BY DEF Init, FreshPartial
  <1>2. Spec => []FreshPartial
    BY <1>1, FreshStep, StreamInvAlways, PTL DEF Spec, StreamInv
  <1>3. StreamInv /\ FreshPartial => AbortKeepsOutput
    BY DEF StreamInv, RunOK, FreshPartial, AbortKeepsOutput
  <1> QED BY <1>2, <1>3, StreamInvAlways, PTL
=============================================================================
