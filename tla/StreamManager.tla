---------------------------- MODULE StreamManager ----------------------------
(***************************************************************************)
(* src/node/services/streamManager.ts: the assistant streams of one        *)
(* workspace.  Each stream is started once (startStream), processed by an  *)
(* asynchronous loop (processStreamWithCleanup) and may be stopped at any  *)
(* time by user actions (stopStream) or by the next startStream.  A step   *)
(* of this module is what runs between two awaits; a write of partial.json *)
(* takes effect when it is issued, because HistoryService serialises the   *)
(* file operations of a workspace in issue order.                          *)
(***************************************************************************)
EXTENDS Naturals, FiniteSets

CONSTANTS
    Streams,    \* assistant messages, each streamed once
    Stoppers,   \* stopStream calls, each made once
    MaxParts,   \* bound on streamInfo.parts.length
    NoStream

ASSUME StreamAssumption ==
    /\ NoStream \notin Streams
    /\ Streams \cap Stoppers = {}
    /\ "soft" \notin Streams \cup Stoppers    \* the third kind of canceller
    /\ MaxParts \in Nat \ {0}

VARIABLES
    start,         \* progress of each startStream call
    lock,          \* streamLocks: the startStream call inside the mutex
    pendingStart,  \* aiService.pendingStreamStarts: the latest call still starting
    stops,         \* stopStream calls not made yet
    registered,    \* workspaceStreams
    state,         \* streamInfo.state
    run,           \* program counter of processStreamWithCleanup
    aborted,       \* streamInfo.abortController.signal.aborted
    softInterrupt, \* streamInfo.softInterrupt.pending
    parts,         \* streamInfo.parts.length
    timer,         \* streamInfo.partialWriteTimer is armed
    retried,       \* didRetryPreviousResponseId
    cancels,       \* running cancelStreamSafely / cleanupAbortedStream calls
    partial,       \* partial.json
    events         \* events emitted so far for each stream

startVars  == <<start, lock, pendingStart>>
streamVars == <<state, run, softInterrupt, parts, retried>>
vars == <<startVars, stops, registered, streamVars, aborted, timer, cancels, partial, events>>

StartPC == {"idle", "lock", "ensure", "wait", "tempdir", "registered", "dropped", "failed"}
State   == {"idle", "streaming", "stopping", "completed", "error"}
RunPC   == {"off", "loop", "part", "result", "softflush", "reset", "flush", "check", "empty",
            "meta", "delete", "update", "usage", "errwrite", "erremit", "done"}
Callers == Streams \cup Stoppers \cup {"soft"}
CancelPC == {"flush", "abort", "wait", "record"}
Event   == {"start", "end", "error", "abort"}

NoPartial == [stream |-> NoStream, parts |-> 0, error |-> FALSE]
PartialOf(s) == [stream |-> s, parts |-> parts[s], error |-> FALSE]

Live(s) == run[s] \notin {"off", "done"}

Init ==
    /\ start = [s \in Streams |-> "idle"]
    /\ lock = NoStream
    /\ pendingStart = NoStream
    /\ stops = Stoppers
    /\ registered = NoStream
    /\ state = [s \in Streams |-> "idle"]
    /\ run = [s \in Streams |-> "off"]
    /\ aborted = [s \in Streams |-> FALSE]
    /\ softInterrupt = [s \in Streams |-> FALSE]
    /\ parts = [s \in Streams |-> 0]
    /\ timer = [s \in Streams |-> FALSE]
    /\ retried = [s \in Streams |-> FALSE]
    /\ cancels = {}
    /\ partial = NoPartial
    /\ events = [s \in Streams |-> {}]

----------------------------------------------------------------------------
(* cancelStreamSafely and cleanupAbortedStream *)

CancelsBy(c) == {x \in cancels : x.by = c}

\* The synchronous beginning of cancelStreamSafely.  A completed stream is not
\* in workspaceStreams: its end and its removal are one step.
BeginCancel(c, t) ==
    /\ state' = [state EXCEPT ![t] = "stopping"]
    /\ cancels' = cancels \cup {[by |-> c, stream |-> t, pc |-> "flush"]}

Advance(x, pc) == cancels' = (cancels \ {x}) \cup {[x EXCEPT !.pc = pc]}

\* flushPartialWrite on behalf of the canceller.
CancelFlush(x) ==
    /\ x.pc = "flush"
    /\ partial' = PartialOf(x.stream)
    /\ timer' = [timer EXCEPT ![x.stream] = FALSE]
    /\ Advance(x, "abort")
    /\ UNCHANGED <<startVars, stops, registered, streamVars, aborted, events>>

\* Mutant: the controller is never aborted.
CancelWithoutAbort(x) ==
    /\ x.pc = "abort"
    /\ Advance(x, "wait")
    /\ UNCHANGED <<startVars, stops, registered, streamVars, aborted, timer, partial, events>>

CancelAbort(x) ==
    /\ x.pc = "abort"
    /\ aborted' = [aborted EXCEPT ![x.stream] = TRUE]
    /\ Advance(x, "wait")
    /\ UNCHANGED <<startVars, stops, registered, streamVars, timer, partial, events>>

\* Mutant: cleanup does not wait for processingPromise.
CancelJoinAtOnce(x) ==
    /\ x.pc = "wait"
    /\ Advance(x, "record")
    /\ UNCHANGED <<startVars, stops, registered, streamVars, aborted, timer, partial, events>>

\* await processingPromise; then recordSessionUsage is awaited in "record".
CancelJoin(x) ==
    /\ x.pc = "wait"
    /\ run[x.stream] = "done"
    /\ Advance(x, "record")
    /\ UNCHANGED <<startVars, stops, registered, streamVars, aborted, timer, partial, events>>

\* Emits stream-abort and deletes the workspace's entry, whoever owns it by now.
CancelFinish(x) ==
    /\ x.pc = "record"
    /\ events' = [events EXCEPT ![x.stream] = @ \cup {"abort"}]
    /\ registered' = NoStream
    /\ cancels' = cancels \ {x}
    /\ UNCHANGED <<startVars, stops, streamVars, aborted, timer, partial>>

CancelStep(x) == CancelFlush(x) \/ CancelAbort(x) \/ CancelJoin(x) \/ CancelFinish(x)

----------------------------------------------------------------------------
(* startStream *)

\* aiService.streamMessage registers its pending start, then calls startStream.
RequestStart(s) ==
    /\ start[s] = "idle"
    /\ start' = [start EXCEPT ![s] = "lock"]
    /\ pendingStart' = s
    /\ UNCHANGED <<lock, stops, registered, streamVars, aborted, timer, cancels, partial, events>>

\* Mutant: startStream without the workspace's mutex.
AcquireAnyway(s) ==
    /\ start[s] = "lock"
    /\ lock' = s
    /\ start' = [start EXCEPT ![s] = "ensure"]
    /\ UNCHANGED <<pendingStart, stops, registered, streamVars, aborted, timer, cancels, partial, events>>

Acquire(s) ==
    /\ start[s] = "lock"
    /\ lock = NoStream
    /\ lock' = s
    /\ start' = [start EXCEPT ![s] = "ensure"]
    /\ UNCHANGED <<pendingStart, stops, registered, streamVars, aborted, timer, cancels, partial, events>>

\* ensureStreamSafety when another stream is registered: cancels it and waits.
EnsureCancels(s) ==
    /\ start[s] = "ensure"
    /\ registered # NoStream
    /\ BeginCancel(s, registered)
    /\ start' = [start EXCEPT ![s] = "wait"]
    /\ UNCHANGED <<lock, pendingStart, stops, registered, run, softInterrupt, parts, retried,
                   aborted, timer, partial, events>>

\* Mutant: only a successful start releases the mutex.
ReturnKeepsLock(s, outcome) ==
    /\ start' = [start EXCEPT ![s] = outcome]
    /\ lock' = IF outcome = "registered" THEN NoStream ELSE lock
    /\ pendingStart' = IF pendingStart = s THEN NoStream ELSE pendingStart

\* startStream returns: the mutex is released and the pending start forgotten.
Return(s, outcome) ==
    /\ start' = [start EXCEPT ![s] = outcome]
    /\ lock' = NoStream
    /\ pendingStart' = IF pendingStart = s THEN NoStream ELSE pendingStart

\* ensureStreamSafety is over; an interrupted start stops here.
EnsureDone(s) ==
    /\ \/ start[s] = "ensure" /\ registered = NoStream
       \/ start[s] = "wait" /\ CancelsBy(s) = {}
    /\ IF aborted[s] THEN Return(s, "dropped")
       ELSE /\ start' = [start EXCEPT ![s] = "tempdir"]
            /\ UNCHANGED <<lock, pendingStart>>
    /\ UNCHANGED <<stops, registered, streamVars, aborted, timer, cancels, partial, events>>

\* Interrupted while the temporary directory was created.
StartDropped(s) ==
    /\ start[s] = "tempdir"
    /\ aborted[s]
    /\ Return(s, "dropped")
    /\ UNCHANGED <<stops, registered, streamVars, aborted, timer, cancels, partial, events>>

\* createTempDirForStream or createStreamAtomically throws: the entry is deleted.
StartFailed(s) ==
    /\ start[s] = "tempdir"
    /\ Return(s, "failed")
    /\ registered' = NoStream
    /\ UNCHANGED <<stops, streamVars, aborted, timer, cancels, partial, events>>

\* createStreamAtomically and the synchronous head of processStreamWithCleanup.
Register(s) ==
    /\ start[s] = "tempdir"
    /\ ~aborted[s]
    /\ Return(s, "registered")
    /\ registered' = s
    /\ state' = [state EXCEPT ![s] = "streaming"]
    /\ run' = [run EXCEPT ![s] = "loop"]
    /\ events' = [events EXCEPT ![s] = @ \cup {"start"}]
    /\ UNCHANGED <<stops, softInterrupt, parts, retried, aborted, timer, cancels, partial>>

StartStep(s) ==
    \/ Acquire(s) \/ EnsureCancels(s) \/ EnsureDone(s)
    \/ StartDropped(s) \/ StartFailed(s) \/ Register(s)

----------------------------------------------------------------------------
(* stopStream, through aiService.stopStream: a call still starting is aborted too *)

AbortPending ==
    aborted' = IF pendingStart = NoStream THEN aborted
               ELSE [aborted EXCEPT ![pendingStart] = TRUE]

\* With no registered stream stopStream only emits a synthetic abort event.
StopNothing(k) ==
    /\ k \in stops
    /\ registered = NoStream
    /\ AbortPending
    /\ stops' = stops \ {k}
    /\ UNCHANGED <<startVars, registered, streamVars, timer, cancels, partial, events>>

StopSoft(k) ==
    /\ k \in stops
    /\ registered # NoStream
    /\ AbortPending
    /\ softInterrupt' = [softInterrupt EXCEPT ![registered] = TRUE]
    /\ stops' = stops \ {k}
    /\ UNCHANGED <<startVars, registered, state, run, parts, retried, timer, cancels, partial, events>>

StopHard(k) ==
    /\ k \in stops
    /\ registered # NoStream
    /\ AbortPending
    /\ BeginCancel(k, registered)
    /\ stops' = stops \ {k}
    /\ UNCHANGED <<startVars, registered, run, softInterrupt, parts, retried, timer, partial, events>>

----------------------------------------------------------------------------
(* processStreamWithCleanup *)

Goto(s, pc) == run' = [run EXCEPT ![s] = pc]

\* A text, reasoning or tool part arrives: the loop looks at the abort signal, and
\* appendPartAndEmit awaits the token count before the part's event.
Part(s) ==
    /\ run[s] = "loop"
    /\ ~aborted[s]
    /\ parts[s] < MaxParts
    /\ Goto(s, "part")
    /\ UNCHANGED <<startVars, stops, registered, state, softInterrupt, parts, retried, aborted,
                   timer, cancels, partial, events>>

\* The part is recorded, aborted or not.  It is written at once or, within the
\* throttle interval, by a timer (schedulePartialWrite); a tool call is written later.
PartLands(s) ==
    /\ run[s] = "part"
    /\ parts' = [parts EXCEPT ![s] = @ + 1]
    /\ \/ timer' = [timer EXCEPT ![s] = TRUE] /\ UNCHANGED partial
       \/ /\ timer' = [timer EXCEPT ![s] = FALSE]
          /\ partial' = [stream |-> s, parts |-> parts[s] + 1, error |-> FALSE]
       \/ UNCHANGED <<timer, partial>>
    /\ Goto(s, "loop")
    /\ UNCHANGED <<startVars, stops, registered, state, softInterrupt, retried, aborted,
                   cancels, events>>

\* completeToolCall flushes the tool part with its output and awaits the write.
ToolResult(s) ==
    /\ run[s] = "loop"
    /\ ~aborted[s]
    /\ parts[s] > 0
    /\ partial' = PartialOf(s)
    /\ timer' = [timer EXCEPT ![s] = FALSE]
    /\ Goto(s, "result")
    /\ UNCHANGED <<startVars, stops, registered, state, softInterrupt, parts, retried, aborted,
                   cancels, events>>

ResultDone(s) ==
    /\ run[s] = "result"
    /\ ~softInterrupt[s]
    /\ Goto(s, "loop")
    /\ UNCHANGED <<startVars, stops, registered, state, softInterrupt, parts, retried, aborted,
                   timer, cancels, partial, events>>

\* The throttled write of schedulePartialWrite.
TimerFires(s) ==
    /\ timer[s]
    /\ timer' = [timer EXCEPT ![s] = FALSE]
    /\ partial' = PartialOf(s)
    /\ UNCHANGED <<startVars, stops, registered, streamVars, aborted, cancels, events>>

\* checkSoftCancelStream at the end of a text block or a step, or after a tool
\* result, where the stream may have been aborted during the write.
SoftCancel(s) ==
    /\ \/ run[s] = "loop" /\ ~aborted[s]
       \/ run[s] = "result"
    /\ softInterrupt[s]
    /\ state' = [state EXCEPT ![s] = "stopping"]
    /\ Goto(s, "softflush")
    /\ UNCHANGED <<startVars, stops, registered, softInterrupt, parts, retried, aborted, timer,
                   cancels, partial, events>>

\* Mutant: the soft interrupt aborts the stream and relies on the loop to report it.
SoftFlushOnly(s) ==
    /\ run[s] = "softflush"
    /\ partial' = PartialOf(s)
    /\ timer' = [timer EXCEPT ![s] = FALSE]
    /\ aborted' = [aborted EXCEPT ![s] = TRUE]
    /\ Goto(s, "loop")
    /\ UNCHANGED <<startVars, stops, registered, state, softInterrupt, parts, retried, cancels, events>>

\* ... flushes, aborts and leaves the cleanup to a call nobody awaits.
SoftFlush(s) ==
    /\ run[s] = "softflush"
    /\ partial' = PartialOf(s)
    /\ timer' = [timer EXCEPT ![s] = FALSE]
    /\ aborted' = [aborted EXCEPT ![s] = TRUE]
    /\ cancels' = cancels \cup {[by |-> "soft", stream |-> s, pc |-> "wait"]}
    /\ Goto(s, "loop")
    /\ UNCHANGED <<startVars, stops, registered, state, softInterrupt, parts, retried, events>>

\* fullStream ends by itself, or the loop breaks because of the abort signal.
LoopEnds(s) ==
    /\ run[s] = "loop"
    /\ Goto(s, "flush")
    /\ UNCHANGED <<startVars, stops, registered, state, softInterrupt, parts, retried, aborted,
                   timer, cancels, partial, events>>

\* The provider fails on a lost previousResponseId, not in the middle of a step.
LoopRetries(s) ==
    /\ run[s] = "loop"
    /\ ~retried[s] /\ ~aborted[s] /\ ~softInterrupt[s]
    /\ retried' = [retried EXCEPT ![s] = TRUE]
    /\ timer' = [timer EXCEPT ![s] = FALSE]
    /\ Goto(s, "reset")
    /\ UNCHANGED <<startVars, stops, registered, state, softInterrupt, parts, aborted, cancels,
                   partial, events>>

\* resetStreamStateForRetry keeps parts of earlier steps; without any it
\* deletes partial.json.  The stream is then requested again.
Reset(s) ==
    /\ run[s] = "reset"
    /\ partial' = IF parts[s] = 0 THEN NoPartial ELSE partial
    /\ Goto(s, "loop")
    /\ UNCHANGED <<startVars, stops, registered, state, softInterrupt, parts, retried, aborted,
                   timer, cancels, events>>

\* Any other failure: handleStreamFailure up to the write of the error state.
Fail(s) ==
    /\ run[s] \in {"loop", "reset", "empty"}
    /\ state' = [state EXCEPT ![s] = "error"]
    /\ Goto(s, "errwrite")
    /\ UNCHANGED <<startVars, stops, registered, softInterrupt, parts, retried, aborted, timer,
                   cancels, partial, events>>

\* persistStreamError: the write, then the event once the write is done.
ErrorWrite(s) ==
    /\ run[s] = "errwrite"
    /\ partial' = [PartialOf(s) EXCEPT !.error = TRUE]
    /\ Goto(s, "erremit")
    /\ UNCHANGED <<startVars, stops, registered, state, softInterrupt, parts, retried, aborted,
                   timer, cancels, events>>

\* Mutant: no final flush once the loop has been aborted.
FinalFlushUnlessAborted(s) ==
    /\ run[s] = "flush"
    /\ IF aborted[s] THEN UNCHANGED <<partial, timer>>
       ELSE /\ partial' = PartialOf(s)
            /\ timer' = [timer EXCEPT ![s] = FALSE]
    /\ Goto(s, "check")
    /\ UNCHANGED <<startVars, stops, registered, state, softInterrupt, parts, retried, aborted,
                   cancels, events>>

\* The final flush, aborted or not.
FinalFlush(s) ==
    /\ run[s] = "flush"
    /\ partial' = PartialOf(s)
    /\ timer' = [timer EXCEPT ![s] = FALSE]
    /\ Goto(s, "check")
    /\ UNCHANGED <<startVars, stops, registered, state, softInterrupt, parts, retried, aborted,
                   cancels, events>>

\* The last look at the abort signal; "empty" and "meta" await the metadata.
Check(s) ==
    /\ run[s] = "check"
    /\ ~aborted[s]
    /\ Goto(s, IF parts[s] = 0 THEN "empty" ELSE "meta")
    /\ UNCHANGED <<startVars, stops, registered, state, softInterrupt, parts, retried, aborted,
                   timer, cancels, partial, events>>

MetaDone(s) ==
    /\ run[s] = "meta"
    /\ Goto(s, "delete")
    /\ UNCHANGED <<startVars, stops, registered, state, softInterrupt, parts, retried, aborted,
                   timer, cancels, partial, events>>

DeletePartial(s) ==
    /\ run[s] = "delete"
    /\ partial' = NoPartial
    /\ Goto(s, "update")
    /\ UNCHANGED <<startVars, stops, registered, state, softInterrupt, parts, retried, aborted,
                   timer, cancels, events>>

\* updateHistory is done; recordSessionUsage is awaited next.
UpdateHistory(s) ==
    /\ run[s] = "update"
    /\ Goto(s, "usage")
    /\ UNCHANGED <<startVars, stops, registered, state, softInterrupt, parts, retried, aborted,
                   timer, cancels, partial, events>>

\* The finally block, in the same step as what precedes it.
Finally(s) ==
    /\ Goto(s, "done")
    /\ timer' = [timer EXCEPT ![s] = FALSE]
    /\ registered' = NoStream

AbortedExit(s) ==
    /\ run[s] = "check"
    /\ aborted[s]
    /\ Finally(s)
    /\ UNCHANGED <<startVars, stops, state, softInterrupt, parts, retried, aborted, cancels,
                   partial, events>>

End(s) ==
    /\ run[s] = "usage"
    /\ state' = [state EXCEPT ![s] = "completed"]
    /\ events' = [events EXCEPT ![s] = @ \cup {"end"}]
    /\ Finally(s)
    /\ UNCHANGED <<startVars, stops, softInterrupt, parts, retried, aborted, cancels, partial>>

ErrorEmit(s) ==
    /\ run[s] = "erremit"
    /\ events' = [events EXCEPT ![s] = @ \cup {"error"}]
    /\ Finally(s)
    /\ UNCHANGED <<startVars, stops, state, softInterrupt, parts, retried, aborted, cancels, partial>>

\* Everything after the loop, the awaits within it, and the loop once its signal is
\* aborted.
Finish(s) ==
    \/ aborted[s] /\ LoopEnds(s)
    \/ PartLands(s) \/ ResultDone(s)
    \/ run[s] = "result" /\ SoftCancel(s)
    \/ SoftFlush(s) \/ Reset(s) \/ FinalFlush(s) \/ Check(s) \/ MetaDone(s)
    \/ DeletePartial(s) \/ UpdateHistory(s) \/ AbortedExit(s) \/ End(s)
    \/ ErrorWrite(s) \/ ErrorEmit(s)
    \/ run[s] = "empty" /\ Fail(s)

Process(s) ==
    \/ Part(s) \/ ToolResult(s) \/ TimerFires(s) \/ SoftCancel(s)
    \/ LoopEnds(s) \/ LoopRetries(s) \/ Fail(s) \/ Finish(s)

----------------------------------------------------------------------------
Next ==
    \/ \E s \in Streams : RequestStart(s) \/ StartStep(s) \/ Process(s)
    \/ \E x \in cancels : CancelStep(x)
    \/ \E k \in stops : StopNothing(k) \/ StopSoft(k) \/ StopHard(k)

\* File operations, token counts and metadata requests complete, and the AI SDK ends the part
\* stream of an aborted request.  A provider need never finish on its own.
Fairness ==
    /\ \A s \in Streams : WF_vars(StartStep(s)) /\ WF_vars(Finish(s))
    /\ \A c \in Callers : WF_vars(\E x \in CancelsBy(c) : CancelStep(x))

Spec == Init /\ [][Next]_vars /\ Fairness

----------------------------------------------------------------------------
TypeOK ==
    /\ start \in [Streams -> StartPC]
    /\ lock \in Streams \cup {NoStream}
    /\ pendingStart \in Streams \cup {NoStream}
    /\ stops \subseteq Stoppers
    /\ registered \in Streams \cup {NoStream}
    /\ state \in [Streams -> State]
    /\ run \in [Streams -> RunPC]
    /\ aborted \in [Streams -> BOOLEAN]
    /\ softInterrupt \in [Streams -> BOOLEAN]
    /\ parts \in [Streams -> 0..MaxParts]
    /\ \A s \in Streams : run[s] = "part" => parts[s] < MaxParts
    /\ timer \in [Streams -> BOOLEAN]
    /\ retried \in [Streams -> BOOLEAN]
    /\ cancels \subseteq [by : Callers, stream : Streams, pc : CancelPC]
    /\ partial \in [stream : Streams \cup {NoStream}, parts : 0..MaxParts, error : BOOLEAN]
    /\ events \in [Streams -> SUBSET Event]

Starting(s) == start[s] \in {"lock", "ensure", "wait", "tempdir"}

\* The mutex is held by exactly the call between its acquisition and its return,
\* and only calls that have not returned are pending.
MutexOK ==
    /\ \A s \in Streams : lock = s <=> start[s] \in {"ensure", "wait", "tempdir"}
    /\ pendingStart # NoStream => Starting(pendingStart)

\* A stream runs once its start has registered it; workspaceStreams never names a
\* stream that has exited; the past of a stream fits its program counter.
RunOK ==
    /\ \A s \in Streams : run[s] # "off" <=> start[s] = "registered"
    /\ registered # NoStream => Live(registered)
    /\ \A s \in Streams : run[s] = "off" => events[s] = {}
    /\ \A s \in Streams : "abort" \in events[s] => run[s] = "done"

\* While a start holds the mutex past ensureStreamSafety no stream is registered,
\* and while it waits the only registered stream is the one it is cancelling.
SlotOK ==
    \A s \in Streams :
        /\ start[s] = "tempdir" => registered = NoStream
        /\ start[s] = "wait" => registered = NoStream \/ CancelsBy(s) # {}

\* A cancellation concerns a stream that was started, gets past the wait only when
\* that stream has exited, and is what stands behind every aborted signal.
CancelOK ==
    /\ \A x \in cancels :
         /\ run[x.stream] # "off"
         /\ x.pc = "record" => run[x.stream] = "done"
         /\ x.by \in Streams => start[x.by] = "wait"
    /\ \A s \in Streams : aborted[s] /\ Live(s) => \E x \in cancels : x.stream = s

\* startStream (2750-2752) promises that a stream is registered only once the one
\* it replaces has fully exited: a registration never overwrites an entry, and
\* the call that registers holds the mutex and has no cancellation running.
RegistersOnlyWhenFree ==
    [][registered' \notin {registered, NoStream} =>
          /\ registered = NoStream
          /\ lock = registered'
          /\ CancelsBy(registered') = {}]_vars

QuietOnceAborted ==
    \A s \in Streams : "abort" \in events[s] => events'[s] = events[s] /\ run'[s] = run[s]

\* "Wait for processing to fully complete before cleanup" (1008-1011): stream-abort
\* is the last thing heard of a stream, whichever stop caused it.
NothingAfterAbort == [][QuietOnceAborted]_vars

\* A stream whose processing is over has told its listeners how it ended, or the
\* cleanup that will do so is still running.
NoSilentExit ==
    \A s \in Streams : run[s] = "done" =>
        \/ events[s] \cap {"end", "error", "abort"} # {}
        \/ \E x \in cancels : x.stream = s

\* The inductive invariant of the control state.
StreamInv == TypeOK /\ MutexOK /\ RunOK /\ SlotOK /\ CancelOK /\ NoSilentExit

\* When an interrupted stream is reported as aborted, what partial.json holds of
\* it is all its output: nothing produced between the stop and the exit is lost.
AbortKeepsOutput ==
    \A s \in Streams :
        "abort" \in events[s] /\ "end" \notin events[s] /\ partial.stream = s
            => partial.parts = parts[s]

\* Every startStream call returns: the wait for the stream it replaces, made with
\* the mutex held, never blocks for good.
StartReturns ==
    \A s \in Streams :
        start[s] = "lock" ~> start[s] \in {"registered", "dropped", "failed"}

\* Every cancellation ends, and with it the stopped stream's stream-abort event.
CancelReturns ==
    \A c \in Callers : CancelsBy(c) # {} ~> CancelsBy(c) = {}

\* "Only one active stream per workspace at any time" (397).
OnlyOneActiveStream == Cardinality({s \in Streams : Live(s)}) <= 1

\* cancelStreamSafely (951-952): stream-abort is not emitted after stream-end, which
\* would make the front end flip the message back to partial.
NoAbortAfterEnd == \A s \in Streams : ~({"end", "abort"} \subseteq events[s])

\* persistStreamError (2376-2382): the error state is on disk when the error event
\* is emitted, not replaced by a throttled write of the same stream.
ErrorStateOnDisk ==
    [][\A s \in Streams :
         "error" \in events'[s] \ events[s] /\ partial.stream = s => partial.error]_vars
=============================================================================
