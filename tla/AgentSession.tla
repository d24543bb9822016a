----------------------------- MODULE AgentSession -----------------------------
(***************************************************************************)
(* src/node/services/agentSession.ts with the operations of                *)
(* workspaceService.ts and aiService.ts that drive it: the turns of one    *)
(* workspace.  A turn is one attempt to start a stream and what follows    *)
(* it: sending a message, resuming, or an immediate retry, then the stream *)
(* and the asynchronous handler of the event that ended it.  The stream    *)
(* manager is reduced to what the session sees of it: a stream that ends,  *)
(* fails or is stopped, one at a time.  A step is what runs between two    *)
(* awaits; the first segment of a waiter of waitForIdle belongs to the     *)
(* step that made the session idle, because nothing can run before it.     *)
(***************************************************************************)
EXTENDS Naturals

CONSTANTS
    Messages,      \* what the user writes, each sent once
    Turns,         \* turns in progress at the same time (an identifier is used again)
    NoTurn,
    MaxSwitches,   \* MAX_CONSECUTIVE_AGENT_SWITCHES
    Scenarios      \* what may happen in a behaviour, and how often the user edits, interrupts
                   \* or resumes or the program crashes

(***************************************************************************)
(* compact: messages become compaction requests; midstream: a stream meets *)
(* the context limit; error: something fails; retry: a stream fails, and auto-retry is on;     *)
(* switch: an agent hands over to another; now: an interrupt sends the     *)
(* queue at once; impatient: the user sends while an earlier send is being *)
(* taken; unopened: the workspace is used before it is opened; overtake:   *)
(* a start overtakes the handling of an abort.                             *)
(***************************************************************************)
Event == {"compact", "midstream", "error", "retry", "switch", "now", "impatient", "unopened",
          "overtake"}

ASSUME SessionAssumption ==
    /\ NoTurn \notin Turns
    /\ MaxSwitches \in Nat
    /\ Scenarios \subseteq [events : SUBSET Event, disturbances : Nat]

VARIABLES
    phase,      \* turnPhase
    queue,      \* messageQueue
    defer,      \* deferQueuedFlushUntilAfterEdit
    turn,       \* the turns; those that are "waiting" are the idleWaiters
    starting,   \* aiService.pendingStreamStarts: the last turn being started
    stray,      \* a stream-abort without a stream: no, on its way, or being handled
    stop,       \* the user's interruptStream awaits the stop
    active,     \* activeCompactionRequest # undefined
    switches,   \* consecutiveAgentSwitches
    tail,       \* the end of the history
    owed,       \* the compaction request or summary there has a follow-up
    promised,   \* ... and the messages in it
    unsent,     \* messages the user has not sent
    written,    \* messages in the history
    armed,      \* the retry manager's timer
    failed,     \* history: the last turn to settle failed or was stopped
    opened,     \* the startup recovery: not scheduled, to be followed by its check, or done
    events,     \* the scenario of this behaviour
    left        \* how many disturbances may still happen

historyVars == <<tail, owed, promised, written>>
bounds == <<events, left>>
vars == <<phase, queue, defer, turn, starting, stray, stop, active, switches, historyVars,
          unsent, armed, failed, opened, bounds>>

Phase  == {"idle", "preparing", "streaming", "completing"}
\* Before the stream, with it, and after it.
Asking == {"deleting", "stopping", "waiting", "truncate", "accept", "accepted"}
Beginning == {"commit", "pending"}
After  == {"aborting", "settling", "ending", "handled", "await", "flush", "finally", "erring",
           "failing"}
PC     == {"free", "live"} \cup Asking \cup Beginning \cup After
Synthetic == {"followup", "switch", "midstream", "recovered"}
Kind   == {"user", "edit", "queued", "resume"} \cup Synthetic
Tail   == {"none", "chat", "compact", "reply", "summary"}

\* What started the turn (until its promise has settled), the messages it sends,
\* whether a stop aborted its start, and whether its context-limit retry is used.
Turn == [pc : PC, kind : Kind \cup {"none"}, sends : SUBSET Messages, dropped : BOOLEAN,
         again : BOOLEAN]
NewTurn(label, k, c) == [pc |-> label, kind |-> k, sends |-> c, dropped |-> FALSE, again |-> FALSE]
Free == NewTurn("free", "none", {})

Init ==
    /\ phase = "idle"
    /\ queue = {} /\ defer = FALSE
    /\ turn = [t \in Turns |-> Free]
    /\ starting = NoTurn
    /\ stray = "no" /\ stop = FALSE
    /\ active = FALSE /\ switches = 0
    /\ tail = "none" /\ owed = FALSE /\ promised = {} /\ written = {}
    /\ unsent = Messages
    /\ armed = FALSE
    /\ failed = FALSE
    /\ opened = "no"
    /\ \E s \in Scenarios: events = s.events /\ left = s.disturbances

----------------------------------------------------------------------------
May(event) == event \in events
At(t, label) == turn[t].pc = label
In(labels)   == {t \in Turns: turn[t].pc \in labels}
\* Of the turns in p: whether another can begin, which it is, and the turns with it.
Room(p) == \E t \in Turns: p[t].pc = "free"
Slot(p) == CHOOSE t \in Turns: p[t].pc = "free"
Begin(p, label, k, c) == [p EXCEPT ![Slot(p)] = NewTurn(label, k, c)]
Goto(t, label) == [turn EXCEPT ![t].pc = label]
\* Whether a failure arms the retry timer.
MayRetry == IF May("retry") THEN BOOLEAN ELSE {FALSE}
Count ==
    /\ left > 0
    /\ left' = left - 1
    /\ UNCHANGED events

\* Mutant: setTurnPhase(IDLE) does not wake the waiters.
BecomeIdleAsleep(p) ==
    /\ phase' = "idle" /\ turn' = p
    /\ UNCHANGED <<defer, queue>>

\* setTurnPhase(IDLE), the turns being as in p: wakes the waiters.  An edit among
\* them clears the flag and returns the queue to the input before it awaits again.
BecomeIdle(p) ==
    LET woken == {t \in Turns: p[t].pc = "waiting"}
        edits == {t \in woken: p[t].kind = "edit"}
    IN  /\ phase' = "idle"
        /\ turn' = [t \in Turns |->
             IF t \in edits THEN [p[t] EXCEPT !.pc = "truncate"]
             ELSE IF t \in woken THEN [p[t] EXCEPT !.pc = "accept"] ELSE p[t]]
        /\ defer' = (defer /\ edits = {})
        /\ queue' = IF edits = {} THEN queue ELSE {}

\* Mutant: the finally blocks reset the phase whatever it is.
IdleFromAny(q, p) == BecomeIdle(p)

\* Mutant: the finally blocks never reset the phase.
IdleFromNone(q, p) == turn' = p /\ UNCHANGED <<phase, queue, defer>>

\* The finally blocks: idle again if the phase is still q.
IdleFrom(q, p) ==
    \/ phase = q /\ BecomeIdle(p)
    \/ phase # q /\ turn' = p /\ UNCHANGED <<phase, queue, defer>>

\* The turns after the promise of t's send has settled and t has become r.  A
\* stream-end handler that awaits it goes on to the queue after a follow-up that
\* started, and after an agent switch that did not.
Settled(t, r, ok) ==
    [u \in Turns |->
        IF u = t THEN r
        ELSE IF At(u, "await") /\ turn[t].kind \in {"followup", "switch"}
             THEN [turn[u] EXCEPT
                     !.pc = IF (turn[t].kind = "followup") = ok THEN "flush" ELSE "finally"]
             ELSE turn[u]]

\* Mutant: the queue is not cleared when it is sent.
SendQueuedKeeps(p) ==
    /\ queue # {}
    /\ Room(p) /\ turn' = Begin(p, "accept", "queued", queue)
    /\ phase' = "preparing"
    /\ switches' = 0
    /\ UNCHANGED <<queue, defer>>

\* sendQueuedMessages with messages in the queue, the turns being as in p.
SendQueued(p) ==
    /\ queue # {}
    /\ Room(p) /\ turn' = Begin(p, "accept", "queued", queue)
    /\ queue' = {}
    /\ phase' = "preparing"
    /\ switches' = 0
    /\ UNCHANGED defer

\* aiService.stopStream, the turns being as in p: aborts the start that is pending
\* and the stream, and emits a stream-abort of its own if there is no stream.
StopStream(p) ==
    /\ turn' = [t \in Turns |->
         IF p[t].pc = "live" THEN [p[t] EXCEPT !.pc = "aborting"]
         ELSE IF t = starting THEN [p[t] EXCEPT !.dropped = TRUE] ELSE p[t]]
    /\ stray' = IF In({"live"}) = {} /\ stray = "no" THEN "coming" ELSE stray
    /\ UNCHANGED starting

----------------------------------------------------------------------------
(***************************************************************************)
(* What the user asks for.                                                 *)
(***************************************************************************)
\* A workspace is opened, and its startup recovery scheduled, before it is used.
Ready == opened = "done" \/ May("unopened")
\* The user waits until an earlier message has been taken.
Patient == May("impatient") \/ In(Asking) = {}

\* WorkspaceService.sendMessage when the session is not busy.
Send(m) ==
    /\ Ready /\ Patient
    /\ m \in unsent /\ phase = "idle"
    /\ Room(turn) /\ turn' = Begin(turn, "accept", "user", {m})
    /\ unsent' = unsent \ {m}
    /\ switches' = 0
    /\ UNCHANGED <<phase, queue, defer, starting, stray, stop, active, historyVars, armed,
                   failed, opened, bounds>>

\* WorkspaceService.sendMessage when it is busy.
Enqueue(m) ==
    /\ m \in unsent /\ phase # "idle"
    /\ queue' = queue \cup {m}
    /\ unsent' = unsent \ {m}
    /\ UNCHANGED <<phase, defer, turn, starting, stray, stop, active, switches, historyVars,
                   armed, failed, opened, bounds>>

\* sendMessage of an edit, up to its first await.
Edit(m) ==
    /\ Ready /\ Patient
    /\ m \in unsent /\ Count
    /\ Room(turn)
    /\ unsent' = unsent \ {m}
    /\ switches' = 0
    /\ \/ /\ phase = "idle"
          /\ turn' = Begin(turn, "truncate", "edit", {m})
          /\ queue' = {}
          /\ UNCHANGED <<defer, armed>>
       \/ /\ phase = "completing"
          /\ turn' = Begin(turn, "waiting", "edit", {m})
          /\ defer' = TRUE
          /\ UNCHANGED <<queue, armed>>
       \/ /\ phase \in {"preparing", "streaming"}
          /\ turn' = Begin(turn, "deleting", "edit", {m})
          /\ armed' = FALSE
          /\ UNCHANGED <<queue, defer>>
    /\ UNCHANGED <<phase, starting, stray, stop, active, historyVars, failed, opened>>

\* interruptStream, by the edit, once the partial is deleted.
EditStops(t) ==
    /\ At(t, "deleting")
    /\ StopStream(Goto(t, "stopping"))
    /\ UNCHANGED <<phase, queue, defer, stop, active, switches, historyVars, unsent, armed,
                   failed, opened, bounds>>

\* Mutant: an edit does not wait for the turn it has stopped.
StoppedAtOnce(t) ==
    /\ At(t, "stopping")
    /\ turn' = Goto(t, IF turn[t].kind = "edit" THEN "truncate" ELSE "waiting")
    /\ UNCHANGED <<phase, queue, defer, starting, stray, stop, active, switches, historyVars,
                   unsent, armed, failed, opened, bounds>>

\* The stop has returned to the edit or to interruptForCompaction.
Stopped(t) ==
    /\ At(t, "stopping")
    /\ \/ /\ phase = "idle"
          /\ BecomeIdle(Goto(t, "waiting"))
       \/ /\ phase # "idle"
          /\ turn' = Goto(t, "waiting")
          /\ defer' = (defer \/ turn[t].kind = "edit")
          /\ UNCHANGED <<phase, queue>>
    /\ UNCHANGED <<starting, stray, stop, active, switches, historyVars, unsent, armed, failed,
                   opened, bounds>>

\* WorkspaceService.interruptStream: a hard stop of the stream.
Interrupt ==
    /\ Count
    /\ ~stop /\ phase # "idle"
    /\ stop' = TRUE
    /\ armed' = FALSE
    /\ StopStream(turn)
    /\ UNCHANGED <<phase, queue, defer, active, switches, historyVars, unsent, failed, opened>>

\* ... which then sends the queue at once, or returns it to the input.
Interrupted ==
    /\ stop
    /\ stop' = FALSE
    /\ \/ May("now") /\ SendQueued(turn)
       \/ queue' = {} /\ UNCHANGED <<phase, defer, turn, switches>>
    /\ UNCHANGED <<starting, stray, active, historyVars, unsent, armed, failed, opened, bounds>>

\* resumeStream, by the user or by the retry timer.  A retry that finds the session
\* busy arms the timer again, as if it had not fired.
Resume ==
    /\ phase = "idle"
    /\ \/ armed /\ armed' = FALSE /\ UNCHANGED bounds
       \/ Ready /\ Patient /\ Count /\ UNCHANGED armed
    /\ Room(turn) /\ turn' = Begin(turn, "commit", "resume", {})
    /\ phase' = "preparing"
    /\ UNCHANGED <<queue, defer, starting, stray, stop, active, switches, historyVars, unsent,
                   failed, opened>>

----------------------------------------------------------------------------
(***************************************************************************)
(* A turn until its stream has started.                                    *)
(***************************************************************************)
\* truncateAfterMessage, by an edit.
Truncate(t) ==
    /\ At(t, "truncate")
    /\ turn' = Goto(t, "accept")
    /\ tail' = "reply"
    /\ owed' = FALSE /\ promised' = {}
    /\ UNCHANGED <<phase, queue, defer, starting, stray, stop, active, switches, written,
                   unsent, armed, failed, opened, bounds>>

\* sendMessage returns an error before anything is written.
Reject(t) ==
    /\ May("error")
    /\ At(t, "accept")
    /\ \/ /\ turn[t].kind = "queued"
          /\ IdleFrom("preparing", Settled(t, Free, FALSE))
       \/ /\ turn[t].kind # "queued"
          /\ turn' = Settled(t, Free, FALSE)
          /\ UNCHANGED <<phase, queue, defer>>
    /\ armed' \in IF turn[t].kind = "midstream" THEN MayRetry ELSE {armed}
    /\ failed' = TRUE
    /\ UNCHANGED <<starting, stray, stop, active, switches, historyVars, unsent, opened,
                   bounds>>

\* What sendMessage can make of a message of kind k: the message, a compaction request
\* of the user's, or a compaction request that the message itself is to follow.
Forms(k) ==
    CASE k = "midstream" -> {"deferred"}
      [] k # "midstream" /\ ~May("compact") -> {"message"}
      [] k = "edit" /\ May("compact") -> {"message", "request"}
      [] k = "user" /\ May("compact") -> {"message", "request", "deferred"}
      [] OTHER -> {"message", "deferred"}

\* sendMessage writes its message.  A synthetic send goes on at once, the others
\* first restore auto-retry.
Append(t) ==
    /\ At(t, "accept")
    /\ \E form \in Forms(turn[t].kind):
         /\ tail' = IF form = "message" THEN "chat" ELSE "compact"
         /\ owed' = (form = "deferred")
         /\ promised' = IF form = "deferred" THEN turn[t].sends ELSE {}
         /\ written' = IF form = "deferred" THEN written ELSE written \cup turn[t].sends
    /\ \/ /\ turn[t].kind \in Synthetic
          /\ phase' = "preparing"
          /\ turn' = [turn EXCEPT ![t].pc = "commit", ![t].sends = {}]
       \/ /\ turn[t].kind \notin Synthetic
          /\ turn' = [turn EXCEPT ![t].pc = "accepted", ![t].sends = {}]
          /\ UNCHANGED phase
    /\ UNCHANGED <<queue, defer, starting, stray, stop, active, switches, unsent, armed, failed,
                   opened, bounds>>

\* sendMessage after its message is accepted: a pending retry is void.
Accept(t) ==
    /\ At(t, "accepted")
    /\ turn' = Goto(t, "commit")
    /\ phase' = "preparing"
    /\ armed' = FALSE
    /\ UNCHANGED <<queue, defer, starting, stray, stop, active, switches, historyVars, unsent,
                   failed, opened, bounds>>

\* streamWithHistory: commitPartial, then the history is read.  A history that ends
\* with a finished reply gets a [CONTINUE] message.
Commit(t) ==
    /\ At(t, "commit")
    /\ tail # "none"
    /\ turn' = Goto(t, "pending")
    /\ starting' = t
    /\ active' = (tail = "compact")
    /\ IF tail \in {"reply", "summary"}
       THEN tail' = "chat" /\ owed' = FALSE /\ promised' = {}
       ELSE UNCHANGED <<tail, owed, promised>>
    /\ UNCHANGED <<phase, queue, defer, stray, stop, switches, written, unsent, armed, failed,
                   opened, bounds>>

\* Turn t settles without a stream.
GiveUp(t, ok) ==
    /\ IdleFrom("preparing", Settled(t, Free, ok))
    /\ starting' = IF starting = t THEN NoTurn ELSE starting
    /\ UNCHANGED <<stray, stop, active, switches, historyVars, unsent, opened, bounds>>

\* There is nothing in the history.
CommitNothing(t) ==
    /\ At(t, "commit")
    /\ tail = "none"
    /\ GiveUp(t, FALSE)
    /\ armed' \in IF turn[t].kind = "resume" THEN MayRetry ELSE {armed}
    /\ failed' = TRUE

\* commitPartial or the read fails, or the runtime is not ready.
CommitFails(t) ==
    /\ May("error")
    /\ At(t, "commit") \/ At(t, "pending")
    /\ GiveUp(t, FALSE)
    /\ armed' \in IF turn[t].kind = "resume" \/ At(t, "pending") THEN MayRetry ELSE {armed}
    /\ failed' = TRUE

\* startStream finds its start aborted.
StartDropped(t) ==
    /\ At(t, "pending") /\ turn[t].dropped
    /\ GiveUp(t, TRUE)
    /\ failed' = TRUE
    /\ UNCHANGED armed

\* startStream cancels the stream it finds.
StartCancels(t) ==
    /\ At(t, "pending")
    /\ \E u \in In({"live"}): turn' = Goto(u, "aborting")
    /\ UNCHANGED <<phase, queue, defer, starting, stray, stop, active, switches, historyVars,
                   unsent, armed, failed, opened, bounds>>

\* stream-start; the promise of the send settles.  An attempt of a send that failed
\* before settles as a failure all the same.
Start(t) ==
    /\ At(t, "pending") /\ ~turn[t].dropped
    /\ In({"live"}) = {}
    /\ May("overtake") \/ (stray = "no" /\ In({"aborting"}) = {})
    /\ phase' = "streaming"
    /\ turn' = Settled(t, [turn[t] EXCEPT !.pc = "live", !.kind = "none"], ~turn[t].again)
    /\ starting' = IF starting = t THEN NoTurn ELSE starting
    /\ failed' = FALSE
    /\ UNCHANGED <<queue, defer, stray, stop, active, switches, historyVars, unsent, armed,
                   opened, bounds>>

\* streamMessage fails: handleStreamError, awaited by the send.
StartFails(t) ==
    /\ May("error")
    /\ At(t, "pending") /\ ~turn[t].dropped
    /\ phase' = "completing"
    /\ turn' = Goto(t, "erring")
    /\ starting' = IF starting = t THEN NoTurn ELSE starting
    /\ UNCHANGED <<queue, defer, stray, stop, active, switches, historyVars, unsent, armed,
                   failed, opened, bounds>>

----------------------------------------------------------------------------
(***************************************************************************)
(* The stream and the handlers of the event that ends it.                  *)
(***************************************************************************)
\* usage-delta over the limit: interruptForCompaction, up to its first await.
MidStream(t) ==
    /\ May("midstream")
    /\ At(t, "live") /\ ~active
    /\ \A v \in In(Asking \cup Beginning): turn[v].kind # "midstream"
    /\ Room(turn) /\ StopStream(Begin(turn, "stopping", "midstream", {}))
    /\ UNCHANGED <<phase, queue, defer, stop, active, switches, historyVars, unsent, armed,
                   failed, opened, bounds>>

\* The session's stream-abort handler, up to its first await; it only passes the
\* event on unless the phase is STREAMING.
BeginAbort ==
    /\ phase = "streaming"
    /\ phase' = "completing"
    /\ active' = FALSE
    /\ queue' = IF active THEN {} ELSE queue

\* It runs once AIService has committed or deleted the partial.
AbortArrives(t) ==
    /\ At(t, "aborting")
    /\ \/ BeginAbort /\ turn' = Goto(t, "settling")
       \/ /\ phase # "streaming"
          /\ turn' = [turn EXCEPT ![t] = Free]
          /\ UNCHANGED <<phase, queue, active>>
    /\ UNCHANGED <<defer, starting, stray, stop, switches, historyVars, unsent, armed, failed,
                   opened, bounds>>

StrayArrives ==
    /\ stray = "coming"
    /\ May("overtake") \/ In({"aborting"}) = {}
    /\ \/ BeginAbort /\ stray' = "settling"
       \/ phase # "streaming" /\ stray' = "no" /\ UNCHANGED <<phase, active, queue>>
    /\ UNCHANGED <<defer, turn, starting, stop, switches, historyVars, unsent, armed, failed,
                   opened, bounds>>

\* Mutant: the stream-abort handler forgets to make the session idle.
AbortSettlesBusy(t) ==
    /\ At(t, "settling")
    /\ turn' = [turn EXCEPT ![t] = Free]
    /\ armed' = FALSE
    /\ failed' = TRUE
    /\ UNCHANGED <<phase, queue, defer, starting, stray, stop, active, switches, historyVars,
                   unsent, opened, bounds>>

\* The end of the stream-abort handler: an aborted turn is not retried.
AbortSettles(t) ==
    /\ At(t, "settling")
    /\ BecomeIdle([turn EXCEPT ![t] = Free])
    /\ armed' = FALSE
    /\ failed' = TRUE
    /\ UNCHANGED <<starting, stray, stop, active, switches, historyVars, unsent, opened,
                   bounds>>

StraySettles ==
    /\ stray = "settling"
    /\ stray' = "no"
    /\ BecomeIdle(turn)
    /\ armed' = FALSE
    /\ failed' = TRUE
    /\ UNCHANGED <<starting, stop, active, switches, historyVars, unsent, opened, bounds>>

\* stream-end, up to its first await.
StreamEnds(t) ==
    /\ At(t, "live")
    /\ turn' = Goto(t, "ending")
    /\ phase' = "completing"
    /\ armed' = FALSE
    /\ UNCHANGED <<queue, defer, starting, stray, stop, active, switches, historyVars, unsent,
                   failed, opened, bounds>>

\* The stream-end handler t awaits a synthetic send of the messages in c.
SendSynthetic(t, k, c) ==
    Room(turn) /\ turn' = [Begin(turn, "accept", k, c) EXCEPT ![t].pc = "await"]

\* Mutant: hand-overs are not limited.
CompleteUnlimited(t) ==
    /\ At(t, "ending") /\ tail # "compact" /\ May("switch")
    /\ switches' = switches + 1
    /\ SendSynthetic(t, "switch", {})
    /\ UNCHANGED <<phase, queue, defer, starting, stray, stop, active, historyVars, unsent, armed,
                   failed, opened, bounds>>

\* compactionHandler.handleCompletion: a compaction request at the end of the history
\* makes the reply a summary, unless it is empty.  A switch_agent call starts a turn.
Complete(t) ==
    /\ At(t, "ending")
    /\ active' = FALSE
    /\ \/ /\ tail \in {"compact", "summary"}
          /\ tail' = "summary"
          /\ turn' = Goto(t, "handled")
          /\ UNCHANGED <<switches, owed, promised>>
       \/ /\ tail # "summary"
          /\ tail = "compact" => May("error")
          /\ tail' = "reply"
          /\ owed' = FALSE /\ promised' = {}
          /\ \/ turn' = Goto(t, "flush") /\ UNCHANGED switches
             \/ /\ May("switch") /\ switches < MaxSwitches
                /\ switches' = switches + 1
                /\ SendSynthetic(t, "switch", {})
    /\ UNCHANGED <<phase, queue, defer, starting, stray, stop, written, unsent, armed, failed,
                   opened, bounds>>

\* dispatchPendingFollowUp after a compaction.
Dispatch(t) ==
    /\ At(t, "handled")
    /\ \/ tail = "summary" /\ owed /\ SendSynthetic(t, "followup", promised)
       \/ ~(tail = "summary" /\ owed) /\ turn' = Goto(t, "flush")
    /\ UNCHANGED <<phase, queue, defer, starting, stray, stop, active, switches, historyVars,
                   unsent, armed, failed, opened, bounds>>

\* Mutant: the stream-end handler leaves the queue alone.
FlushNothing(t) ==
    /\ At(t, "flush")
    /\ IdleFrom("completing", [turn EXCEPT ![t] = Free])
    /\ UNCHANGED <<starting, stray, stop, active, switches, historyVars, unsent, armed, failed,
                   opened, bounds>>

\* The end of the stream-end handler: the queue, unless an edit waits; then idle.
Flush(t) ==
    /\ At(t, "flush")
    /\ \/ ~defer /\ SendQueued([turn EXCEPT ![t] = Free])
       \/ (defer \/ queue = {}) /\ IdleFrom("completing", [turn EXCEPT ![t] = Free]) /\ UNCHANGED switches
    /\ UNCHANGED <<starting, stray, stop, active, historyVars, unsent, armed, failed, opened,
                   bounds>>

\* The end of a stream-end handler that leaves the queue alone.
Finally(t) ==
    /\ At(t, "finally")
    /\ IdleFrom("completing", [turn EXCEPT ![t] = Free])
    /\ UNCHANGED <<starting, stray, stop, active, switches, historyVars, unsent, armed, failed,
                   opened, bounds>>

\* error: handleStreamError, up to its first await.
StreamFails(t) ==
    /\ May("error") \/ May("retry")
    /\ At(t, "live")
    /\ turn' = Goto(t, "erring")
    /\ phase' = "completing"
    /\ UNCHANGED <<queue, defer, starting, stray, stop, active, switches, historyVars, unsent,
                   armed, failed, opened, bounds>>

\* A context limit is met once with another attempt (maybeRetryCompaction and the like).
Retry(t) ==
    /\ At(t, "erring") /\ ~turn[t].again
    /\ turn' = [turn EXCEPT ![t].pc = "commit", ![t].again = TRUE]
    /\ phase' = "preparing"
    /\ UNCHANGED <<queue, defer, starting, stray, stop, active, switches, historyVars, unsent,
                   armed, failed, opened, bounds>>

\* A terminal error: the queue behind a failed compaction is dropped ...
ErrorStands(t) ==
    /\ At(t, "erring")
    /\ turn' = Goto(t, "failing")
    /\ active' = FALSE
    /\ queue' = IF active THEN {} ELSE queue
    /\ UNCHANGED <<phase, defer, starting, stray, stop, switches, historyVars, unsent, armed,
                   failed, opened, bounds>>

\* ... and a retry may be scheduled.
FailureSettles(t) ==
    /\ At(t, "failing")
    /\ BecomeIdle(Settled(t, Free, FALSE))
    /\ armed' \in MayRetry
    /\ failed' = TRUE
    /\ UNCHANGED <<starting, stray, stop, active, switches, historyVars, unsent, opened,
                   bounds>>

----------------------------------------------------------------------------
(***************************************************************************)
(* Crashes and startup.                                                    *)
(***************************************************************************)
\* scheduleStartupRecovery, when the workspace is first opened: dispatchPendingFollowUp.
Open ==
    /\ opened = "no"
    /\ opened' = "check"
    /\ \/ /\ tail = "summary" /\ owed
          /\ Room(turn) /\ turn' = Begin(turn, "accept", "recovered", promised)
       \/ ~(tail = "summary" /\ owed) /\ UNCHANGED turn
    /\ UNCHANGED <<phase, queue, defer, starting, stray, stop, active, switches, historyVars,
                   unsent, armed, failed, bounds>>

\* scheduleStartupAutoRetryIfNeeded, deferred while the session is busy.
StartupCheck ==
    /\ opened = "check"
    /\ phase = "idle"
    /\ \A t \in In(Asking \cup Beginning): turn[t].kind # "recovered"
    /\ opened' = "done"
    /\ armed' \in IF tail \in {"chat", "compact"} THEN {armed} \cup MayRetry ELSE {armed}
    /\ UNCHANGED <<phase, queue, defer, turn, starting, stray, stop, active, switches,
                   historyVars, unsent, failed, bounds>>

\* Only the history survives.
Crash ==
    /\ Count
    /\ phase' = "idle"
    /\ queue' = {} /\ defer' = FALSE
    /\ turn' = [t \in Turns |-> Free]
    /\ starting' = NoTurn
    /\ stray' = "no" /\ stop' = FALSE
    /\ active' = FALSE /\ switches' = 0
    /\ armed' = FALSE
    /\ failed' = FALSE
    /\ opened' = "no"
    /\ UNCHANGED <<historyVars, unsent>>

----------------------------------------------------------------------------
\* What the session does on its own, once asked.
Step(t) ==
    \/ EditStops(t) \/ Stopped(t) \/ Truncate(t) \/ Append(t) \/ Accept(t)
    \/ Commit(t) \/ CommitNothing(t)
    \/ StartDropped(t) \/ StartCancels(t) \/ Start(t) \/ AbortArrives(t) \/ AbortSettles(t)
    \/ StreamEnds(t) \/ Complete(t) \/ Dispatch(t) \/ ErrorStands(t) \/ FailureSettles(t)

\* A continuation that waits for nothing runs before any other step.
Continue(t) == Flush(t) \/ Finally(t)

Next ==
    \/ \E t \in Turns: Continue(t)
    \/ /\ In({"flush", "finally"}) = {}
       /\ \/ \E t \in Turns:
               \/ Step(t) \/ MidStream(t) \/ Retry(t)
               \/ Reject(t) \/ CommitFails(t) \/ StartFails(t) \/ StreamFails(t)
          \/ \E m \in Messages: Send(m) \/ Enqueue(m) \/ Edit(m)
          \/ Interrupt \/ Interrupted \/ Resume \/ StrayArrives \/ StraySettles
          \/ Open \/ StartupCheck \/ Crash

Spec == Init /\ [][Next]_vars

----------------------------------------------------------------------------
TypeOK ==
    /\ phase \in Phase
    /\ queue \subseteq Messages /\ defer \in BOOLEAN
    /\ turn \in [Turns -> Turn]
    /\ starting \in Turns \cup {NoTurn}
    /\ stray \in {"no", "coming", "settling"} /\ stop \in BOOLEAN
    /\ active \in BOOLEAN /\ switches \in 0..MaxSwitches
    /\ tail \in Tail /\ owed \in BOOLEAN
    /\ promised \subseteq Messages /\ written \subseteq Messages /\ unsent \subseteq Messages
    /\ armed \in BOOLEAN /\ failed \in BOOLEAN
    /\ opened \in {"no", "check", "done"}
    /\ events \subseteq Event
    /\ left \in Nat

\* The phase is never stuck: some turn, stop or handler will still change it
\* (setTurnPhase).  Nothing else ends a phase, and a session that is busy for good
\* queues every message and never delivers one.
PhaseExplained ==
    /\ phase = "preparing" =>
         \E t \in In(Beginning \cup {"accept", "accepted"}):
             At(t, "accept") \/ At(t, "accepted") => turn[t].kind = "queued"
    /\ phase = "streaming" => stray = "coming" \/ In({"live", "aborting"}) # {}
    /\ phase = "completing" => stray = "settling" \/ In(After \ {"aborting"}) # {}

\* A message is in one place at most: with the user, in the queue, in the send of one
\* turn, in the follow-up of a compaction, or in the history.  So no message is sent, or
\* written, twice (sendQueuedMessages, sendMessage).  Only the follow-up of a summary can
\* be found by several handlers (dispatchPendingFollowUp), and it stays in the summary
\* while it is sent.
Places(m) ==
    {t \in Turns: m \in turn[t].sends}
        \cup {<<"unsent">>: x \in {m} \cap unsent} \cup {<<"queue">>: x \in {m} \cap queue}
        \cup {<<"history">>: x \in {m} \cap written}
        \cup {<<"follow-up">>: x \in {m} \cap promised}
SendsFollowUp(t) == turn[t].kind \in {"followup", "recovered"}
FollowUpPlaces(m) ==
    {t \in Turns: SendsFollowUp(t) /\ m \in turn[t].sends} \cup {<<"history">>, <<"follow-up">>}
MessageOnce ==
    \A m \in Messages:
        \/ \A p, q \in Places(m): p = q
        \/ May("compact") /\ Places(m) \subseteq FollowUpPlaces(m)

\* An idle session runs no turn: no start, stream or handler is in progress when
\* isBusy answers no, outside the events of which the README says otherwise (a
\* callback that sets the phase for a turn that another has replaced).
Orderly ==
    /\ events \cap {"compact", "midstream", "retry", "now", "impatient", "overtake"} = {}
    /\ ~ {"switch", "error"} \subseteq events
IdleMeansIdle ==
    Orderly /\ phase = "idle" =>
        In({"live"} \cup Beginning \cup (After \ {"aborting", "flush", "finally"})) = {}

\* A message in the queue of an idle session is only there because the last turn
\* failed or was stopped, or because another is about to begin; a turn that ends
\* well delivers the queue, through compactions, follow-ups and hand-overs.
QueueNotStranded ==
    phase = "idle" /\ queue # {} => failed \/ stop \/ In(Asking) # {}

\* An edit cuts the history only when no other turn can still write to it: "Ensure no
\* in-flight completion code can append after we truncate" (sendMessage).  Where two
\* turns can run beside each other, the phase that the edit waits for is not enough.
EditTruncatesAlone ==
    [][Orderly => \A t \in Turns: Truncate(t) => In({"live"} \cup Beginning \cup After) = {}]_vars

(***************************************************************************)
(* Streams end, a stop reaches its stream, and a handler runs on; nothing  *)
(* is assumed of the user.  From some time on a message is not compacted   *)
(* when it is sent: after a compaction the context is the summary, and the *)
(* usage is unknown (lastUsageState), so that the message does not start   *)
(* another.                                                                *)
(***************************************************************************)
Fairness ==
    /\ \A t \in Turns: WF_vars(Step(t)) /\ WF_vars(Continue(t))
    /\ WF_vars(Interrupted) /\ WF_vars(StrayArrives) /\ WF_vars(StraySettles)
    /\ <>[][\A t \in Turns: Append(t) /\ turn[t].kind # "midstream" => tail' = "chat"]_vars

FairSpec == Spec /\ Fairness

\* A busy session becomes idle again, whatever is stopped, compacted, handed over or
\* fails on the way (setTurnPhase, waitForIdle).
SessionSettles == phase # "idle" ~> phase = "idle"

\* An edit that stops the turn it replaces, or waits for one to settle, gets to its
\* own history: no turn, queue or follow-up keeps the session from it (sendMessage).
EditProceeds ==
    \A t \in Turns:
        turn[t].kind = "edit" /\ turn[t].pc \in {"deleting", "stopping", "waiting"}
            ~> turn[t].pc \in {"truncate", "free"}

----------------------------------------------------------------------------
\* "Your message is delivered after the agent's entire turn completes": the end of a
\* stream never sends the queue over another stream, such as that of a follow-up.
QueueWaitsForTurn ==
    [][\A t \in Turns: At(t, "flush") /\ turn'[t].kind = "queued" => In({"live"}) = {}]_vars

\* "The user message persisted by sendMessage() serves as proof of dispatch": no two turns
\* send the same follow-up, which is looked up in the summary before that message is there
\* (dispatchPendingFollowUp).
DispatchedOnce ==
    \A t, u \in Turns: t # u => turn[t].sends \cap turn[u].sends = {}
====
