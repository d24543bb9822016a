---------------------------- MODULE RetryManager ----------------------------
(***************************************************************************)
(* src/node/services/retryManager.ts: the auto-retry timer of one          *)
(* workspace session.  A retryable stream failure arms a back-off timer;   *)
(* when it fires the manager calls onRetry, an asynchronous callback that  *)
(* may settle much later.  Stops (cancel, success, dispose, disabling) may *)
(* come at any point: while the timer is armed, from inside the listener   *)
(* of a status event (the listener runs synchronously), or while an        *)
(* earlier callback is still running.                                      *)
(***************************************************************************)
EXTENDS Naturals

CONSTANTS
    MaxGeneration,  \* bound on retryGeneration (the code's counter is unbounded)
    Reactions       \* what a status listener may do before it returns

ASSUME BoundAssumption == MaxGeneration \in Nat
ASSUME ReactionAssumption ==
    "ignore" \in Reactions /\ Reactions \subseteq {"ignore", "cancel", "disable"}

None == 0  \* null; generations of armed timers and announced attempts are positive

VARIABLES
    enabled,     \* auto-retry is allowed
    attempt,     \* state.attempt
    generation,  \* retryGeneration
    timer,       \* retryTimer: the scheduledGeneration its closure captured, or None
    pending,     \* pendingScheduledEvent: its attempt (delayMs is a function of it), or None
    callbacks,   \* generations whose onRetry promise has not settled
    status,      \* the last status event the front end received
    owed         \* history: the generation of the retry promised and not withdrawn, or None

vars == <<enabled, attempt, generation, timer, pending, callbacks, status, owed>>

Status == {"none", "scheduled", "starting", "abandoned"}

Init ==
    /\ enabled = TRUE
    /\ attempt = 0
    /\ generation = 0
    /\ timer = None
    /\ pending = None
    /\ callbacks = {}
    /\ status = "none"
    /\ owed = None

(***************************************************************************)
(* The state after onStatusChange has returned, when it was called with    *)
(* generation g, attempt n, pending event e and status s.  A listener that *)
(* cancels or disables does so before the caller goes on.                  *)
(***************************************************************************)
AfterStatus(reaction, g, n, e, s) ==
    /\ reaction = "ignore" \/ g < MaxGeneration
    /\ enabled' = IF reaction = "disable" THEN FALSE ELSE enabled
    /\ generation' = IF reaction = "ignore" THEN g ELSE g + 1
    /\ attempt' = IF reaction = "ignore" THEN n ELSE 0
    /\ pending' = IF reaction = "ignore" THEN e ELSE None
    /\ status' = IF reaction = "disable" /\ n > 0 THEN "abandoned" ELSE s

----------------------------------------------------------------------------
\* handleStreamFailure with a non-retryable error: gives up, keeps the attempt count.
FailNonRetryable ==
    /\ enabled
    /\ generation < MaxGeneration
    /\ timer' = None
    /\ pending' = None
    /\ generation' = generation + 1
    /\ status' = "abandoned"
    /\ owed' = None
    /\ UNCHANGED <<enabled, attempt, callbacks>>

\* Mutant: the closure captures the generation before it is incremented.
FailRetryableCapturesOld ==
    /\ enabled
    /\ generation < MaxGeneration
    /\ \E reaction \in Reactions:
         /\ AfterStatus(reaction, generation + 1, attempt + 1, attempt + 1, "scheduled")
         /\ owed' = IF reaction = "ignore" THEN generation + 1 ELSE None
    /\ timer' = generation
    /\ UNCHANGED callbacks

\* handleStreamFailure with a retryable error.  The timer is armed after the
\* "scheduled" event has been emitted, whatever the listener did.
FailRetryable ==
    /\ enabled
    /\ generation < MaxGeneration
    /\ \E reaction \in Reactions:
         /\ AfterStatus(reaction, generation + 1, attempt + 1, attempt + 1, "scheduled")
         /\ owed' = IF reaction = "ignore" THEN generation + 1 ELSE None
    /\ timer' = generation + 1
    /\ UNCHANGED callbacks

\* The timer callback of a generation that a stop has superseded.
FireStale ==
    /\ timer # None
    /\ ~enabled \/ timer # generation
    /\ timer' = None
    /\ pending' = None
    /\ UNCHANGED <<enabled, attempt, generation, callbacks, status, owed>>

\* Mutant: no second check after the "starting" event.
FireLiveNoRecheck ==
    /\ timer # None
    /\ enabled
    /\ timer = generation
    /\ timer' = None
    /\ \E reaction \in Reactions: AfterStatus(reaction, generation, attempt, None, "starting")
    /\ callbacks' = callbacks \cup {timer}
    /\ owed' = None

\* Mutant: waits for the previous callback, which need not settle.
FireLiveOneAtATime ==
    /\ timer # None
    /\ enabled
    /\ timer = generation
    /\ callbacks = {}
    /\ timer' = None
    /\ \E reaction \in Reactions: AfterStatus(reaction, generation, attempt, None, "starting")
    /\ callbacks' = IF enabled' /\ generation' = timer
                    THEN callbacks \cup {timer} ELSE callbacks
    /\ owed' = None

\* The timer callback of the current generation: emits "starting", checks again
\* and calls onRetry unless the listener stopped it.
FireLive ==
    /\ timer # None
    /\ enabled
    /\ timer = generation
    /\ timer' = None
    /\ \E reaction \in Reactions: AfterStatus(reaction, generation, attempt, None, "starting")
    /\ callbacks' = IF enabled' /\ generation' = timer
                    THEN callbacks \cup {timer} ELSE callbacks
    /\ owed' = None

\* onRetry's promise resolves: nothing to do.
CallbackResolves(g) ==
    /\ g \in callbacks
    /\ callbacks' = callbacks \ {g}
    /\ UNCHANGED <<enabled, attempt, generation, timer, pending, status, owed>>

\* onRetry's promise rejects: reported only while its generation is current.
CallbackRejects(g) ==
    /\ g \in callbacks
    /\ callbacks' = callbacks \ {g}
    /\ status' = IF enabled /\ g = generation THEN "abandoned" ELSE status
    /\ UNCHANGED <<enabled, attempt, generation, timer, pending, owed>>

\* Mutant: the fresh state restarts the generation counter.
CancelRestartsGenerations ==
    /\ generation < MaxGeneration
    /\ timer' = None
    /\ pending' = None
    /\ generation' = 0
    /\ attempt' = 0
    /\ owed' = None
    /\ UNCHANGED <<enabled, callbacks, status>>

\* Mutant: the snapshot for reconnecting front ends is not cleared.
CancelKeepsSnapshot ==
    /\ generation < MaxGeneration
    /\ timer' = None
    /\ generation' = generation + 1
    /\ attempt' = 0
    /\ owed' = None
    /\ UNCHANGED <<enabled, callbacks, status, pending>>

\* cancel, handleStreamSuccess and dispose.
Cancel ==
    /\ generation < MaxGeneration
    /\ timer' = None
    /\ pending' = None
    /\ generation' = generation + 1
    /\ attempt' = 0
    /\ owed' = None
    /\ UNCHANGED <<enabled, callbacks, status>>

Enable ==
    /\ enabled' = TRUE
    /\ UNCHANGED <<attempt, generation, timer, pending, callbacks, status, owed>>

Disable ==
    /\ generation < MaxGeneration
    /\ enabled' = FALSE
    /\ status' = IF timer # None \/ attempt > 0 THEN "abandoned" ELSE status
    /\ timer' = None
    /\ pending' = None
    /\ generation' = generation + 1
    /\ attempt' = 0
    /\ owed' = None
    /\ UNCHANGED callbacks

Fire == FireStale \/ FireLive

Next ==
    \/ FailNonRetryable \/ FailRetryable
    \/ FireStale \/ FireLive
    \/ \E g \in callbacks: CallbackResolves(g) \/ CallbackRejects(g)
    \/ Cancel \/ Enable \/ Disable

\* An armed Node timer fires eventually unless it is cleared.
Spec == Init /\ [][Next]_vars /\ WF_vars(Fire)

----------------------------------------------------------------------------
TypeOK ==
    /\ enabled \in BOOLEAN
    /\ attempt \in Nat
    /\ generation \in Nat
    /\ timer \in 0..generation
    /\ pending \in Nat
    /\ callbacks \subseteq 1..generation
    /\ status \in Status
    /\ owed \in 0..generation

\* A promised retry is never lost: while no later failure, stop or success has
\* withdrawn it, the manager is enabled and the live timer is the one that will
\* pass both generation checks (handleStreamFailure, cancelPendingTimer).
OwedRetryIsArmed ==
    owed # None => enabled /\ timer = owed /\ generation = owed

\* The snapshot replayed to a front end that reconnects
\* (getScheduledStatusSnapshot) announces a retry exactly while one is promised,
\* and with the attempt whose back-off is running.
SnapshotIsPromise ==
    /\ pending = None <=> owed = None
    /\ pending # None => pending = attempt

\* A scheduled generation is retried at most once: an armed timer never carries a
\* generation whose onRetry was already called and has not settled.
NoSecondCallback == timer # None => timer \notin callbacks

\* What the timer, the generations and the snapshot always agree on, whatever stops, listeners
\* and late callbacks come in between (retryManager.ts:60-184).
RetryInv == TypeOK /\ OwedRetryIsArmed /\ SnapshotIsPromise /\ NoSecondCallback

\* onRetry is called only to keep a promise nobody has withdrawn: not after a
\* stop, not from inside the listener that stopped it, not twice.
RetryOnlyWhenOwed ==
    [][\A g \in callbacks' : g \notin callbacks => g = owed /\ enabled' /\ g = generation']_vars

\* Every promised retry is eventually started or withdrawn.
OwedRetryIsSettled == \A g \in 1..MaxGeneration : owed = g ~> owed # g

\* retryManager.ts:155-159 says that disabling notifies the front end, which would
\* otherwise remain stuck in retry state.  A cancel just before (interruptStream)
\* drops the retry without an event and makes the disable silent as well.
DisabledShowsNoRetry == ~enabled => status \notin {"scheduled", "starting"}

=============================================================================
