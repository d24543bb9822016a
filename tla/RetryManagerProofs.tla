------------------------- MODULE RetryManagerProofs -------------------------
(***************************************************************************)
(* Safety of the auto-retry timer, for every bound on generations and any  *)
(* set of listener reactions.  A timer of the current generation exists    *)
(* exactly while a retry is owed; TimerIsPromise says so for both          *)
(* directions, which makes the invariant inductive.                        *)
(***************************************************************************)
EXTENDS RetryManager, TLAPS

TimerIsPromise ==
    timer # None /\ timer = generation => owed = timer

\* A promised retry follows at least one failure, so the snapshot is not null.
AttemptCounted == owed # None => attempt > 0

IInv ==
    /\ TypeOK
    /\ OwedRetryIsArmed
    /\ SnapshotIsPromise
    /\ NoSecondCallback
    /\ TimerIsPromise
    /\ AttemptCounted

LEMMA InitIInv == Init => IInv
  <1> SUFFICES ASSUME Init PROVE IInv
    OBVIOUS
  <1>1. TypeOK
    <2>1. callbacks \subseteq 1..generation /\ timer \in 0..generation /\ owed \in 0..generation
      BY DEF Init, None
    <2>2. attempt \in Nat /\ generation \in Nat /\ pending \in Nat /\ status \in Status
      BY DEF Init, None, Status
    <2>3. enabled \in BOOLEAN
      BY DEF Init
    <2> QED BY <2>1, <2>2, <2>3 DEF TypeOK
  <1>2. OwedRetryIsArmed /\ NoSecondCallback /\ TimerIsPromise /\ AttemptCounted
    BY DEF Init, None, OwedRetryIsArmed, NoSecondCallback, TimerIsPromise, AttemptCounted
  <1>3. SnapshotIsPromise
    BY Zenon DEF Init, SnapshotIsPromise
  <1> QED BY <1>1, <1>2, <1>3 DEF IInv

\* The inductive invariant is preserved by every handler and callback of the manager.
LEMMA StepIInv == IInv /\ [Next]_vars => IInv'
  <1> SUFFICES ASSUME IInv, [Next]_vars PROVE IInv'
    OBVIOUS
  <1> USE BoundAssumption, ReactionAssumption
      DEF IInv, TypeOK, Status, None, OwedRetryIsArmed, SnapshotIsPromise,
          NoSecondCallback, TimerIsPromise, AttemptCounted
  <1>1. CASE FailNonRetryable
    BY <1>1 DEF FailNonRetryable
  <1>2. CASE FailRetryable
    <2>1. PICK reaction \in Reactions :
            /\ AfterStatus(reaction, generation + 1, attempt + 1, attempt + 1, "scheduled")
            /\ owed' = IF reaction = "ignore" THEN generation + 1 ELSE None
      BY <1>2 DEF FailRetryable
    <2>2. timer' = generation + 1 /\ callbacks' = callbacks /\ enabled
      BY <1>2 DEF FailRetryable
    <2>3. CASE reaction = "ignore"
      BY <2>1, <2>2, <2>3 DEF AfterStatus
    <2>4. CASE reaction # "ignore"
      BY <2>1, <2>2, <2>4 DEF AfterStatus
    <2> QED BY <2>3, <2>4
  <1>3. CASE FireStale
    BY <1>3 DEF FireStale
  <1>4. CASE FireLive
    <2>1. PICK reaction \in Reactions :
            AfterStatus(reaction, generation, attempt, None, "starting")
      BY <1>4 DEF FireLive
    <2>2. /\ timer # None /\ timer = generation /\ enabled
          /\ timer' = None /\ owed' = None
          /\ callbacks' = IF enabled' /\ generation' = timer
                          THEN callbacks \cup {timer} ELSE callbacks
      BY <1>4 DEF FireLive
    <2>3. CASE reaction = "ignore"
      BY <2>1, <2>2, <2>3 DEF AfterStatus
    <2>4. CASE reaction # "ignore"
      BY <2>1, <2>2, <2>4 DEF AfterStatus
    <2> QED BY <2>3, <2>4
  <1>5. CASE \E g \in callbacks : CallbackResolves(g) \/ CallbackRejects(g)
    <2>1. PICK g \in callbacks : CallbackResolves(g) \/ CallbackRejects(g)
      BY <1>5
    <2>2. CASE CallbackResolves(g)
      BY <2>2 DEF CallbackResolves
    <2>3. CASE CallbackRejects(g)
      BY <2>3 DEF CallbackRejects
    <2> QED BY <2>1, <2>2, <2>3
  <1>6. CASE Cancel
    BY <1>6 DEF Cancel
  <1>7. CASE Enable
    BY <1>7 DEF Enable
  <1>8. CASE Disable
    <2>1. status' \in Status /\ enabled' \in BOOLEAN
      BY <1>8 DEF Disable
    <2>2. /\ timer' = None /\ pending' = None /\ attempt' = 0
          /\ generation' = generation + 1 /\ owed' = None /\ callbacks' = callbacks
      BY <1>8 DEF Disable
    <2> QED BY <2>1, <2>2
  <1>9. CASE UNCHANGED vars
    BY <1>9 DEF vars
  <1> QED BY <1>1, <1>2, <1>3, <1>4, <1>5, <1>6, <1>7, <1>8, <1>9 DEF Next

\* The inductive invariant holds throughout (retryManager.ts:60-150).
THEOREM IInvAlways == Spec => []IInv
  BY InitIInv, StepIInv, PTL DEF Spec

\* A promised retry is armed and announced until it is withdrawn, and made at most once
\* (handleStreamFailure, cancelPendingTimer, getScheduledStatusSnapshot).
THEOREM RetryInvAlways == Spec => []RetryInv
  <1>1. IInv => RetryInv
    BY DEF IInv, RetryInv
  <1> QED BY IInvAlways, <1>1, PTL

\* Generations of timers and running callbacks never run ahead of retryGeneration.
THEOREM TypeCorrect == Spec => []TypeOK
  <1>1. IInv => TypeOK
    BY DEF IInv
  <1> QED BY IInvAlways, <1>1, PTL

\* handleStreamFailure's promise is kept by a live timer until it is withdrawn.
THEOREM OwedRetryArmed == Spec => []OwedRetryIsArmed
  <1>1. IInv => OwedRetryIsArmed
    BY DEF IInv
  <1> QED BY IInvAlways, <1>1, PTL

\* getScheduledStatusSnapshot tells a reconnecting front end the truth.
THEOREM SnapshotTrue == Spec => []SnapshotIsPromise
  <1>1. IInv => SnapshotIsPromise
    BY DEF IInv
  <1> QED BY IInvAlways, <1>1, PTL

\* onRetry runs only for a retry that is owed, and never after a stop.
THEOREM RetryOwed == Spec => RetryOnlyWhenOwed
  <1> DEFINE Starts == \A g \in callbacks' : g \notin callbacks => g = owed /\ enabled' /\ g = generation'
  <1>1. IInv /\ [Next]_vars => [Starts]_vars
    <2> SUFFICES ASSUME IInv, Next PROVE Starts
      BY DEF vars
    <2>1. CASE FireLive
      BY <2>1 DEF FireLive, IInv, TimerIsPromise
    <2>2. CASE ~FireLive
      <3>1. callbacks' \subseteq callbacks
        BY <2>2 DEF Next, FailNonRetryable, FailRetryable, FireStale, CallbackResolves,
                    CallbackRejects, Cancel, Enable, Disable
      <3> QED BY <3>1
    <2> QED BY <2>1, <2>2
  <1> QED BY IInvAlways, <1>1, PTL DEF Spec, RetryOnlyWhenOwed
=============================================================================
