------------------------------ MODULE AsyncMutex ------------------------------
(***************************************************************************)
(* node/utils/concurrency/asyncMutex.ts: a flag, a queue of resolvers and  *)
(* the microtasks between them.  A release wakes one waiter, but the woken *)
(* caller looks at the flag again only when its microtask runs; a caller   *)
(* that asks in between takes the lock, and the woken one goes back to the *)
(* END of the queue.                                                       *)
(***************************************************************************)
EXTENDS Sequences

CONSTANT Callers

VARIABLES
    locked,   \* AsyncMutex.locked
    queue,    \* AsyncMutex.queue, as the callers whose resolvers it holds
    jobs,     \* the microtasks of this mutex, oldest first, as the callers they resume
    pc        \* where each caller stands in acquire()

mutexVars == <<locked, queue, jobs, pc>>

MutexInit ==
    /\ locked = FALSE
    /\ queue = <<>>
    /\ jobs = <<>>
    /\ pc = [c \in Callers |-> "idle"]

\* The loop of acquire() found the flag set: wait in the queue.
Wait(c) ==
    /\ locked
    /\ queue' = Append(queue, c)
    /\ pc' = [pc EXCEPT ![c] = "waiting"]
    /\ UNCHANGED locked

\* The loop of acquire() found the flag clear: the lock is c's from now on.
Take(c) ==
    /\ ~locked
    /\ locked' = TRUE
    /\ pc' = [pc EXCEPT ![c] = "granted"]
    /\ UNCHANGED queue

\* acquire() runs to its first await, or through: then its caller resumes as a microtask.
Acquire(c) ==
    /\ pc[c] = "idle"
    /\ \/ Wait(c) /\ UNCHANGED jobs
       \/ Take(c) /\ jobs' = Append(jobs, c)

\* A mutant of the next definition: a woken caller trusts that the lock is its own.
TakesWhenWoken(c) ==
    /\ jobs # <<>> /\ c = Head(jobs) /\ pc[c] = "woken"
    /\ locked' = TRUE
    /\ pc' = [pc EXCEPT ![c] = "granted"]
    /\ jobs' = Append(Tail(jobs), c)
    /\ UNCHANGED queue

\* The microtask of a woken caller: the loop condition is evaluated again.
Recheck(c) ==
    /\ jobs # <<>> /\ c = Head(jobs) /\ pc[c] = "woken"
    /\ \/ Wait(c) /\ jobs' = Tail(jobs)
       \/ Take(c) /\ jobs' = Append(Tail(jobs), c)

\* The microtask of a granted caller: its critical section begins.
Enter(c) ==
    /\ jobs # <<>> /\ c = Head(jobs) /\ pc[c] = "granted"
    /\ jobs' = Tail(jobs)
    /\ pc' = [pc EXCEPT ![c] = "holding"]
    /\ UNCHANGED <<locked, queue>>

\* The lock is disposed: clear the flag, wake the first of the queue.
Release(c) ==
    /\ pc[c] = "holding"
    /\ locked' = FALSE
    /\ \/ /\ queue = <<>>
          /\ pc' = [pc EXCEPT ![c] = "idle"]
          /\ UNCHANGED <<queue, jobs>>
       \/ /\ queue # <<>>
          /\ queue' = Tail(queue)
          /\ jobs' = Append(jobs, Head(queue))
          /\ pc' = [pc EXCEPT ![c] = "idle", ![Head(queue)] = "woken"]

MutexNext == \E c \in Callers : Acquire(c) \/ Recheck(c) \/ Enter(c) \/ Release(c)

MutexSpec == MutexInit /\ [][MutexNext]_mutexVars

-----------------------------------------------------------------------------
MutexTypeOK ==
    /\ locked \in BOOLEAN
    /\ queue \in Seq(Callers)
    /\ jobs \in Seq(Callers)
    /\ pc \in [Callers -> {"idle", "waiting", "woken", "granted", "holding"}]

Inside == {c \in Callers : pc[c] \in {"granted", "holding"}}
Wanting == {c \in Callers : pc[c] \in {"waiting", "woken"}}

\* The abstract lock this one implements.
AsLock == INSTANCE Lock WITH holder <- Inside, wanting <- Wanting

\* From outside, the flag, the queue and the microtasks are a lock: whatever
\* the order of releases, barging callers and woken waiters, at most one
\* caller is between its acquire() and the disposal of its lock.
ImplementsLock == AsLock!Spec

\* Nobody waits at a free lock without a microtask on its way to take it: a
\* release that met a barging caller has not lost the wake-up of the others.
NoLostWakeup ==
    ~locked /\ queue # <<>> => \E i \in DOMAIN jobs : pc[jobs[i]] = "woken"
====
