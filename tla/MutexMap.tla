------------------------------- MODULE MutexMap -------------------------------
(***************************************************************************)
(* node/utils/concurrency/mutexMap.ts for one key (keys share nothing but  *)
(* the Map): every withLock() call chains itself behind the promise the    *)
(* key held, before it awaits it, and removes the key only when nobody has *)
(* chained behind it since.                                                *)
(***************************************************************************)
EXTENDS Naturals, Sequences

CONSTANT Operations    \* the calls of withLock, each made once

VARIABLES
    chained,    \* locks.get(key): the call whose promise the key holds, or {}
    previous,   \* previousLock of each call, likewise
    stage,      \* where each call stands
    asked       \* ghost: the calls in the order they were made

mapVars == <<chained, previous, stage, asked>>

MapInit ==
    /\ chained = {}
    /\ previous = [o \in Operations |-> {}]
    /\ stage = [o \in Operations |-> "new"]
    /\ asked = <<>>

\* withLock() up to its await: read the key's promise and replace it at once.
Call(o) ==
    /\ stage[o] = "new"
    /\ previous' = [previous EXCEPT ![o] = chained]
    /\ chained' = {o}
    /\ stage' = [stage EXCEPT ![o] = "waiting"]
    /\ asked' = Append(asked, o)

\* The awaited promise is resolved: the operation runs.
Run(o) ==
    /\ stage[o] = "waiting"
    /\ \A p \in previous[o] : stage[p] = "done"
    /\ stage' = [stage EXCEPT ![o] = "running"]
    /\ UNCHANGED <<chained, previous, asked>>

\* A mutant of the next definition: the key is dropped although others chained behind it.
FinishesAndDrops(o) ==
    /\ stage[o] = "running"
    /\ stage' = [stage EXCEPT ![o] = "done"]
    /\ chained' = {}
    /\ UNCHANGED <<previous, asked>>

\* The operation returned or threw: release, and drop the key if it is still ours.
Finish(o) ==
    /\ stage[o] = "running"
    /\ stage' = [stage EXCEPT ![o] = "done"]
    /\ chained' = IF chained = {o} THEN {} ELSE chained
    /\ UNCHANGED <<previous, asked>>

MapNext == \E o \in Operations : Call(o) \/ Run(o) \/ Finish(o)

MapSpec == MapInit /\ [][MapNext]_mapVars

-----------------------------------------------------------------------------
MapTypeOK ==
    /\ chained \in SUBSET Operations
    /\ previous \in [Operations -> SUBSET Operations]
    /\ stage \in [Operations -> {"new", "waiting", "running", "done"}]
    /\ asked \in Seq(Operations)

\* Calls for one key run one at a time and in the order they were made: an
\* operation starts only when every earlier one has finished, also when the
\* key left the Map in between.
InOrder ==
    \A i, j \in DOMAIN asked :
        i < j /\ stage[asked[j]] \in {"running", "done"} => stage[asked[i]] = "done"

MapAsLock ==
    INSTANCE Lock WITH
        Callers <- Operations,
        holder <- {o \in Operations : stage[o] = "running"},
        wanting <- {o \in Operations : stage[o] = "waiting"}

\* From outside, the chain of promises is a lock.
MapImplementsLock == MapAsLock!Spec
====
