---------------------------- MODULE IdleCompaction ----------------------------
(***************************************************************************)
(* node/services/idleCompactionService.ts: hourly checks run beside one    *)
(* loop that compacts the queued workspaces one after the other; stop()    *)
(* meets both in any of their awaits.  Whether a workspace is eligible is  *)
(* up to its history.                                                      *)
(***************************************************************************)
EXTENDS Sequences

CONSTANT Compactable    \* the workspaces, each checked again and again

VARIABLES
    idleStopped,     \* stopped
    idleChecks,      \* workspaces whose checkEligibility() is awaited by a check
    idleQueue,       \* queue
    idleQueued,      \* queuedWorkspaceIds
    idleActive,      \* activeWorkspaceIds
    idleProcessing,  \* isProcessingQueue
    idleStep         \* what the loop awaits: "none", "recheck", "compaction"

idleVars == <<idleStopped, idleChecks, idleQueue, idleQueued, idleActive, idleProcessing, idleStep>>

IdleInit ==
    /\ idleStopped = FALSE /\ idleProcessing = FALSE /\ idleStep = "none"
    /\ idleChecks = {} /\ idleQueue = <<>> /\ idleQueued = {} /\ idleActive = {}

\* The loop of processQueue() returns: the queue is empty or the service was stopped, so that
\* the finally clause has nothing to start again.
LoopEnds(q) ==
    /\ idleQueue' = q
    /\ idleProcessing' = FALSE /\ idleStep' = "none"
    /\ idleActive' = {}

\* The loop up to its next await: the first of q is taken.
LoopOn(q, ids) ==
    IF q = <<>> \/ idleStopped THEN LoopEnds(q) /\ idleQueued' = ids
    ELSE /\ idleQueue' = Tail(q) /\ idleQueued' = ids \ {Head(q)}
         /\ idleActive' = {Head(q)}
         /\ idleProcessing' = TRUE /\ idleStep' = "recheck"

\* A round of checkAllWorkspaces(), which goes on to the next workspace although stop() was called.
CheckBegins(w) ==
    /\ w \notin idleChecks
    /\ idleChecks' = idleChecks \cup {w}
    /\ UNCHANGED <<idleStopped, idleQueue, idleQueued, idleActive, idleProcessing, idleStep>>

\* A mutant of the next definition: only what is queued counts as a duplicate.
EnqueueAgain(w) ==
    IF w \in idleQueued THEN UNCHANGED <<idleQueue, idleQueued, idleActive, idleProcessing, idleStep>>
    ELSE IF idleProcessing \/ idleStopped
    THEN /\ idleQueue' = Append(idleQueue, w) /\ idleQueued' = idleQueued \cup {w}
         /\ UNCHANGED <<idleActive, idleProcessing, idleStep>>
    ELSE LoopOn(Append(idleQueue, w), idleQueued \cup {w})

\* enqueueCompaction: no duplicates, and the loop is kicked unless it runs.
Enqueue(w) ==
    IF w \in idleQueued \cup idleActive THEN UNCHANGED <<idleQueue, idleQueued, idleActive, idleProcessing, idleStep>>
    ELSE IF idleProcessing \/ idleStopped
    THEN /\ idleQueue' = Append(idleQueue, w) /\ idleQueued' = idleQueued \cup {w}
         /\ UNCHANGED <<idleActive, idleProcessing, idleStep>>
    ELSE LoopOn(Append(idleQueue, w), idleQueued \cup {w})

CheckEnds(w) ==
    /\ w \in idleChecks
    /\ idleChecks' = idleChecks \ {w}
    /\ Enqueue(w) \/ UNCHANGED <<idleQueue, idleQueued, idleActive, idleProcessing, idleStep>>
    /\ UNCHANGED idleStopped

\* The eligibility was evaluated again: compact, or go on with the next.  stop() is not looked at.
RecheckEnds ==
    /\ idleStep = "recheck"
    /\ \/ idleStep' = "compaction" /\ UNCHANGED <<idleQueue, idleQueued, idleActive, idleProcessing>>
       \/ LoopOn(idleQueue, idleQueued)
    /\ UNCHANGED <<idleStopped, idleChecks>>

CompactionEnds ==
    /\ idleStep = "compaction"
    /\ LoopOn(idleQueue, idleQueued)
    /\ UNCHANGED <<idleStopped, idleChecks>>

IdleStops ==
    /\ ~idleStopped
    /\ idleStopped' = TRUE
    /\ idleQueue' = <<>> /\ idleQueued' = {}
    /\ UNCHANGED <<idleChecks, idleActive, idleProcessing, idleStep>>

IdleNext ==
    \/ \E w \in Compactable : CheckBegins(w) \/ CheckEnds(w)
    \/ RecheckEnds \/ CompactionEnds \/ IdleStops

IdleSpec == IdleInit /\ [][IdleNext]_idleVars

-----------------------------------------------------------------------------
\* While the service runs nothing stays behind in its queue: a loop is on its way to every queued
\* workspace, none is queued twice, and none that is being compacted is queued again.
QueueIsServed ==
    ~idleStopped =>
        /\ idleQueue # <<>> => idleProcessing
        /\ idleQueued = {idleQueue[i] : i \in DOMAIN idleQueue}
        /\ \A i, j \in DOMAIN idleQueue : idleQueue[i] = idleQueue[j] => i = j
        /\ idleQueued \cap idleActive = {}

\* What stop() promises with "do not start new compactions after stop()" (line 85).
NoneAfterStop == [][idleStopped /\ idleStep # "compaction" => idleStep' # "compaction"]_idleVars
====
