-------------------------- MODULE SequentialExecution --------------------------
(***************************************************************************)
(* node/services/tools/withSequentialExecution.ts on top of AsyncMutex: a  *)
(* provider may ask for several tools at once, one mutex per tool map lets *)
(* them execute one after the other, and the abort signal of the stream    *)
(* ends the waiting at once.  A wait that was aborted leaves its acquire() *)
(* behind; when that is granted later, the lock is given back unused.      *)
(***************************************************************************)
EXTENDS AsyncMutex

VARIABLES
    aborted,   \* the stream's abort signal
    call       \* each tool call: "new", "acquiring", "cleared", "running", "done", "interrupted"

toolVars == <<locked, queue, jobs, pc, aborted, call>>

ToolInit ==
    /\ MutexInit
    /\ aborted = FALSE
    /\ call = [c \in Callers |-> "new"]

SetCall(c, s) == call' = [call EXCEPT ![c] = s]

\* A mutant of the next definition: the abort is not looked at again after the lock.
ProceedsAnyway(c) ==
    /\ Enter(c)
    /\ SetCall(c, IF call[c] = "acquiring" THEN "cleared" ELSE "interrupted")
    /\ UNCHANGED aborted

\* A tool call finds its stream already aborted.
Refuse(c) ==
    /\ call[c] = "new" /\ aborted
    /\ SetCall(c, "interrupted")
    /\ UNCHANGED <<mutexVars, aborted>>

Begin(c) ==
    /\ call[c] = "new" /\ ~aborted
    /\ Acquire(c)
    /\ SetCall(c, "acquiring")
    /\ UNCHANGED aborted

\* The abort event: a wait whose lock was not granted yet is rejected, and the
\* acquire() behind it stays.  After the grant the race is lost to the lock.
Abort ==
    /\ ~aborted
    /\ aborted' = TRUE
    /\ call' = [c \in Callers |-> IF call[c] = "acquiring" /\ c \notin Inside
                                 THEN "interrupted" ELSE call[c]]
    /\ UNCHANGED mutexVars

\* A woken acquire() takes the lock or queues again, whether or not anyone still wants it.
Wake(c) == Recheck(c) /\ UNCHANGED <<aborted, call>>

\* The lock arrives: acquireLockOrAbort() returns it, unless the abort came between the grant and
\* this microtask, or the wait was rejected before.
Proceed(c) ==
    /\ Enter(c)
    /\ SetCall(c, IF call[c] = "acquiring" /\ ~aborted THEN "cleared" ELSE "interrupted")
    /\ UNCHANGED aborted

\* A microtask later the tool's execute() is called; the signal is not looked at again.
Start(c) ==
    /\ call[c] = "cleared"
    /\ SetCall(c, "running")
    /\ UNCHANGED <<mutexVars, aborted>>

\* releaseLockAfterAbort, or the disposal of a lock that arrived with the abort.
GiveBack(c) ==
    /\ call[c] = "interrupted"
    /\ Release(c)
    /\ UNCHANGED <<aborted, call>>

\* The tool's execute() ended, with a result or by throwing; the lock is disposed.
Return(c) ==
    /\ call[c] = "running"
    /\ Release(c)
    /\ SetCall(c, "done")
    /\ UNCHANGED aborted

ToolStep(c) == Wake(c) \/ Proceed(c) \/ Start(c) \/ GiveBack(c) \/ Return(c)

ToolNext == \/ \E c \in Callers : Refuse(c) \/ Begin(c) \/ ToolStep(c)
            \/ Abort

ToolSpec == ToolInit /\ [][ToolNext]_toolVars

-----------------------------------------------------------------------------
ToolTypeOK ==
    /\ MutexTypeOK
    /\ aborted \in BOOLEAN
    /\ call \in [Callers -> {"new", "acquiring", "cleared", "running", "done", "interrupted"}]

\* The tools that run, or will whatever happens.
Admitted == {c \in Callers : call[c] \in {"cleared", "running"}}

\* Of the tools asked for at once only one survives the abort of their stream: the one that runs,
\* or whose call has passed the check of the signal.  The others do not start, though their locks
\* may arrive later.
NoStartAfterAbort ==
    [][aborted => Admitted' \subseteq Admitted /\ \A c, d \in Admitted : c = d]_toolVars

\* No tool starts after the abort: not so, between the check of the signal and the call of the tool.
ToolsStopAtOnce == [][aborted => \A c \in Callers : call'[c] = "running" => call[c] = "running"]_toolVars

\* The lock a tool holds, or an aborted wait got too late, is always given
\* back, and every tool call of the stream is settled.
Settled == ~locked /\ \A c \in Callers : call[c] \in {"new", "done", "interrupted"}
====
