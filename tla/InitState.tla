------------------------------- MODULE InitState -------------------------------
(***************************************************************************)
(* node/services/initStateManager.ts for one workspace: the state in       *)
(* memory, the file endInit() writes before it changes that state, the     *)
(* tools that wait for the end, and the removal of the workspace, which    *)
(* meets all of them.                                                      *)
(***************************************************************************)
CONSTANT InitWaiters

VARIABLES
    initState,    \* status of the store's entry: "none", "running", "ended"
    initPhase,    \* "runtime_setup" or "init_hook"
    initPromise,  \* initPromises.get(): "none", "pending" (settled entries are removed)
    initFile,     \* init-status.json: "absent", "there", "failed" (the write failed, which is only logged)
    ending,       \* endInit(): "idle", "lock", "write", "after", "done"
    removal,      \* WorkspaceService.remove(): "idle", "cleared", "done"
    announced,    \* ghost: init-end was emitted
    tool          \* waitForInit() of each tool: "new", "setup", "hook", "back"

initVars == <<initState, initPhase, initPromise, initFile, ending, removal, announced, tool>>

InitStateInit ==
    /\ initState = "none" /\ initPhase = "runtime_setup" /\ initPromise = "none" /\ initFile = "absent"
    /\ ending = "idle" /\ removal = "idle" /\ announced = FALSE
    /\ tool = [w \in InitWaiters |-> "new"]

\* Every tool that waits is released; one that waits for the hook phase only goes on to wait.
Released == [w \in InitWaiters |-> IF tool[w] \in {"setup", "hook"} THEN "back" ELSE tool[w]]

StartInit ==
    /\ initState = "none" /\ ending = "idle" /\ removal = "idle"
    /\ initState' = "running" /\ initPromise' = "pending"
    /\ UNCHANGED <<initPhase, initFile, ending, removal, announced, tool>>

EnterHookPhase ==
    /\ initState = "running" /\ initPhase = "runtime_setup" /\ ending = "idle"
    /\ initPhase' = "init_hook"
    /\ tool' = IF initPromise = "pending" THEN [w \in InitWaiters |-> IF tool[w] = "setup" THEN "hook" ELSE tool[w]]
                                          ELSE tool
    /\ UNCHANGED <<initState, initPromise, initFile, ending, removal, announced>>

\* endInit() up to the lock of the file; without an entry it does nothing.
EndBegins ==
    /\ ending = "idle" /\ initState = "running"
    /\ ending' = "lock"
    /\ UNCHANGED <<initState, initPhase, initPromise, initFile, removal, announced, tool>>

\* A mutant of the next definition: the state is final in memory before the file is written.
EndsInMemoryFirst ==
    /\ ending = "lock"
    /\ ending' = IF initState = "none" THEN "after" ELSE "write"
    /\ initState' = IF initState = "running" THEN "ended" ELSE initState
    /\ UNCHANGED <<initPhase, initPromise, initFile, removal, announced, tool>>

\* The lock is held: shouldWrite() looks whether the entry is still there.
EndLooks ==
    /\ ending = "lock"
    /\ ending' = IF initState = "none" THEN "after" ELSE "write"
    /\ UNCHANGED <<initState, initPhase, initPromise, initFile, removal, announced, tool>>

EndWrites ==
    /\ ending = "write"
    /\ ending' = "after"
    /\ initFile' \in {"there", "failed"}
    /\ UNCHANGED <<initState, initPhase, initPromise, removal, announced, tool>>

\* The state in memory (which the store may have dropped), the event and the promise.
EndAnnounces ==
    /\ ending = "after"
    /\ ending' = "done"
    /\ initState' = IF initState = "running" THEN "ended" ELSE initState
    /\ announced' = TRUE
    /\ IF initPromise = "pending" THEN tool' = Released ELSE UNCHANGED tool
    /\ initPromise' = "none"
    /\ UNCHANGED <<initPhase, initFile, removal>>

\* A mutant of the next definition: the tools that wait are not told.
ForgetsWaiters ==
    /\ removal = "idle" /\ initState # "none"
    /\ removal' = "cleared"
    /\ initState' = "none" /\ initPromise' = "none"
    /\ UNCHANGED <<initPhase, initFile, ending, announced, tool>>

\* WorkspaceService.remove(): clearInMemoryState() rejects the promise, then the session directory goes.
RemovalClears ==
    /\ removal = "idle" /\ initState # "none"
    /\ removal' = "cleared"
    /\ initState' = "none" /\ initPromise' = "none"
    /\ IF initPromise = "pending" THEN tool' = Released ELSE UNCHANGED tool
    /\ UNCHANGED <<initPhase, initFile, ending, announced>>

RemovalDeletes ==
    /\ removal = "cleared"
    /\ removal' = "done"
    /\ initFile' = "absent"
    /\ UNCHANGED <<initState, initPhase, initPromise, ending, announced, tool>>

\* waitForInit(): nothing to wait for unless an init runs.
WaitForInit(w) ==
    /\ tool[w] = "new"
    /\ tool' = [tool EXCEPT ![w] = IF initState # "running" \/ initPromise = "none" THEN "back"
                                   ELSE IF initPhase = "runtime_setup" THEN "setup" ELSE "hook"]
    /\ UNCHANGED <<initState, initPhase, initPromise, initFile, ending, removal, announced>>

\* The tool is aborted, or five minutes of the hook phase are over.
WaitGivenUp(w) ==
    /\ tool[w] \in {"setup", "hook"}
    /\ tool' = [tool EXCEPT ![w] = "back"]
    /\ UNCHANGED <<initState, initPhase, initPromise, initFile, ending, removal, announced>>

InitStateNext ==
    \/ StartInit \/ EnterHookPhase \/ EndBegins \/ EndLooks \/ EndWrites \/ EndAnnounces
    \/ RemovalClears \/ RemovalDeletes
    \/ \E w \in InitWaiters : WaitForInit(w) \/ WaitGivenUp(w)

InitStateSpec == InitStateInit /\ [][InitStateNext]_initVars

-----------------------------------------------------------------------------
\* "If init-end is visible (live or replay), the file MUST exist" (line 277), as long as its write
\* did not fail and the workspace is not being removed; a replay shows what is in memory.
EndIsOnDisk == (initState = "ended" \/ announced) /\ removal = "idle" => initFile # "absent"

\* No tool waits for a promise that nobody holds any more: endInit() or the removal, whichever
\* comes first, releases every tool, although a tool in the setup phase has no timeout.
NobodyLeftWaiting == (\E w \in InitWaiters : tool[w] \in {"setup", "hook"}) => initPromise = "pending"
====
