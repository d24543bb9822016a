# omux: models of the backend's core

TLA+ specifications of the part of omux (mux) that decides whether a user's
conversation, and the sub-agents it started, survive interruptions, failures, retries and
restarts. TLC checks them on small instances, TLAPS proves the central invariants of each of
them for every instance. All
definitions are translated from `src/node` and `src/common` of the repository; the
comment above a definition or `PROJECT.json` ("map") says which code it stands for.

## 1. The system

omux runs coding agents in workspaces. A Node backend (`src/node`) keeps a session per
workspace; front ends (desktop, browser, CLI, ACP editors) talk to it over RPC and
receive events. Everything below runs in one process on one event loop: the
interleavings are those of asynchronous functions at their awaits, of timers and of
event listeners (which run synchronously inside `emit`). What outlives the process is
on disk.

### Components

| Component (main files) | State | Operations | Hard behaviour |
|---|---|---|---|
| **Auto-retry** `services/retryManager.ts` | enabled, attempt, generation, armed timer, pending event | handleStreamFailure, handleStreamSuccess, cancel, setEnabled, dispose, timer, onRetry | stale timers, stops from inside a listener, callbacks that settle late |
| **Stream manager** `services/streamManager.ts` | one entry per workspace, a mutex per workspace, per stream: state, abort signal, soft interrupt, parts, throttled write | startStream, stopStream (hard, soft), the processing loop, cleanup, retry without previousResponseId | stop against end, start against start, cleanup after an await, waiting with a lock held |
| **History** `services/historyService.ts` | `chat.jsonl`, `partial.json`, in-memory sequence counter | append, update, delete, truncate, clear, read/write/delete/commit partial | commitPartial is not atomic, the counter is lost in a crash, rows are matched by number |
| **Agent session** `services/agentSession.ts`, `messageQueue.ts`, `compactionMonitor.ts` | turn phase, message queue, auto-retry preference, abandon marker, compaction request | sendMessage, edit, resume, interrupt, queue, retry, startup recovery, listeners of the AI service | events during async preparation, queue flush against edit, two loads of a preference |
| **AI service** `services/aiService.ts` | pending stream starts | streamMessage, stopStream, stream-abort handler | a start aborted between its steps, clean-up of placeholders |
| **Compaction** `services/compactionHandler.ts`, `idleCompactionService.ts` | pending diffs, processed requests; queue and dedupe sets | performCompaction; periodic check, queue, stop | stale partial against summary; a check in flight across stop() |
| **Workspace service** `services/workspaceService.ts` | sessions, configuration entries | create, fork, rename, archive, remove, truncate, answer ask_user_question | fork and answers against a live stream |
| **Task service** `services/taskService.ts` | task status in config, waiters, report caches | create, queue, start, report, await, terminate, clean up | report against termination and restart, slots, waiters' timeouts |
| **Locks** `utils/concurrency/*` | queue of waiters, promise chains | acquire/release, withLock | barging, fairness |
| **OAuth flows** `utils/oauthFlowManager.ts` | active and completed flows | register, waitFor, cancel, finish | a timeout that hits a replaced flow |
| **Pending answers** `askUserQuestionManager.ts`, `delegatedToolCallManager.ts` | pending map | register, answer, cancel | entry removed one microtask after the answer |
| **Background processes** `backgroundProcessManager.ts` | process map, foreground map | spawn, send to background, output, terminate | id chosen before an await, timers by id |
| **Init state** `initStateManager.ts` | state, promise per workspace | start, hook phase, output, end, wait, clear | persist-then-publish, deletion while running |
| **MCP servers** `mcpServerManager.ts` | servers and leases per workspace | get tools, lease, idle cleanup, stop | concurrent starts, closing under a stream |
| Others: metadata and usage files, server lockfile, terminals, runtimes, ACP, configuration, providers, front ends | | | mostly I/O, translation or data |

### How they interact

`AgentSession.sendMessage` appends the user's message to the history and calls
`streamWithHistory`: commit what an earlier stream left in `partial.json`, read the
history, call `AIService.streamMessage`, which appends an empty assistant row (it fixes
the message's sequence number) and calls `StreamManager.startStream`. While it streams,
the stream manager writes `partial.json`, throttled. A normal end deletes the partial
and rewrites the row; a stop commits the partial through the stream-abort handler of
`AIService`; a failure leaves it, with the error, for the next turn. Failures go to
`RetryManager`, whose timer calls back into the session. Compaction rewrites the
streamed row as a summary that starts a new epoch. Forks, subagents' reports and
truncations touch the same files from outside the turn.

A stream may create tasks: `TaskService` gives each a workspace and a session of its own,
queues those above the limit, and on the end of a task's stream hands its report to the
tool call that waits for it or, when nobody waits, appends it to the parent's history and
resumes the parent. Interrupting a workspace interrupts its tasks.

### What makes them correct

- *Auto-retry*: a promised retry starts unless it is withdrawn; none starts after it was
  withdrawn, or twice; the replayed snapshot tells the truth.
- *Streams*: a registration never overwrites another stream; every stream is heard to
  end; nothing follows its abort; interrupted output is in the partial; no start and no
  stop waits for ever.
- *Sessions*: a phase other than idle always has somebody who will end it; no message is
  sent twice or left behind in the queue; an edit truncates only when nothing streams.
- *Tasks*: a report reaches the ancestors before the task is removed; a removed task leaves
  no child; the limit on running tasks never leaves everybody waiting for everybody.
- *Locks and small services*: mutual exclusion, order, nobody forgotten in a wait.
- *History*: numbers grow along the file and across restarts; a row is only rewritten by
  its own message; output of an interrupted stream is committed; a removed message does
  not return; a partial belongs to the turn's own stream.

The full list of hazards, each at its line with the properties aimed at it, is in
`PROJECT.json` ("hazards").

## 2. Modules

| Module | Models | Checked by | Proofs |
|---|---|---|---|
| `RetryManager` | the retry timer of one session | run `retry` | `RetryManagerProofs` |
| `StreamManager` | the streams of one workspace, with the part of AIService that starts and stops them | runs `stream`, `stream_one_active` | `StreamManagerProofs` |
| `HistoryService` | the files and counter of one workspace with everyone who writes them | runs `history`, `history_cleared` (through `MCHistoryService` where symmetry is used) | `HistoryServiceProofs` |
| `AgentSession` | the turns of one workspace: what starts, ends and interrupts them | runs `session`, `session_followup` (through `MCAgentSession`, which has the scenarios) | `AgentSessionProofs` |
| `TaskService` | the tasks below one workspace | runs `tasks`, `tasks_interrupt`, `tasks_deadlock`, `tasks_resumed` (through `MCTaskService`) | `TaskServiceProofs` |
| `Lock` | what a mutual exclusion lock promises | as the abstraction of the next three | |
| `AsyncMutex` | `utils/concurrency/asyncMutex.ts`, microtask by microtask | inside `SequentialExecution` | `LockProofs` |
| `SequentialExecution` | `withSequentialExecution.ts`: tool calls, with aborts, over an `AsyncMutex` | run `services` | `LockProofs` |
| `MutexMap` | `utils/concurrency/mutexMap.ts`, for one key | run `services` | `LockProofs` |
| `IdleCompaction` | `idleCompactionService.ts` | run `services` | `ServicesProofs` |
| `OAuthFlows` | `utils/oauthFlowManager.ts` for one flow id, with the Codex desktop flow | run `services` | `ServicesProofs` |
| `InitState` | `initStateManager.ts` for one workspace, with its file and its removal | run `services` | `ServicesProofs` |
| `BackgroundProcess` | `getOutput` and `terminate` of `backgroundProcessManager.ts` for one process, with its log and exit code | run `services` | `ResourceProofs` |
| `McpServers` | `mcpServerManager.ts` for one workspace and its streams | run `services` | `ResourceProofs` |

`MCServices` puts the small services, which share no state, side by side: each behaviour
runs one of them. Workspaces share no state in `RetryManager`, `StreamManager`,
`HistoryService` and `AgentSession` (every map is keyed by workspace), so each describes one
workspace.

**RetryManager.** One action per operation. `FailRetryable` and `FireLive` include the
synchronous listener: `Reactions` is what it may do before it returns, so a stop in the
middle of `handleStreamFailure` (before the timer is armed) is one of their outcomes.
`timer` is the generation the closure captured, `callbacks` the generations whose
`onRetry` has not settled. `owed` is a history variable: the retry that was announced and
not withdrawn. The length of the delay is left out; a timer fires at some later point.

**StreamManager.** A step is the code between two awaits. `run[s]` is the place of
`processStreamWithCleanup`, `start[s]` that of `startStream`, `cancels` the running
`cancelStreamSafely`/`cleanupAbortedStream` calls (by a starting stream, by a stop, or by
the soft interrupt nobody awaits). `registered` is `workspaceStreams`, `lock` the mutex,
`pendingStart` `aiService.pendingStreamStarts`. A write of `partial.json` takes effect
when it is issued, since file operations of a workspace are serialised in issue order.
The last segment of `processStreamWithCleanup` (state, event, `finally`) is one step
because it contains no await. Contents of parts are reduced to their number. A part is two
steps: it passes the abort check (`Part`), and is added and counted after the awaits of
`appendPartAndEmit` (`PartLands`), so it may land after the abort; a tool's result is two more
(`ToolResult`, `ResultDone`).

**HistoryService.** An operation under the workspace's file lock is one step;
`commitPartial`, which takes the lock only for its writes, is four (`CommitRead`,
`CommitLook`, `CommitWrite`, `CommitDrop`). `turn` is what the session does next, and its
steps are the callers' calls in their order. A message is an identifier with the number
of its parts worth committing (a stream that produced only blank text counts as having
none). `Crash` forgets the counter, the turn and running commits, and keeps the files.
Beside the turn two kinds of others write: `Forks` (a fork commits the partial of a live
stream) and `Stops` (a stop that finds no stream, or one that has ended, emits `stream-abort`
all the same; the handler in AIService, awaited by nobody, then deletes the partial or commits
it, whatever the next turn is doing: `AbortBeside`, `AbortDeletes`). History may be truncated
whenever no turn is active, also over a partial that waits. The ghost `disturbed` says that a
caller of `commitPartial` has lost what it relied on: `partial.json` was changed by somebody
else between its read and its drop, or between a stream's flush and the handler's commit, or a
truncation has removed the row of the partial that waits (`Disturbs`).

**AgentSession.** A *turn* is one attempt to start a stream and what follows it: a send, a
resumption or an immediate retry, then the stream and the handler of the event that ended
it. Several turns are in progress at once (a handler awaits a file while the user sends),
and `turn` holds the place of each; those waiting are `idleWaiters`. `phase` is `turnPhase`,
`queue` the message queue, `defer` `deferQueuedFlushUntilAfterEdit`, `starting` the last of
`aiService.pendingStreamStarts`. A step is what runs between two awaits. The stream manager
is reduced to what the session sees of it: a stream that ends, fails or is stopped, one at a
time (`StreamManager` says how far that is true). What a behaviour may meet is a *scenario*:
a set of events (compaction, context limit in mid-stream, failures, retries, hand-overs
between agents, an interrupt that sends the queue, an impatient user, a workspace used before
it is opened, a start that overtakes an abort) and a number of disturbances (edits,
interrupts, resumptions, crashes).

**TaskService.** A task is a number in the order of creation; `status` and `parent` are its
entry in the configuration. `inbox` is the queue of the per-workspace event lock, `handler`
the handler that runs for a workspace and what it has read before it awaited, `pass` a
`maybeStartQueuedTasks()` that holds the mutex and `making` a `create()` that does, `cascade`
the hard interrupt of the root's descendants in progress. A stream is the model's: whenever
no tool of its own runs it may create a task, wait, report, or end without a report. `waiting`
has a pair for every foreground wait: `Await` is `task` and `task_await`, which wait for any
set of descendants at once, children or not, and return when every wait has been answered or
has timed out, each for itself.
`Crash` keeps the configuration, artifacts and queue on disk and starts again with
`initialize()`, which is the handler `Startup` and runs beside the event handlers. These are
merged into one step: the registration of the waits of one call; persisting a report and delivering it; the status and the start of a
queued task; an edit of the configuration file. A scenario is a set of disturbances, each of
which happens at most once. The ghost `past` collects those that have happened, and `late` when
a child's late report resumes a task that has ended its stream without it; `CleanedUp`,
`NoOrphans` and `OutOfOrder` say by name which of them they do not hold after.
`hasCompletedAgentReport` also takes an interrupted task with a `reportedAt` for a reported one;
`CompletedReport` leaves that out, since a reported task stays reported (`ReportedStays`).

**Lock and its implementations.** `Lock` is the specification of mutual exclusion: callers
that want it and at most one that holds it. `AsyncMutex` has the queue of waiters and the
microtask in which a woken waiter looks at the lock again (`Recheck`), so that a caller may
barge in between. `SequentialExecution` adds the abort of a tool call, which leaves its
`acquire()` behind to be given back on arrival; its module is the `AsyncMutex` with the tool
calls as callers. The check of the abort signal (line 60, `Proceed`) and the start of the tool
(line 115, `Start`) are two steps, since the lock is awaited between them (line 114). Both state their refinement as a property, `ImplementsLock`, by
`INSTANCE Lock WITH` what is wanted and held in terms of their own variables. `MutexMap`
is the chain of promises for a key, with the key dropped when its last call ends.
`HistoryService` and `TaskService` rely on them: a file operation is one step because
`workspaceFileLocks` runs in the order of issue, which is `InOrder`.

**IdleCompaction** has the two sets that keep a workspace from being queued twice, the
overlapping hourly checks, the loop and `stop()`. **OAuthFlows** has the flow, the flow
that may replace it under the same id, its waiters and timeouts. **InitState** has the three
steps of `endInit` (lock, file, announcement), the tools that wait and the removal.

**BackgroundProcess.** The log is the sequence of its bytes, of which some end a line, some
of those lines are rejected by a filter, and some are the first or second byte of a character
of two; `readOutput()` decodes what it has read (`Decoded`): a byte that has lost its other
half becomes U+FFFD (`Replacement`), and the read position advances by the length of the decoded
text, in which that character takes three bytes; the process writes, exits and may leave children
that write on. `reader` holds the place and local variables of each `getOutput()`: the look
at the exit code before the lock (`Looked`), the lock, the polls (`PollReads`, `Relooked`,
`Judge`), the last reads of a process that has ended (`Drain`) and the return, which keeps
the last, unfinished line for the next call. `taken` is a ghost: what the calls returned or
filtered away, in their order. `proc.outputLock` is an `AsyncMutex` and taken as the lock
that `ImplementsLock` shows it to be.

**McpServers.** An entry of the Map is an object that a call goes on using after it was
replaced, so entries are numbered and `mcpEntry` is the current one; `server` has the state
of each instance ever started. A step starts or closes one server, which the code awaits one
after the other. `mcpCall` is a stream from its `getToolsForWorkspace()` to its end: `got` is
the time between the tools and the lease. The removal aborts pending starts and then stops the
servers, whether or not the stream has stopped by then; the idle
check (ten minutes) finds no call in progress. The code does not provide for two calls that
replace servers at the same time, or one while another stream that has its tools is about
to begin or the workspace is removed; the ghost `clashed` marks that, and the two properties say
what holds until then. `MCServices` goes no further (`UntilClash`).

## 3. Runs

| Run | Question | Bounds | Distinct states |
|---|---|---|---|
| `retry` | is every promised retry made, once, unless withdrawn? | 7 generations, listeners that ignore, cancel or disable | 3 237 |
| `stream` | do starts, stops and the loop keep slot, mutex and events right, and does everybody return? | 2 streams, 1 stop, 2 parts | 233 396 |
| `history` | does a partial always belong to the turn's stream? do numbers grow, interrupted output arrive, rows keep their message and removed messages stay away, until a commit is disturbed? | 3 messages, 1 fork, 1 stop, 2 parts, 2 crashes | 3 835 037 (symmetric) |
| `session` | is the phase ever stuck, a message sent twice or stranded, an edit disturbed? does a busy session become idle? | 2 messages, 3 turns at a time, 1 hand-over, 9 scenarios with 1 or 2 disturbances | 174 957 |
| `tasks` | do reports arrive before removal, are tasks removed from the leaves up and none forgotten, does nobody wait for everybody (but for the omission of `tasks_deadlock`)? | 2 tasks, limit 1, 1 automatic resumption, 10 scenarios | 3 127 615 |
| `services` | are the locks locks, and do the small services serve, settle and release? is output returned once, and no server lost or closed under a stream? | 4 callers, 4 calls, 3 workspaces, 3 flows with 2 waiters, 2 tools; 2 bytes and 2 readers; 2 servers, 3 starts, 2 entries, 2 configurations, 2 streams | 2 445 280 (symmetric in servers and streams) |

Counterexamples (each is a finding in `PROJECT.json`):

| Run | The code or a document says | What happens |
|---|---|---|
| `stream_one_active` | one active stream per workspace at any time | a cleanup deletes the entry of the stream that replaced its own; a third stream runs beside it |
| `history_cleared` | clearing is irreversible | the failed stream's partial is committed by the next turn |
| `session_followup` | a queued message is delivered when the agent's entire turn completes | the end of a compaction sends the queue while the follow-up it has just dispatched streams, and cancels it |
| `tasks_interrupt` | interrupted descendants must stop | the handler of a task's stream end overwrites the interrupt and reminds the task to report |
| `tasks_resumed` | a task that stops while its descendants are at work is resumed by the last report | the root waits for a task and for that task's child; the task ends its stream first; the child's report is taken by the root's wait, so the task is not resumed and stays `running` without a stream |
| `tasks_deadlock` | waiting in the foreground prevents deadlocks, also with a limit of one | undisturbed, with 4 tasks: a pass starts a task while its parent still waits for the report of the task before; the started task queues a child and waits for it; then the parent waits for the started task, which frees the slot, but the queue is looked at only when the task waited for is itself queued: all wait until a timer ends a wait |

### Observed

The modules also state what TLC finds violated without a run of its own being kept: the
property is there, the constants below show the counterexample, and where `PROJECT.json` lists a
hazard for it the hazard refers to it.

| Property | Constants | What happens |
|---|---|---|
| `DisabledShowsNoRetry` (RetryManager) | as `retry` | `cancel` drops a retry without an event and resets the attempt (`retryManager.ts:145`), so that a disable right after it is silent and the front end keeps showing a pending retry; no comment promises the event |
| `NoAbortAfterEnd` (StreamManager) | 1 stream, 1 stop, 1 part | a hard stop while the finished stream is being saved gets past the guard: stream-abort after stream-end |
| `ErrorStateOnDisk` (StreamManager) | 1 stream, no stop, 1 part | a throttled write still armed overwrites the error state |
| `RowNeverShrinks` (HistoryService) | 2 messages, 1 fork, 2 parts | a fork's commit writes the partial it read earlier over the final row |
| `SequencesIncrease`, `AbortedOutputCommitted`, `RowKeepsItsMessage`, `RemovedStaysRemoved` (HistoryService) | 4 messages, 1 part, 1 crash; without their `~disturbed`, and any one of: 1 fork, 1 stop, neither (the truncation of a waiting partial's row) | a commit writes, appends under an old number or drops what was read before the files changed |
| `CrashKeepsOutput` (HistoryService) | 2 messages, no fork, 2 parts, 1 crash | the partial of a finished message is deleted before its row is written |
| `EditTruncatesAlone` without `Orderly` (AgentSession) | 3 messages, 4 turns; scenario `{"compact"}` or `{"switch", "error"}` with 1 disturbance, `{"now"}` with 2 | of two turns beside each other one makes the session idle; an edit then truncates while the other starts or streams ("Ensure no in-flight completion code can append after we truncate", `agentSession.ts:1923`) |
| `DispatchedOnce` (AgentSession) | scenario `{"compact"}`, 2 messages, 4 turns; or `{"compact", "unopened"}`, 2 messages, 3 turns | the queue sent over a follow-up's stream, or the workspace opened while one is sent, leaves two handlers that find the same summary, and both send its follow-up |
| `ReportsSurvive` (TaskService) | scenario `{"crash"}`, or none | a reported task is removed by a restart, or by the cleanup walking up from its child, before its report is stored |
| `ReportedStays` without `Orderly` (TaskService) | scenario `{"crash", "interrupt", "fail", "resume", "stray", "early"}`, 6 tasks, limit 2; 87 given steps, beyond a search | after a crash an interrupt meets a task that a child's report is just resuming; `initialize()` finds it interrupted and streaming, so its send is refused and it finalizes the task, which another child has made `running` again meanwhile; the handler of the task's own stream end has read `running`, and sets the reported task to `awaiting_report` (`taskService.ts:3238`) |
| `ParentsExist` (TaskService) | scenario `{"die"}`, 3 tasks, limit 2 | a stream that was resumed for a report dies while its `create()` is in progress; the cleanup removes its task, and the child is saved below a parent that is gone ("Cleanup can never create that inconsistent state", `taskService.ts:4638`) |
| `QueueMoves` under `FairSpec` (TaskService) | scenario `{"stray"}`, 2 tasks, limit 1 | a task that was asked for its report creates a task and waits for it: only tasks that are `running` are exempted from the count (`taskService.ts:2412`), so the slot is never free |
| `CleanedUp` without the exception for streams that die (TaskService) | scenario `{"die"}`, 2 tasks, limit 2 | a task that streams once more when its cleanup looks at it is left alone, and the stream then dies without an event |
| `NothingStuck` without the exception for late resumptions (TaskService) | no disturbance, 4 tasks, limit 1 | a task resumed by a child's late report is asked for its own by the handler of the stream before; it then waits for a queued child and keeps its slot. Or it has reported: its new stream counts, and the end of that starts no queued task |
| `NoneAfterStop` (IdleCompaction) | as `services` | `stop()` is not looked at between an eligibility check and its compaction |
| `FragmentsKept` (BackgroundProcess) | as `services` | a `getOutput()` that is interrupted has advanced the read position and drops the part of a line it has read, which the comment at `backgroundProcessManager.ts:550` says is kept for the next read |
| `OffsetInLog` (BackgroundProcess) | as `services` | a read between the two bytes of a character decodes the first to U+FFFD and moves the position by three: what the process writes next is skipped |
| `ToolsStopAtOnce` (SequentialExecution) | as `services` | the abort is signalled in the microtask between the check of the signal (line 60) and the call of the tool (line 115), which starts all the same |
| `Owned` (McpServers), `NoServerLost` without its `~clashed` | as `services` without `UntilClash` | two calls start the servers at the same time; the entry of the second replaces that of the first, whose servers nobody closes |
| `LeaseProtects` (McpServers) without its `~clashed` | as `services` without `UntilClash` | a call finds the configuration changed and closes the servers whose tools another stream has got, which begins meanwhile (the lease comes only with its loop) |
| `OwnWaitersOnly` (OAuthFlows) | as `services` | the waiter of a replaced flow finishes the flow that replaced it (ids are random, so none is replaced today) |

Some sequences met while modelling break no statement of the repository, and no property
is aimed at them:

- *Session.* A message queued after an interrupt stays in the queue until something else
  ends; a queued batch whose send is rejected is lost; an interrupt that sends the queue
  during `PREPARING` finds no stream to stop; a stop that comes before
  `pendingStreamStarts` has the start is lost; the timer of a retry may fire beside a
  user's send; the queue may be flushed between an edit's stop and its `defer` flag. In
  `IdleMeansIdle` and `EditTruncatesAlone` the scenarios where a turn begins beside another
  are excepted by name (`Orderly`); the other properties hold in all of them.
- *Tasks.* After a restart, `initialize()` leaves a running task that has active descendants
  alone, but it still counts, so with a limit of one a queued child never starts; a
  stream that fails or is stopped leaves the task `running`; the report of an interrupted
  child is not followed by its cleanup before the next end of a stream above it; the limit
  is exceeded for a while when a foreground wait ends; `initialize()` tells tasks that were
  started a moment ago that mux restarted.
- *Background processes.* A look at the exit code may overwrite `killed` with `exited`, or the
  other way round, when a process ends while it is terminated.
- *MCP servers.* A call that is starting servers while the workspace is removed leaves them
  to the idle check; a removal that has waited for a stream in vain closes the servers under it.
- *Initialisation.* A write of the init file past its last look may recreate the removed
  session directory.

One that does break a statement has no run either, since the property would only repeat it: a
failed write of the init file is logged and the end is shown all the same, although the comment
says the file must exist before (`initStateManager.ts:275-277`). `EndIsOnDisk` excepts it by name.

**Why the bounds are enough.** `retry`: two overlapping retries need two failures, a
third call withdraws one, and the generations left allow a re-enabling and another
round; the state is finite apart from the counter. `stream`: only one stream is
registered and one more can wait for the mutex; a stop can meet either. The first
stream's cleanup meeting a third stream is beyond this run and is what
`stream_one_active` shows with three. `history`: a user message and two streams (one left
over, one current), or a stream and a report, are three messages, with a fork's commit and a
stop's handler beside them, and a crash before and after; four messages, so that a stream and a
report follow a crash or truncation, were explored once without the fork (1.9 million states).
The six properties are proved for any numbers of all of these. `session`: one
message streams while the other is queued, sent over it or edited in; three turns are a
stream, what it hands over to and an edit. The scenarios keep apart what need not meet.
All the invariants and `EditTruncatesAlone` are proved for any number of messages and turns
and any scenario; the two liveness properties were explored once with four turns in each
scenario (up to 161 000 states). `tasks`: two tasks are parent and child or siblings, and with a
limit of one either has to wait for the other; with all scenarios three are beyond TLC (more
than 13 million states). What more tasks could do is left to the proofs: every invariant of the run is a
theorem for any number of tasks, any limit and any scenarios, `NoOrphans` and
`ReportedStays` in orderly histories (section 4). The deadlock of
`tasks_deadlock` needs four tasks (two siblings, the child of one and the parent of all) and
no disturbance. Pairs of disturbances were explored once (interrupt with resumption or message,
crash with a patch: up to 11 million states) for `LeavesReport`, `NoOrphans` and
`ReportedStays`. `services`: with four callers one holds a lock, one was woken, one
waits and one barges in. Two bytes are a fragment and the end of its line, or output before and
after the exit (three were explored: 1.9 million states). A third start is a server
started again after it timed out, died or was stopped, while another lives; two entries are one and the
one that replaces it under a call.

**What `disturbed` means.** `IncreaseUndisturbed`, `RemovedUndisturbed`,
`AbortedOutputCommitted` and `RowKeepsItsMessage` do not hold of the code in general:
`commitPartial` reads without the lock and drops whatever `partial.json` holds at the end, so a
fork or the abort handler of a stop beside it takes the file away under it, and truncation
leaves the partial of a row it removes (`history_cleared`). Any of the three breaks each of the
four (see *Observed*). The properties say that nothing else does: two commits may overlap, an
abort may delete or commit beside a turn, a fork commit beside a stream, and the process die at
any point, and until one of them has changed `partial.json` under another the four hold.

**Deadlock** is not checked: a session that has used up its messages, streams, tasks or
stops has nothing left to do. That nobody *waits* for ever is stated as liveness
(`StartReturns`, `CancelReturns`, `OwedRetryIsSettled`, `SessionSettles`, `EditProceeds`)
or as an invariant (`NothingStuck`, `QueueIsServed`, `NobodyLeftWaiting`).

**Fairness.** `RetryManager`: an armed Node timer fires unless cleared; nothing is
assumed of `onRetry` (it may never settle) or of the user. `StreamManager`: started
asynchronous functions go on once what they await is done (file operations, the
metadata promise, the exit of the stream they cancel), and the part stream of an aborted
request ends, as the AI SDK does on its abort signal. A provider need not produce a part
or end by itself, and nobody need stop a stream. `AgentSession`: the functions that were
called go on, streams end, and from some time on a message is not compacted when it is sent:
after a compaction the context is the summary, and `lastUsageState` is cleared so that the
follow-up does not start another (`agentSession.ts:3892`). That a message is *sometimes*
not compacted is too little: with four turns two handlers that send the same follow-up
(`DispatchedOnce`) can compact each other's for ever. Compactions in mid-stream are not
limited, and hand-overs are limited by `MaxSwitches`, as in the code. The runs of `TaskService`
check safety; its `FairSpec` (handlers, passes and streams go on) serves the observation
about `QueueMoves` above. `HistoryService` and the services have safety properties only.

**Mutants.** For every property of a passing run `PROJECT.json` names a variant of one
operation, a bug the code could plausibly have, that TLC finds to violate the property.

## 4. Proofs

For all values of the constants that satisfy the modules' assumptions:

- `RetryManagerProofs`: `RetryInv` (types, `OwedRetryIsArmed`, `SnapshotIsPromise`,
  `NoSecondCallback`) and the action property `RetryOnlyWhenOwed`. The inductive invariant
  `IInv` joins the four with the converse of the second (`TimerIsPromise`): that an
  owed retry is the current generation is what makes both checks of the timer callback
  pass, and the types bound every captured generation by the counter, so that a new
  failure's generation is fresh.
- `StreamManagerProofs`: `StreamInv` (types, mutex, program counters, slot,
  cancellations, no silent exit) is inductive as a whole, for any number of streams and
  stops. That a registration is exclusive (`RegistersOnlyWhenFree`) needs `SlotOK` (past
  the wait no stream is registered), which needs `RunOK` (the slot names only streams
  that run) and `CancelOK` (a cleanup gets past its wait only when its stream has
  exited). `NothingAfterAbort` follows from the same invariant: an aborted stream is
  "done". `AbortKeepsOutput` (`OutputIsKept`) adds that once the loop of a stream has
  flushed, for which the part and the tool's result in progress have landed, what `partial.json` holds of it is all its output (`FreshPartial`), which no
  later write of anyone undoes. The proof has one lemma per part of the invariant that is not kept trivially
  (`QuietSteps` for actions that leave the control state alone, then `TypeStep`,
  `MutexStep`, `RunStep`, `SlotStep`, `CancelStepOK`, `ExitStep`), each by cases on the actions.
- `HistoryServiceProofs`: `PartialIsCurrent` and `HistoryInv` (types, and that the turn's
  `commitPartial` runs only where the turn waits for it), with any forks, stops, truncations and
  crashes. The first rests on the second's last part: the commit's return finds an empty
  partial. `IncreaseUndisturbed`, `AbortedOutputCommitted`, `RowKeepsItsMessage` and
  `RemovedUndisturbed` are proved for any messages, parts, forks, stops and crashes, as far as
  they reach: until a commit is disturbed (`DInv` joins the types with `~disturbed => CInv`). The
  invariant `CInv` follows the message of the stream and the one in `partial.json` to a row of
  their own behind which there is no compaction boundary (`Present`), says that what each
  `commitPartial` in progress has read is still what the file holds (`Knows`), that the row of
  the streamed message is never ahead of the stream (`RowBehind`) and holds all of it once the
  abort's commit has come to its drop, whoever wrote it (`AbortKnows`), and that the counter is
  ahead of every row. So a commit finds the row again (`CommitUpdates`: it never appends, and
  never meets another message's row), and a step on rows does one of three things: append an
  unused message, leave all messages where they are, or take rows away (`RowsStep`). The
  minima and maxima of row numbers the model is built on get their properties from
  the well-foundedness of `Nat` (`LeastExists`, `MaxIsLargest`, `NumbersBounded`).
- `AgentSessionProofs`: every invariant of the session, and its action property, for any
  messages, any number of turns, any limit of hand-overs and any scenarios. `TypeOK` and
  `PhaseExplained` are inductive together. `PhaseExplained` is first restated over the labels of the turns alone
  (`ExplainedRestated`), so that for most steps it is enough to know which label a turn
  leaves and which it takes: `StaysExplained` (the phase stays and nothing that explains it
  goes), `SetExplained` (the step's own turn explains the new phase) and `EndOfSend`,
  `EndOfHandler` (a turn that goes ends the phase it explains). `StepIInv` goes through
  the actions.
  `MessagesOnce` (`MessageOnce`) adds in which stages a turn has messages to send
  (`SendersAsk`) and where a follow-up comes from (`Accounted`): a message is in one place,
  but for the follow-up of a summary, which several handlers may have found.
  `QueueDelivered` (`QueueNotStranded`) adds that a flush is only put off for an edit that
  waits (`DeferMeansEdit`) and that a handler leaves the queue alone only after a failure or
  beside a turn of its own (`FinallyFailed`).
  `IdleRunsNothing` and `EditIsAlone` (`IdleMeansIdle`, `EditTruncatesAlone`) rest on
  `Order`, which holds in the orderly scenarios: there is one turn at a time, and the phase
  tells how far it is (`Mains`); an edit that waits for it is alone and comes next
  (`EditsApart`); a handler that hands over awaits the one send of its own, which starts
  (`HandsOver`); and what the other scenarios are about does not happen (`Outside`).
- `LockProofs`: `AsyncMutex` implements `Lock` (`MutexImplementsLock`) for any set of
  callers, and so does the mutex while aborted tool calls leave their `acquire()` behind
  (`ToolsImplementLock`): the initial state maps to an initial state, and every step to a
  step of `Lock` or a stutter. The invariant says that the caller inside is the only one
  for whom the lock is taken. `WakeupsKept` is the invariant that nobody waits at a free
  lock unless a woken caller is on its way to it. `MapIsALock` and `MapRunsInOrder` are the
  same for `MutexMap`: what a call awaits is the call before it, so that the calls before a
  running one have finished. `ToolsRunOneByOne` and `NoToolAfterAbort` are about the tool
  calls themselves: one at a time has passed the check of the signal or runs, and once the abort was
  signalled no other does.
- `ServicesProofs`: `IdleQueueIsServed`, `FlowsSettled`, `InitEndIsOnDisk` and
  `InitReleasesTools`, for any number of checks, flows, waiters and tools. Each invariant adds
  who holds what between two awaits: which check has a workspace that is in the dedupe set
  but not yet queued; that a timer and a waiter belong to the flow that is registered; which
  stage of `endInit` has written the file but not announced it.
- `TaskServiceProofs`: every invariant of the run, and its action property, for any number of
  tasks, any limit and any scenarios. The invariant
  `TaskIInv` says of every handler what it may still rely on after its awaits: a task that a
  cleanup is about to remove has reported and has no child, a handler that judges a
  stream's end has a task that has not reported, the report of a leaf is with its handler or
  on disk, and what a restart's pass over the tasks still has to do refers to tasks that
  are there. `CleanupOrphansNobody` and `ReportsAreFinal` (`NoOrphans`, `ReportedStays`) are proved for
  *orderly* histories (`Orderly`): a crash does not meet a hard interrupt. A task that is
  interrupted after it has reported may have its cleanup run by `initialize()` beside its own
  handler, and then the invariant no longer tells who removes it. Every scenario of the runs
  is orderly. `ReportedStays` needs the condition (see *Observed*); whether `NoOrphans` does is
  open: with `{"crash", "interrupt"}` TLC finds no counterexample with two tasks.
  `ReportedAreCleanedUp` (`CleanedUp`) is about what has *not* been forgotten. `CleanIInv` adds to `TaskIInv`
  that every reported task has an excuse for being there (`Excused`): it streams, has
  children, waits for a patch, has an event in its inbox, its handler is between two awaits
  (`Delivering`), somebody cleans it up, or it is on a restart's list. The invariant is that whenever an excuse
  goes another one follows (`ExcusesMove`, `CleanupMoves`): the last child's removal is
  followed by a look at its parent, the end of a stream by an event, and so on; nothing of
  that is left when everybody is idle. It needs that a queued or refused task has no session
  (`FreshOK`) and that what a handler stores, patches or cleans up is settled (`FinalOK`).
  `NobodyStuck` (`NothingStuck`) rests on `Calm`, which holds until something is out of order. A task that
  was started is at work, or its end is in its inbox or judged, and others have nothing
  (`Phase`); the parent of an active task runs and streams (`ParentsWork`); who is waited
  for is active, or its report is being stored, and who waits runs and streams
  (`WaitsOK`); a pass has all queued tasks before it (`PassOK`); and while a task is queued a
  pass is due, or some task counts, or a wait for started tasks only has freed a slot unnoticed (`QueueOK`). When nothing
  can go on by itself, the first four leave nothing to count, and the last one says what
  remains. `CalmStep` lists the nine ways in which a step may move a task, so that each part
  is kept by cases on the way and not on every action.
- `ResourceProofs`: `EveryByteOnce`, for any log, filters and numbers of readers: what the
  calls returned and what the next one will read are the log up to the read position, in
  order, because only the holder of the lock moves the position and the rest of a line; a
  replacement character, once read, stays in what is told or to be told, so without one every
  read has advanced the position to the end of the log.
  `NothingLostBeforeAClash` and `LeaseHoldsBeforeAClash` are about the MCP servers of a
  workspace. `McpOrder` is what calls know of the entries they go on using: an instance is in
  one entry or one call at most (`OnePlace`); the names a retry works on are not in its
  entry, and differ from those of other retries and of the dead servers being replaced
  (`RetriesApart`, `DeadLeave`), so that joining an entry by name overwrites nothing; the
  call that replaces servers does so alone (`WhoReplaces`); the open servers of a stream are
  those of the current entry (`ToolsAreKept`), which no step closes while there is a lease
  (`LeaseStep`). It holds until calls clash, and both theorems are about every
  behaviour up to that point, without an assumption on the constants.

Only model-checked: liveness (`OwedRetryIsSettled`, `StartReturns`, `CancelReturns`,
`SessionSettles`, `EditProceeds`) and whatever needs `ENABLED`, which the prover does not
support. Every invariant of a passing run, and every action property, is a theorem, under the
conditions named above.

## 5. Not modelled

- `debugTriggerStreamError` (a test hook), `replayStream`, token and cost accounting.
- Failing file operations (but for the init file), malformed rows and their repair,
  `migrateWorkspaceId`, the cache of boundary offsets.
- A second `commitPartial` that `AIService.streamMessage` makes right after the session's
  (`aiService.ts:731`): with the partial just committed it finds none, unless something has
  written it between the two.
- Other writers of `partial.json`: the report of a task written into its parent's waiting
  partial (`taskService.ts:4565`) and the finalisation of `ask_user_question`
  (`workspaceService.ts:5051`). The abort of a stop that finds no stream because the cleanup of
  an earlier one has deleted the entry of a live stream (`stream_one_active`).
- Compaction's fallback that appends the summary when the streamed row is gone, and the
  hard restart of a subagent after a context overflow (it clears the history of a
  workspace nobody else writes).
- In the session: `dispose`, flushes of the queue at the end of a tool, what several queued
  messages are merged into, and the file with the auto-retry preference.
- In the task service: best-of groups, plan tasks, trust between projects, and
  `terminateDescendantAgentTask`. In the session and the task service the microtasks
  between an abort check and the call it guards are one step.
- Waits for background commands, which `task_await` makes beside those for tasks.
- Of background processes: characters of three or four bytes (split, they become more than one
  U+FFFD, to the same effect) and a byte order mark, which the decoder drops; spawning and its
  identifiers, commands moved from the foreground
  (their output is written by other handles), cleanup against a spawn in flight, and a
  read of the log that fails. Of MCP servers: transports, OAuth, tool allowlists, servers
  disabled for a workspace, and what a startup cleans up after its timeout.
- The components marked not modelled in `PROJECT.json`, for the reason given there. Most
  of the repository by size is front ends, provider requests and shell or network
  I/O around runtimes and terminals: data and effects with little control of their own.

## 6. Plan

1. `CleanupOrphansNobody` without `Orderly`; `WaitsGiveWay` for a
   `waitForAgentReport` that looks at the queue on every wait.
2. An abstract stream ("started once, ends once, its last event is final") that
   `StreamManager` implements and `AgentSession` uses.
3. Spawning in `BackgroundProcess` (identifiers chosen before an await, moves from the
   foreground), and the startup of one MCP server with its timeout and abort.
4. The file with the auto-retry preference, `dispose`, plan tasks and best-of groups.

## 7. Running

    tlc -workers 2 -config MCStreamManager.cfg StreamManager
    tlc -workers 2 -config MCTaskService.cfg MCTaskService
    tlc -workers 2 -config MCServices.cfg MCServices
    tlapm LockProofs.tla
