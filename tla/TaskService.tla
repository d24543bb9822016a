----------------------------- MODULE TaskService -----------------------------
(***************************************************************************)
(* node/services/taskService.ts: the sub-agent tasks below one workspace,  *)
(* the queue that starts them, the reports they hand to their parents and  *)
(* the waits of the parents.  One action is the code from one await to the *)
(* next.  A stream belongs to the model provider: it may start tasks, wait *)
(* for one, and end with or without a report whenever no tool runs.        *)
(*                                                                         *)
(* What the code's AsyncMutex guards is guarded by MutexFree (the module   *)
(* AsyncMutex shows that it is a lock), its per-workspace event lock by    *)
(* the inbox of the workspace (MutexMap shows that it runs in order).      *)
(* An edit of the configuration file is one step.  A stream outlives the   *)
(* return of the sendMessage that started it, and a send to an existing    *)
(* workspace that is neither queued nor busy succeeds, except the first    *)
(* one of a new task.  Left out: best-of groups, plan tasks and multi-     *)
(* project trust.                                                          *)
(***************************************************************************)
EXTENDS Integers, Sequences, FiniteSets

CONSTANTS
    MaxTasks,       \* tasks that are created, numbered in the order of createdAt
    MaxParallel,    \* taskSettings.maxParallelAgentTasks
    MaxResumes,     \* MAX_CONSECUTIVE_PARENT_AUTO_RESUMES
    Scenarios       \* the sets of disturbances that a behaviour may meet, each at most once

ASSUME SizesAssumption ==
    /\ MaxTasks \in Nat /\ MaxParallel \in Nat \ {0} /\ MaxResumes \in Nat

Tasks == 1 .. MaxTasks
Root == 0
Workspaces == {Root} \cup Tasks
Startup == -1                              \* initialize(), which runs beside the event handlers
Handlers == {Startup} \cup Workspaces
Background == -2                           \* a maybeStartQueuedTasks() that nobody waits for
Nobody == -3

Statuses == {"none", "queued", "running", "awaiting_report", "reported", "interrupted"}
Active == {"queued", "running", "awaiting_report"}
Disturbances == {"interrupt", "die", "crash", "send", "resume", "timeout", "early", "fail", "patch", "stray"}

VARIABLES
    \* on disk
    status,        \* taskStatus of each task, "none" without an entry in the configuration
    parent,        \* parentWorkspaceId
    made,          \* how many tasks were created
    artifacts,     \* tasks whose report is in the session directories of their ancestors
    patch,         \* the git patch artifact of each task's report: "none", "pending", "ready"
    \* sessions and streams
    streaming,     \* workspaces with a stream
    queued,        \* workspaces whose session holds a queued message
    \* in memory
    waiting,       \* pendingWaitersByTaskId: who waits in the foreground, and for which task
    backgrounded,  \* userBackgroundedTaskIds
    reminded,      \* remindedAwaitingReport
    marked,        \* interruptedParentWorkspaceIds has Root
    resumes,       \* consecutiveAutoResumes of Root
    inbox,         \* per workspace, what waits for its event lock: "end", "report", "recheck"
    handler,       \* per workspace and for Startup, the handler that runs
    kick,          \* a maybeStartQueuedTasks() that nobody waits for is due
    pass,          \* the maybeStartQueuedTasks() that holds the mutex, and what it has left
    making,        \* the create() that holds the mutex: none or one
    cascade,       \* the hard interrupt of Root in progress
    events,        \* the disturbances still to come
    past           \* ghost: the disturbances of this behaviour so far, and "late" (ResumeParent)

disk == <<status, parent, made, artifacts, patch>>
streams == <<streaming, queued>>
marks == <<backgrounded, reminded, marked, resumes>>
mutexed == <<pass, making, cascade>>
user == <<events, past>>
vars == <<disk, streams, waiting, marks, inbox, handler, kick, mutexed, user>>

Idle == [at |-> "idle", seen |-> "none", active |-> FALSE, report |-> FALSE, had |-> FALSE,
         target |-> Root, todo |-> {}, clean |-> {}]
NoPass == [by |-> Nobody, todo |-> {}]
NoCascade == [at |-> "idle", todo |-> {}]

Init ==
    /\ status = [t \in Tasks |-> "none"]
    /\ parent = [t \in Tasks |-> Root]
    /\ made = 0
    /\ artifacts = {} /\ patch = [t \in Tasks |-> "none"]
    /\ streaming = {Root} /\ queued = {}
    /\ waiting = {} /\ backgrounded = {} /\ reminded = {}
    /\ marked = FALSE /\ resumes = 0
    /\ inbox = [w \in Workspaces |-> <<>>]
    /\ handler = [h \in Handlers |-> Idle]
    /\ kick = FALSE /\ pass = NoPass /\ making = {} /\ cascade = NoCascade
    /\ events \in Scenarios
    /\ past = {}

-----------------------------------------------------------------------------
(* The task tree *)

Exists(w) == w \in Tasks => status[w] # "none"

\* The ancestors that the configuration's parentWorkspaceId chain reaches: what every set has that
\* holds the parent of t and, with a task that exists, its parent.
Chain(t, ws) == parent[t] \in ws /\ \A u \in ws \cap Tasks : Exists(u) => parent[u] \in ws
Above == [t \in Tasks |-> {w \in Workspaces : \A ws \in SUBSET Workspaces : Chain(t, ws) => w \in ws}]

Below(w) == {t \in Tasks : Exists(t) /\ w \in Above[t]}

\* hasActiveDescendantAgentTasks
ActiveBelow(w) == {t \in Below(w) : status[t] \in Active}

\* hasChildAgentTasks (and a mutant that looks at active children only)
HasActiveChildren(w) == \E t \in Tasks : status[t] \in Active /\ parent[t] = w
HasChildren(w) == \E t \in Tasks : Exists(t) /\ parent[t] = w

\* isForegroundAwaiting
Blocked(w) == \E p \in waiting : p[1] = w

\* hasCompletedAgentReport (and a mutant that waits for the artifact).  An interrupted task with a
\* reportedAt counts too; while ReportedStays holds there is none.
PersistedReport(t) == status[t] = "reported" /\ t \in artifacts
CompletedReport(t) == status[t] = "reported"

\* A mutant of the next definition: a task counts while it waits.
CountedBlocked ==
    {t \in Tasks : Exists(t) /\ (status[t] \in {"running", "awaiting_report"} \/ t \in streaming)}

\* countActiveAgentTasks: a task that waits in the foreground does not count, a stream
\* without the status does.
Counted ==
    {t \in Tasks : /\ Exists(t)
                   /\ ~(status[t] = "running" /\ Blocked(t))
                   /\ status[t] \in {"running", "awaiting_report"} \/ t \in streaming}
Full == Cardinality(Counted) >= MaxParallel

MutexFree == pass = NoPass /\ making = {} /\ cascade.at \in {"idle", "lock"}

\* The waits of w are rejected: its stream was aborted, or a message was queued for it.
WithoutWaitsOf(w) == {p \in waiting : p[1] # w}

\* The waits for t are answered: resolveWaiters, rejectWaiters.
AwaitedBy(t) == {p \in waiting : p[2] = t}
WithoutWaitsFor(t) == waiting \ AwaitedBy(t)

SetStatus(t, s) == status' = [status EXCEPT ![t] = s]
Push(w, e) == inbox' = [inbox EXCEPT ![w] = Append(@, e)]

-----------------------------------------------------------------------------
(* workspaceService.sendMessage, as the service calls it *)

\* An idle session starts a stream; an interrupted task becomes a running one.
SendToIdle(w) ==
    /\ Exists(w) /\ w \notin streaming
    /\ w \in Tasks => status[w] # "queued"
    /\ streaming' = streaming \cup {w}
    /\ IF w \in Tasks /\ status[w] = "interrupted" THEN SetStatus(w, "running") ELSE UNCHANGED status
    /\ UNCHANGED <<queued, waiting, backgrounded>>

\* A busy session queues the message, and its foreground waits go to the background.
SendToBusy(w) ==
    /\ Exists(w) /\ w \in streaming
    /\ w \in Tasks => status[w] \notin {"queued", "interrupted"}
    /\ queued' = queued \cup {w}
    /\ backgrounded' = backgrounded \cup {p[2] : p \in waiting \ WithoutWaitsOf(w)}
    /\ waiting' = WithoutWaitsOf(w)
    /\ UNCHANGED <<status, streaming>>

Refuses(w) == \/ ~Exists(w)
              \/ w \in Tasks /\ (status[w] = "queued" \/ (status[w] = "interrupted" /\ w \in streaming))

SendRefused(w) ==
    /\ Refuses(w)
    /\ UNCHANGED <<status, streams, waiting, backgrounded>>

Send(w) == SendToIdle(w) \/ SendToBusy(w) \/ SendRefused(w)

-----------------------------------------------------------------------------
(* Streams and the tools they call *)

Happens(e) == e \in events /\ events' = events \ {e} /\ past' = past \cup {e}
Undisturbed == UNCHANGED user

\* The tools of one stream execute one after the other (SequentialExecution).
CanCall(w) == w \in streaming /\ ~Blocked(w) /\ w \notin making

\* create(): the mutex, the parent's checks and the count of active tasks.  A task that was asked
\* for its report should not create any; the policy that requires agent_report does not take
\* the tool away, so that is the disturbance "stray".
CreateBegins(w) ==
    /\ CanCall(w) /\ MutexFree /\ made < MaxTasks
    /\ w \in Tasks => status[w] \notin {"none", "reported"}
    /\ IF w \in Tasks /\ status[w] = "awaiting_report" THEN Happens("stray") ELSE Undisturbed
    /\ making' = {w}
    /\ pass' = [NoPass EXCEPT !.todo = IF Full THEN {made + 1} ELSE {}]
    /\ UNCHANGED <<disk, streams, waiting, marks, inbox, handler, kick, cascade>>

\* create(): the entry is persisted, queued or started at once; a task that cannot be
\* forked or sent its prompt is rolled back.
CreateEnds(w) ==
    /\ w \in making
    /\ making' = {} /\ pass' = NoPass
    /\ \/ /\ made' = made + 1
          /\ parent' = [parent EXCEPT ![made'] = w]
          /\ IF pass.todo # {}
             THEN SetStatus(made', "queued") /\ kick' = TRUE /\ UNCHANGED streaming
             ELSE SetStatus(made', "running") /\ streaming' = streaming \cup {made'} /\ UNCHANGED kick
          /\ Undisturbed
       \/ Happens("fail") /\ pass.todo = {} /\ UNCHANGED <<made, parent, status, kick, streaming>>
    /\ UNCHANGED <<artifacts, patch, queued, waiting, marks, inbox, handler, cascade>>

\* waitForAgentReport(): a descendant that is still to report, or that was interrupted and streams
\* on, gets a waiter; any other answer is given at once.
Awaitable(w) ==
    {t \in Below(w) : \/ status[t] \in Active
                      \/ status[t] = "interrupted" /\ t \notin artifacts /\ t \in streaming}

\* The tools task and task_await wait for any descendants at once, and return when each of them
\* has been answered; the wait for a queued task runs the queue.
Await(w) ==
    /\ CanCall(w)
    /\ \E ts \in SUBSET Awaitable(w) \ {{}} :
           /\ waiting' = waiting \cup ({w} \X ts)
           /\ backgrounded' = backgrounded \ ts
           /\ kick' = (kick \/ \E t \in ts : status[t] = "queued")
    /\ UNCHANGED <<disk, streams, reminded, marked, resumes, inbox, handler, mutexed, user>>

\* The timers of some of the waits of w, which run only while the task does not queue.
AwaitTimesOut(w) ==
    /\ Happens("timeout")
    /\ \E late \in SUBSET (waiting \ WithoutWaitsOf(w)) \ {{}} :
           /\ \A p \in late : status[p[2]] # "queued"
           /\ waiting' = waiting \ late
    /\ UNCHANGED <<disk, streams, marks, inbox, handler, kick, mutexed>>

\* A stream ends and is announced.  agent_report is refused while descendants are active;
\* a task that ends without it although some are is the disturbance "early".
StreamEnds(w, report) ==
    /\ CanCall(w)
    /\ report => w \in Tasks /\ ActiveBelow(w) = {}
    /\ IF w \in Tasks /\ ActiveBelow(w) # {} THEN Happens("early") ELSE Undisturbed
    /\ streaming' = streaming \ {w}
    /\ Push(w, IF report THEN "report" ELSE "end")
    /\ UNCHANGED <<disk, queued, waiting, marks, handler, kick, mutexed>>

\* A stream fails or is aborted by its user: TaskService hears nothing of it.
StreamDies(w) ==
    /\ w \in streaming
    /\ Happens("die")
    /\ streaming' = streaming \ {w}
    /\ waiting' = WithoutWaitsOf(w)
    /\ UNCHANGED <<disk, queued, marks, inbox, handler, kick, mutexed>>

\* The session sends its queued message when the stream is over.
FlushQueue(w) ==
    /\ w \in queued /\ w \notin streaming /\ Exists(w)
    /\ queued' = queued \ {w}
    /\ streaming' = streaming \cup {w}
    /\ UNCHANGED <<disk, waiting, marks, inbox, handler, kick, mutexed, user>>

\* The user writes to the root workspace: a busy session queues it, an idle one starts, and
\* the suppression and the counter of automatic resumes are reset.
UserSends ==
    /\ Happens("send")
    /\ Send(Root)
    /\ IF Root \in streaming THEN UNCHANGED <<marked, resumes>> ELSE marked' = FALSE /\ resumes' = 0
    /\ UNCHANGED <<parent, made, artifacts, patch, reminded, inbox, handler, kick, mutexed>>

\* The user writes to an interrupted task.
UserResumes(t) ==
    /\ status[t] = "interrupted"
    /\ Happens("resume")
    /\ SendToIdle(t)
    /\ UNCHANGED <<parent, made, artifacts, patch, reminded, marked, resumes, inbox, handler, kick,
                   mutexed>>

-----------------------------------------------------------------------------
(* maybeStartQueuedTasks *)

\* A pass is over: the handler that waited for it goes on.  initialize(), which has no target yet,
\* then reads the configuration once for all it is going to resume and clean up.
PassOver(by) ==
    handler' =
        CASE by \in Workspaces \/ (by = Startup /\ handler[by].target # Root) ->
                [handler EXCEPT ![by].at = "resume"]
          [] by = Startup /\ handler[by].target = Root ->
                [handler EXCEPT ![by].at = "restart",
                    ![by].todo = {<<t, status'[t]>> : t \in {u \in Tasks :
                                      /\ status'[u] \in {"running", "awaiting_report"}
                                      /\ ~\E d \in Tasks : status'[d] \in Active /\ u \in Above[d]}},
                    ![by].clean = {t \in Tasks : status'[t] = "reported"}]
          [] OTHER -> handler

Due(by) == IF by = Background THEN kick ELSE handler[by].at = "pass"

\* The mutex is taken; without a free slot or a queued task the pass is over at once.
PassBegins(by) ==
    /\ Due(by) /\ MutexFree
    /\ LET candidates == {t \in Tasks : status[t] = "queued"}
       IN  IF Full \/ candidates = {}
           THEN UNCHANGED <<status, pass>> /\ PassOver(by)
           ELSE /\ pass' = [by |-> by, todo |-> candidates]
                /\ IF by = Background THEN UNCHANGED handler
                   ELSE handler' = [handler EXCEPT ![by].at = "passing"]
                /\ UNCHANGED status
    /\ kick' = (kick /\ by # Background)
    /\ UNCHANGED <<parent, made, artifacts, patch, streams, waiting, marks, inbox, making, cascade,
                   user>>

\* The oldest candidate that is left: skipped, marked as running when it already streams,
\* started, or (a disturbance) not forked, or refused because its project lost its trust.
PassNext ==
    LET t == CHOOSE u \in pass.todo : \A v \in pass.todo : u <= v
        rest == pass.todo \ {t}
    IN  /\ pass.by # Nobody /\ pass.todo # {}
        /\ ~Full
        /\ \/ /\ status[t] # "queued" \/ ~Exists(parent[t])
              /\ Undisturbed /\ UNCHANGED <<status, streaming, waiting>>
           \/ /\ status[t] = "queued" /\ Exists(parent[t])
              /\ SetStatus(t, "running")
              /\ streaming' = streaming \cup {t}
              /\ Undisturbed /\ UNCHANGED waiting
           \/ /\ status[t] = "queued" /\ Happens("fail")
              /\ \/ UNCHANGED <<status, waiting>>
                 \/ SetStatus(t, "interrupted") /\ waiting' = WithoutWaitsFor(t)
              /\ UNCHANGED streaming
        /\ IF rest = {} THEN pass' = NoPass /\ PassOver(pass.by)
                       ELSE pass' = [pass EXCEPT !.todo = rest] /\ UNCHANGED handler
    /\ UNCHANGED <<parent, made, artifacts, patch, queued, marks, inbox, kick, making, cascade>>

\* No slot is left: the pass breaks off.
PassBreaks ==
    /\ pass.by # Nobody
    /\ Full
    /\ pass' = NoPass
    /\ UNCHANGED status
    /\ PassOver(pass.by)
    /\ UNCHANGED <<parent, made, artifacts, patch, streams, waiting, marks, inbox, kick, making,
                   cascade, user>>

-----------------------------------------------------------------------------
(* handleStreamEnd, and what else waits for the event lock of a workspace *)

Stage(h, s) == handler' = [handler EXCEPT ![h].at = s]
Done(h) == handler' = [handler EXCEPT ![h] = Idle]
ToClean(h, t) == handler' = [handler EXCEPT ![h].at = "clean", ![h].target = t]

\* The handler of w begins with what waits longest.  `rest' is the inbox without it.
TakeRecheck(w) ==
    /\ Head(inbox[w]) = "recheck"
    /\ ToClean(w, w)
    /\ inbox' = [inbox EXCEPT ![w] = Tail(@)]
    /\ UNCHANGED <<waiting, marks>>

\* The limit of automatic resumes (and a mutant that is off by one).
FloodedLate == resumes > MaxResumes
Flooded == resumes >= MaxResumes

\* The root workspace ended its stream: with active tasks it is resumed, unless it streams
\* again, was interrupted, waits in the background only or was resumed too often.
TakeRoot ==
    LET active == ActiveBelow(Root)
        rest == [inbox EXCEPT ![Root] = Tail(@)]
        reported == {t \in Tasks : CompletedReport(t) /\ parent[t] = Root}
        asked == active # {} /\ Root \notin streaming /\ ~marked
    IN  /\ Head(inbox[Root]) = "end"
        /\ inbox' = IF active # {} THEN rest
                    ELSE [w \in Workspaces |-> IF w \in reported THEN Append(rest[w], "recheck") ELSE rest[w]]
        /\ backgrounded' = IF asked THEN backgrounded \ active ELSE backgrounded
        /\ IF asked /\ ~(active \subseteq backgrounded) /\ ~Flooded
           THEN resumes' = resumes + 1 /\ Stage(Root, "nudge")
           ELSE UNCHANGED <<resumes, handler>>
        /\ UNCHANGED <<waiting, reminded, marked>>

\* A task ended its stream.  Its status and its descendants are read here, before the await
\* of isPlanLikeTaskWorkspace().
TakeTask(t) ==
    LET report == Head(inbox[t]) = "report"
        begun(s) == [Idle EXCEPT !.at = s, !.seen = status[t], !.report = report, !.target = t,
                                 !.active = ActiveBelow(t) # {}]
    IN  /\ Head(inbox[t]) \in {"end", "report"}
        /\ inbox' = [inbox EXCEPT ![t] = Tail(@)]
        /\ CASE status[t] = "none" -> UNCHANGED <<handler, waiting, backgrounded>>
             [] status[t] = "interrupted" /\ ~report ->
                    waiting' = WithoutWaitsFor(t) /\ backgrounded' = backgrounded \ {t} /\ UNCHANGED handler
             [] OTHER ->
                    /\ handler' = [handler EXCEPT ![t] = begun(CASE status[t] = "interrupted" -> "finalize"
                                                                 [] status[t] = "reported" -> "clean"
                                                                 [] OTHER -> "judge")]
                    /\ UNCHANGED <<waiting, backgrounded>>
        /\ UNCHANGED <<reminded, marked, resumes>>

\* A mutant of the next definition: the recheck does not ask for the event lock.
TakeUnlocked(w) ==
    /\ inbox[w] # <<>>
    /\ handler[w].at = "idle" \/ Head(inbox[w]) = "recheck"
    /\ TakeRecheck(w) \/ (w = Root /\ TakeRoot) \/ (w \in Tasks /\ TakeTask(w))
    /\ UNCHANGED <<disk, streams, kick, mutexed, user>>

Take(w) ==
    /\ handler[w].at = "idle" /\ inbox[w] # <<>>
    /\ TakeRecheck(w) \/ (w = Root /\ TakeRoot) \/ (w \in Tasks /\ TakeTask(w))
    /\ UNCHANGED <<disk, streams, kick, mutexed, user>>

\* The root workspace is told to wait for its tasks.
Nudge ==
    /\ handler[Root].at = "nudge"
    /\ Send(Root)
    /\ Done(Root)
    /\ UNCHANGED <<parent, made, artifacts, patch, reminded, marked, resumes, inbox, kick, mutexed, user>>

\* What to do with the stream that ended: nothing while descendants were active, the report
\* (given, or made from the last text when the reminder did not help), or a reminder.
Judge(t) ==
    LET h == handler[t]
    IN  /\ h.at = "judge"
        /\ IF h.active
           THEN /\ Done(t)
                /\ IF h.seen = "awaiting_report" /\ Exists(t) THEN SetStatus(t, "running")
                                                             ELSE UNCHANGED status
                /\ UNCHANGED reminded
           ELSE IF h.report \/ (h.seen = "awaiting_report" /\ t \in reminded)
           THEN Stage(t, "finalize") /\ UNCHANGED <<status, reminded>>
           ELSE IF Exists(t)
           THEN SetStatus(t, "awaiting_report") /\ reminded' = reminded \cup {t} /\ Stage(t, "remind")
           ELSE Done(t) /\ UNCHANGED <<status, reminded>>
        /\ UNCHANGED <<parent, made, artifacts, patch, streams, waiting, backgrounded, marked, resumes,
                       inbox, kick, mutexed, user>>

Remind(t) ==
    /\ handler[t].at = "remind"
    /\ Send(t)
    /\ Done(t)
    /\ UNCHANGED <<parent, made, artifacts, patch, reminded, marked, resumes, inbox, kick, mutexed, user>>

-----------------------------------------------------------------------------
(* finalizeAgentTaskReport of the task that handler h has as its target *)

\* The handler is through with the report; a task that was interrupted is not cleaned up.
Finalized(h) == IF h = Startup THEN Stage(h, "restart")
                ELSE IF handler[h].seen = "interrupted" THEN Done(h) ELSE Stage(h, "clean")

Finalize(h) ==
    LET t == handler[h].target
    IN  /\ handler[h].at = "finalize"
        /\ backgrounded' = backgrounded \ {t}
        /\ CASE status[t] = "reported" -> Finalized(h) /\ UNCHANGED status
             [] Exists(t) -> SetStatus(t, "reported") /\ Stage(h, "persist")
             [] OTHER -> Stage(h, "persist") /\ UNCHANGED status
        /\ UNCHANGED <<parent, made, artifacts, patch, streams, waiting, reminded, marked, resumes, inbox,
                       kick, mutexed, user>>

\* The report goes to the session directories of the ancestors (of a task that was removed since
\* the last step no ancestors are known), a patch of what the task changed
\* may be begun, who waits for the report gets it (otherwise it is written to the parent's
\* history), and a maybeStartQueuedTasks() is waited for.
Persist(h) ==
    LET t == handler[h].target
    IN  /\ handler[h].at = "persist"
        /\ artifacts' = IF Exists(t) THEN artifacts \cup {t} ELSE artifacts
        /\ \/ Undisturbed /\ UNCHANGED patch
           \/ Happens("patch") /\ Exists(t) /\ patch' = [patch EXCEPT ![t] = "pending"]
        /\ waiting' = WithoutWaitsFor(t)
        /\ backgrounded' = backgrounded \ {t}
        /\ handler' = [handler EXCEPT ![h].at = "pass", ![h].had = AwaitedBy(t) # {}]
        /\ UNCHANGED <<status, parent, made, streams, reminded, marked, resumes, inbox, kick, mutexed>>

\* Whether the parent is resumed with the report: it exists, was not interrupted itself, has no
\* active descendants, does not stream, and nobody waited.
AfterPass(h) ==
    LET p == parent[handler[h].target]
        calm == ActiveBelow(p) = {}
    IN  /\ handler[h].at = "resume"
        /\ resumes' = IF p = Root /\ calm THEN 0 ELSE resumes
        /\ IF Exists(p) /\ ~(p = Root /\ marked) /\ ~handler[h].had /\ calm /\ p \notin streaming
           THEN Stage(h, "send") ELSE Finalized(h)
        /\ UNCHANGED <<disk, streams, waiting, backgrounded, reminded, marked, inbox, kick, mutexed, user>>

\* The parent gets the report.  When it is a task, it has ended its stream without this report: the
\* ghost notes that as "late".
ResumeParent(h) ==
    LET p == parent[handler[h].target]
    IN  /\ handler[h].at = "send"
        /\ Send(p)
        /\ Finalized(h)
        /\ past' = IF p \in Tasks THEN past \cup {"late"} ELSE past
        /\ UNCHANGED <<parent, made, artifacts, patch, reminded, marked, resumes, inbox, kick, mutexed, events>>

-----------------------------------------------------------------------------
(* cleanupReportedLeafTask: leaves are removed upwards *)

Cleanable(t) == /\ t \in Tasks /\ CompletedReport(t)
                /\ t \notin streaming /\ ~HasChildren(t) /\ patch[t] # "pending"

NothingToClean(h) == IF h = Startup THEN Stage(h, "cleanup") ELSE Done(h)

Clean(h) ==
    /\ handler[h].at = "clean"
    /\ IF Cleanable(handler[h].target) THEN Stage(h, "remove") ELSE NothingToClean(h)
    /\ UNCHANGED <<disk, streams, waiting, marks, inbox, kick, mutexed, user>>

\* The workspace is removed, with a stream that began after the check; then its parent's turn.
Remove(h) ==
    LET t == handler[h].target
    IN  /\ handler[h].at = "remove"
        /\ SetStatus(t, "none")
        /\ streaming' = streaming \ {t} /\ queued' = queued \ {t}
        /\ waiting' = WithoutWaitsOf(t)
        /\ ToClean(h, parent[t])
        /\ UNCHANGED <<parent, made, artifacts, patch, marks, inbox, kick, mutexed, user>>

\* A mutant of the next definition: nobody looks at the task again.
PatchForgotten(t) ==
    /\ patch[t] = "pending" /\ handler[Startup].at = "idle"
    /\ patch' = [patch EXCEPT ![t] = "ready"]
    /\ UNCHANGED <<status, parent, made, artifacts, streams, waiting, marks, inbox, handler, kick, mutexed,
                   user>>

\* The patch artifact is ready (or failed), and the task is looked at again.
PatchDone(t) ==
    /\ patch[t] = "pending" /\ handler[Startup].at = "idle"
    /\ patch' = [patch EXCEPT ![t] = "ready"]
    /\ Push(t, "recheck")
    /\ UNCHANGED <<status, parent, made, artifacts, streams, waiting, marks, handler, kick, mutexed, user>>

-----------------------------------------------------------------------------
(* The user's hard interrupt of the root workspace *)

Interrupt ==
    /\ Happens("interrupt")
    /\ cascade' = [cascade EXCEPT !.at = "lock"]
    /\ streaming' = streaming \ {Root} /\ queued' = queued \ {Root}
    /\ waiting' = WithoutWaitsOf(Root)
    /\ marked' = TRUE /\ resumes' = 0
    /\ UNCHANGED <<disk, backgrounded, reminded, inbox, handler, kick, pass, making>>

\* terminateAllDescendantAgentTasks holds the mutex while it goes through the descendants.
CascadeBegins ==
    /\ cascade.at = "lock" /\ MutexFree
    /\ cascade' = IF Below(Root) = {} THEN NoCascade ELSE [at |-> "stop", todo |-> Below(Root)]
    /\ UNCHANGED <<disk, streams, waiting, marks, inbox, handler, kick, pass, making, user>>

\* The deepest task that is left (a task is created after its parent).
Deepest == CHOOSE t \in cascade.todo : \A u \in cascade.todo : u <= t

CascadeStops ==
    /\ cascade.at = "stop"
    /\ cascade' = [cascade EXCEPT !.at = "mark"]
    /\ streaming' = streaming \ {Deepest} /\ queued' = queued \ {Deepest}
    /\ waiting' = WithoutWaitsOf(Deepest)
    /\ reminded' = reminded \ {Deepest}
    /\ UNCHANGED <<disk, backgrounded, marked, resumes, inbox, handler, kick, pass, making, user>>

\* A completed report is kept, every other task is interrupted and who waits for it is told;
\* after the last one a maybeStartQueuedTasks() follows.
CascadeMarks ==
    LET t == Deepest
        rest == cascade.todo \ {t}
    IN  /\ cascade.at = "mark"
        /\ IF CompletedReport(t) THEN UNCHANGED <<status, waiting, backgrounded>>
           ELSE /\ IF Exists(t) THEN SetStatus(t, "interrupted") ELSE UNCHANGED status
                /\ waiting' = WithoutWaitsFor(t) /\ backgrounded' = backgrounded \ {t}
        /\ cascade' = IF rest = {} THEN NoCascade ELSE [at |-> "stop", todo |-> rest]
        /\ kick' = (kick \/ rest = {})
        /\ UNCHANGED <<parent, made, artifacts, patch, streams, reminded, marked, resumes, inbox, handler,
                       pass, making, user>>

-----------------------------------------------------------------------------
(* A crash, and initialize() after it *)

Crash ==
    /\ Happens("crash")
    /\ streaming' = {} /\ queued' = {} /\ waiting' = {}
    /\ backgrounded' = {} /\ reminded' = {} /\ marked' = FALSE /\ resumes' = 0
    /\ inbox' = [w \in Workspaces |-> <<>>]
    /\ handler' = [h \in Handlers |-> IF h = Startup THEN [Idle EXCEPT !.at = "pass"] ELSE Idle]
    /\ kick' = FALSE /\ pass' = NoPass /\ making' = {} /\ cascade' = NoCascade
    /\ UNCHANGED disk

\* The tasks whose status was awaiting_report come first, then those that were running.
NextToResume ==
    LET todo == handler[Startup].todo
        first == IF \E e \in todo : e[2] = "awaiting_report"
                 THEN {e \in todo : e[2] = "awaiting_report"} ELSE todo
    IN  CHOOSE e \in first : \A f \in first : e[1] <= f[1]

\* A task is told that Mux restarted.  When an awaiting task refuses that, its last text is
\* its report.
StartupResumes ==
    LET h == handler[Startup]
        e == NextToResume
        t == e[1]
        awaits == e[2] = "awaiting_report"
    IN  /\ h.at = "restart" /\ h.todo # {}
        /\ Send(t)
        /\ reminded' = IF awaits THEN reminded \cup {t} ELSE reminded
        /\ handler' = [handler EXCEPT ![Startup] =
                          [h EXCEPT !.todo = h.todo \ {e}, !.target = t,
                                    !.at = IF awaits /\ Refuses(t) THEN "finalize" ELSE "restart"]]
        /\ UNCHANGED <<parent, made, artifacts, patch, marked, resumes, inbox, kick, mutexed, user>>

\* The patches that the crash prevented are begun, before the cleanup.
StartupPatches ==
    LET h == handler[Startup]
        missing == {t \in h.clean : Exists(t) /\ patch[t] = "none"}
    IN  /\ h.at = "restart" /\ h.todo = {}
        /\ Stage(Startup, "cleanup")
        /\ \/ Undisturbed /\ UNCHANGED patch
           \/ Happens("patch") /\ \E t \in missing : patch' = [patch EXCEPT ![t] = "pending"]
        /\ UNCHANGED <<status, parent, made, artifacts, streams, waiting, marks, inbox, kick, mutexed>>

\* The reported tasks are cleaned up one after the other, without their event locks.
StartupCleans ==
    LET h == handler[Startup]
    IN  /\ h.at = "cleanup"
        /\ handler' = [handler EXCEPT ![Startup] =
               IF h.clean = {} THEN Idle
               ELSE LET t == CHOOSE u \in h.clean : \A v \in h.clean : u <= v
                    IN  [h EXCEPT !.at = "clean", !.target = t, !.clean = h.clean \ {t}]]
        /\ UNCHANGED <<disk, streams, waiting, marks, inbox, kick, mutexed, user>>

-----------------------------------------------------------------------------
(* The whole service *)

HandlerStep(h) ==
    \/ Finalize(h) \/ Persist(h) \/ AfterPass(h) \/ ResumeParent(h) \/ Clean(h) \/ Remove(h)
    \/ h \in Workspaces /\ Take(h)
    \/ h \in Tasks /\ (Judge(h) \/ Remind(h))

Passes == (\E by \in {Background} \cup Handlers : PassBegins(by)) \/ PassNext \/ PassBreaks
Cascades == CascadeBegins \/ CascadeStops \/ CascadeMarks
StartupStep == StartupResumes \/ StartupPatches \/ StartupCleans

\* What a model does with its stream, besides creating tasks.
StreamStep(w) ==
    \/ Await(w)
    \/ \E report \in BOOLEAN : StreamEnds(w, report)

Disturbed ==
    \/ \E t \in Tasks : UserResumes(t)
    \/ \E w \in Workspaces : StreamDies(w) \/ AwaitTimesOut(w)
    \/ UserSends \/ Interrupt \/ Crash

System ==
    \/ \E h \in Handlers : HandlerStep(h)
    \/ Nudge
    \/ Passes \/ Cascades \/ StartupStep
    \/ \E w \in Workspaces : CreateEnds(w) \/ StreamStep(w) \/ FlushQueue(w)
    \/ \E t \in Tasks : PatchDone(t)

Next == System \/ (\E w \in Workspaces : CreateBegins(w)) \/ Disturbed

\* The event loop goes on as long as something is left to do: promises settle, a model ends its
\* stream or waits for a task, patches are generated.
Fairness == WF_vars(System)

Spec == Init /\ [][Next]_vars
FairSpec == Spec /\ Fairness

Stages == {"idle", "nudge", "judge", "remind", "finalize", "persist", "pass", "passing", "resume",
           "send", "clean", "remove", "restart", "cleanup"}
HandlerType ==
    [at : Stages, seen : Statuses, active : BOOLEAN, report : BOOLEAN, had : BOOLEAN,
     target : Workspaces, todo : SUBSET (Tasks \X Statuses), clean : SUBSET Tasks]

\* Every variable has the shape that the code gives it: the fields of TaskService and the entries
\* of the configuration file.
TypeOK ==
    /\ status \in [Tasks -> Statuses] /\ parent \in [Tasks -> Workspaces] /\ made \in 0 .. MaxTasks
    /\ artifacts \subseteq Tasks /\ patch \in [Tasks -> {"none", "pending", "ready"}]
    /\ streaming \subseteq Workspaces /\ queued \subseteq Workspaces
    /\ waiting \subseteq Workspaces \X Tasks /\ backgrounded \subseteq Tasks /\ reminded \subseteq Tasks
    /\ marked \in BOOLEAN /\ resumes \in 0 .. MaxResumes
    /\ inbox \in [Workspaces -> Seq({"end", "report", "recheck"})]
    /\ handler \in [Handlers -> HandlerType]
    /\ kick \in BOOLEAN
    /\ pass \in [by : {Nobody, Background} \cup Handlers, todo : SUBSET Tasks]
    /\ making \subseteq Workspaces
    /\ cascade \in [at : {"idle", "lock", "stop", "mark"}, todo : SUBSET Tasks]

-----------------------------------------------------------------------------
(* Properties *)

\* No handler, pass or stream can go on by itself.
Stalled ==
    /\ MutexFree /\ cascade.at = "idle" /\ ~kick
    /\ \A h \in Handlers : handler[h].at = "idle"
    /\ \A w \in Workspaces : inbox[w] = <<>> /\ (w \in streaming => Blocked(w))

\* A task that is gone left its report with its ancestors, where task_await retrieves it
\* (taskService.ts:3922).
ReportsSurvive == \A t \in 1 .. made : Exists(t) \/ t \in artifacts

\* ... at least as long as Mux is not restarted, for a task without children of its own: only its
\* own handler removes it, and not before the report is on disk.
LeavesReport == "crash" \notin past =>
    \A t \in 1 .. made : Exists(t) \/ t \in artifacts \/ \E u \in t + 1 .. made : parent[u] = t

\* The cleanup never orphans a task (taskService.ts:4638).
ParentsExist == \A t \in Tasks : Exists(t) => Exists(parent[t])

\* ... as long as no stream dies while it creates a task: the cleanup goes from the leaves up, although
\* tasks are created, resumed and removed by handlers of different workspaces.
NoOrphans == "die" \notin past => ParentsExist

\* When nothing is left to do, no reported task is left either, unless it has children that have
\* still to report: some handler has looked at it after it could be removed.  (The report of an
\* interrupted task stays until the next end of the root's stream, and so does a task that streams
\* once more when it is cleaned up, in a stream that then dies.)
CleanedUp == Stalled /\ past \cap {"interrupt", "die"} = {} => \A t \in Tasks : ~Cleanable(t)

\* A report is final: no stale handler, restart or interrupt changes the status of a reported task.
ReportedStays == [][\A t \in Tasks : status[t] = "reported" => status'[t] \in {"reported", "none"}]_vars

\* Nobody waits for everybody else.  Out of order are a task that fails, or stops while its own tasks
\* are active, or asks for others after it was asked for its report; a restart, which leaves a task with a queued
\* child idle; an interrupt that meets a reminder; and a late resumption: the task goes on beside
\* the handler of its stream's end.
OutOfOrder == past \cap {"early", "stray", "die", "fail", "interrupt", "crash", "late"} # {}

\* Foreground waits prevent deadlocks, also with a limit of one (taskService.ts:2405): when nothing can
\* go on by itself, nobody waits for a task and no task is queued.
WaitsGiveWay == Stalled /\ ~OutOfOrder => waiting = {} /\ \A t \in Tasks : status[t] # "queued"

\* ... but for one omission: who waits for a task that has started gives up a slot, and the queue is
\* looked at only when a task waited for is itself queued (2072).  Nothing else makes
\* everybody wait, however waits, reports and passes interleave: whoever is waited for waits
\* or queues, and nobody queues in vain unless some task waits only for tasks that have started.
SlotUnused ==
    \E w \in Tasks : /\ Blocked(w)
                     /\ \A p \in waiting : p[1] = w => status[p[2]] \in {"running", "awaiting_report"}
NothingStuck ==
    Stalled /\ ~OutOfOrder =>
        /\ \A p \in waiting : status[p[2]] = "queued" \/ Blocked(p[2])
        /\ (\E t \in Tasks : status[t] = "queued") => SlotUnused

\* "We'll auto-resume this task once the last descendant reports" (3202): when nothing can go on by
\* itself, no running task without active descendants has been left without a stream.
ResumedAfterLast ==
    Stalled => \A t \in Tasks : status[t] = "running" /\ ActiveBelow(t) = {} => t \in streaming

\* Every queued task is started sooner or later: a foreground wait gives its slot to the task that
\* is waited for, so that a low limit does not lead to a deadlock (taskService.ts:2405).
QueueMoves == \A t \in Tasks : status[t] = "queued" ~> status[t] # "queued"

\* Who was hard-interrupted does not go on by itself: the root workspace and its tasks stay
\* still until the user sends something (taskService.ts:1584, workspaceService.ts:4918).
StaysInterrupted == [][past' = {"interrupt"} /\ cascade.at = "idle" =>
                          \A t \in Tasks : status[t] = "interrupted" => status'[t] = "interrupted"]_vars
=============================================================================
