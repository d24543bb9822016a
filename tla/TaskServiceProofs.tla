--------------------------- MODULE TaskServiceProofs ---------------------------
(***************************************************************************)
(* Proofs about TaskService, for any number of tasks, any limits and any   *)
(* disturbances: the types, that a report is final and reaches the         *)
(* ancestors of a leaf before it is removed, that no task is orphaned,     *)
(* that a reported task is looked at again until it is removed, and that   *)
(* waits and the limit of parallel tasks do not make everybody wait.       *)
(***************************************************************************)
EXTENDS TaskService, FiniteSetTheorems, WellFoundedInduction, TLAPS

-----------------------------------------------------------------------------
(* The inductive invariant *)

\* t was a parent once, whether or not its children still exist.
HadChild(t) == \E u \in t + 1 .. made : parent[u] = t

\* Tasks are numbered as they are created, after their parents.
Numbered ==
    /\ \A t \in Tasks : t > made => status[t] = "none"
    /\ \A t \in 1 .. made : parent[t] < t
    /\ \A w \in making : w <= made /\ made < MaxTasks

\* The handler of a workspace is about that workspace, until its cleanup goes up the tree.
OwnTask(w) ==
    IF handler[w].at \in {"clean", "remove"}
    THEN handler[w].target = w \/ HadChild(handler[w].target)
    ELSE handler[w].at \in {"idle", "nudge"} \/ (w \in Tasks /\ handler[w].target = w)

\* No restart meets tasks that were interrupted at work.  Otherwise initialize() may finalize a task
\* whose own handler is at work, which takes the report for missing.
Orderly == "crash" \notin past \/ "interrupt" \notin past

\* Streams that do not die finish the create() they have called before they end.
Alive == Orderly /\ "die" \notin past

\* What the handlers still know of their tasks after an await.
RemovesReported(h) ==
    handler[h].at = "remove" =>
        /\ handler[h].target \in 1 .. made
        /\ Orderly => status[handler[h].target] \in {"reported", "none"}
        /\ Alive => handler[h].target \notin making /\ ~HasChildren(handler[h].target)
JudgesUnreported(h) == Orderly /\ handler[h].at = "judge" => status[h] # "reported"

HandlersOK ==
    \A h \in Handlers : (h \in Workspaces => OwnTask(h) /\ JudgesUnreported(h)) /\ RemovesReported(h)

\* initialize() runs after a crash only, knows tasks that were started before, and finalizes those
\* that are gone.
StartupOK ==
    /\ "crash" \notin past => handler[Startup].at = "idle"
    /\ handler[Startup].at \in {"resume", "send"} => handler[Startup].target \in Tasks
    /\ handler[Startup].at \in {"finalize", "persist"} => handler[Startup].target \in 1 .. made
    /\ \A e \in handler[Startup].todo :
           /\ e[1] <= made /\ status[e[1]] # "queued"
           /\ "interrupt" \notin past => status[e[1]] # "interrupted"
    /\ Orderly /\ handler[Startup].at \in {"finalize", "persist"} => ~Exists(handler[Startup].target)

\* The handler that a pass will send on waits for it; a cascade and a create exclude each other.
MutexOwners ==
    /\ pass.by \in Handlers => handler[pass.by].at = "passing"
    /\ cascade.at \in {"stop", "mark"} => making = {}

\* Only a hard interrupt, and the start of a task that fails, interrupt tasks.
InterruptsTraced ==
    /\ cascade.at # "idle" => "interrupt" \in past
    /\ past \cap {"interrupt", "fail"} = {} => \A t \in Tasks : status[t] # "interrupted"

\* A create() is a tool call of a live stream, whose task is not removed.
CreatesAlive == Alive => \A w \in making : Exists(w) /\ (w \in Tasks => w \in streaming)

\* A leaf is reported a moment before its report is stored, by its own handler.
ReportedIsStored ==
    "crash" \notin past =>
        \A t \in Tasks : status[t] = "reported" =>
            t \in artifacts \/ HadChild(t) \/ handler[t].at = "persist"

\* The control part of the inductive invariant, and all of it.
ControlOK == Numbered /\ HandlersOK /\ StartupOK /\ MutexOwners /\ InterruptsTraced
TaskIInv ==
    /\ TypeOK /\ ControlOK
    /\ CreatesAlive /\ (Alive => ParentsExist)
    /\ ReportedIsStored /\ LeavesReport

-----------------------------------------------------------------------------
(* Types *)

\* A set of natural numbers that is not empty has a least element.
LEMMA LeastExists ==
    ASSUME NEW S \in SUBSET Nat, S # {}
    PROVE  \E n \in S : \A m \in S : n <= m
<1>1. PICK n \in S : \A m \in S : <<m, n>> \notin OpToRel(<, Nat)
  BY WFMin, NatLessThanWellFounded, Zenon
<1>2. \A m \in S : ~(m < n) BY <1>1 DEF OpToRel
<1> QED BY <1>2

\* The oldest task of a set is one of it.
LEMMA OldestIsMember ==
    ASSUME NEW S \in SUBSET Tasks, S # {}
    PROVE  (CHOOSE t \in S : \A u \in S : t <= u) \in S
<1>1. S \in SUBSET Nat BY SizesAssumption DEF Tasks
<1>2. \E t \in S : \A u \in S : t <= u BY <1>1, LeastExists
<1> QED BY <1>2

\* What initialize() resumes next is one of what it has to.
LEMMA NextToResumeIsMember ==
    ASSUME TypeOK, handler[Startup].todo # {}
    PROVE  NextToResume \in handler[Startup].todo
<1> DEFINE todo == handler[Startup].todo
           first == IF \E e \in todo : e[2] = "awaiting_report"
                    THEN {e \in todo : e[2] = "awaiting_report"} ELSE todo
           numbers == {e[1] : e \in first}
<1>1. first # {} /\ first \subseteq todo OBVIOUS
<1>2. todo \subseteq Tasks \X Statuses BY DEF TypeOK, HandlerType, Handlers
<1>3. \A e \in first : e[1] \in Nat
  <2>1. \A e \in first : e \in Tasks \X Statuses BY <1>1, <1>2
  <2> QED BY <2>1, SizesAssumption DEF Tasks
<1>4. numbers \in SUBSET Nat /\ numbers # {} BY <1>1, <1>3
<1> HIDE DEF first
<1>5. PICK n \in numbers : \A m \in numbers : n <= m BY <1>4, LeastExists
<1>6. \E e \in first : \A f \in first : e[1] <= f[1] BY <1>5
<1>7. NextToResume = CHOOSE e \in first : \A f \in first : e[1] <= f[1]
  BY DEF NextToResume, first
<1> QED BY <1>1, <1>6, <1>7

Handling == [Handlers -> HandlerType]

\* A handler that does nothing is one.
LEMMA IdleIsHandler == Idle \in HandlerType
  BY DEF Idle, HandlerType, Stages, Statuses, Workspaces

\* A handler that goes on to another stage remains one, and so do the others.
LEMMA StageKeepsTypes ==
    ASSUME handler \in Handling, NEW h \in Handlers, NEW s \in Stages, Stage(h, s)
    PROVE  handler' \in Handling
  BY DEF Handling, HandlerType, Stage

\* ... one that is done ...
LEMMA DoneKeepsTypes ==
    ASSUME handler \in Handling, NEW h \in Handlers, Done(h)
    PROVE  handler' \in Handling
  BY IdleIsHandler DEF Handling, Done

\* ... one that cleans up ...
LEMMA ToCleanKeepsTypes ==
    ASSUME handler \in Handling, NEW h \in Handlers, NEW w \in Workspaces, ToClean(h, w)
    PROVE  handler' \in Handling
<1>1. [handler[h] EXCEPT !.at = "clean"] \in HandlerType
  BY DEF Handling, HandlerType, Stages
<1>2. \A r \in HandlerType : [r EXCEPT !.target = w] \in HandlerType
  BY DEF HandlerType
<1>3. handler' = [handler EXCEPT ![h] = [[handler[h] EXCEPT !.at = "clean"] EXCEPT !.target = w]]
  BY DEF Handling, ToClean
<1> QED BY <1>1, <1>2, <1>3 DEF Handling

\* ... one that is through with a report ...
LEMMA FinalizedKeepsTypes ==
    ASSUME handler \in Handling, NEW h \in Handlers, Finalized(h)
    PROVE  handler' \in Handling
  BY StageKeepsTypes, DoneKeepsTypes DEF Finalized, Stages

\* ... and one whose pass is over.
LEMMA PassOverKeepsTypes ==
    ASSUME handler \in Handling, status' \in [Tasks -> Statuses], NEW by, PassOver(by)
    PROVE  handler' \in Handling
<1>0. Workspaces \subseteq Handlers /\ Startup \in Handlers /\ Startup \notin Workspaces
  BY SizesAssumption DEF Handlers, Workspaces, Startup, Root, Tasks
<1>1. CASE by \in Workspaces \/ (by = Startup /\ handler[by].target # Root)
  <2>1. by \in Handlers /\ Stage(by, "resume") BY <1>0, <1>1 DEF PassOver, Stage
  <2> QED BY <2>1, StageKeepsTypes DEF Stages
<1>2. CASE by \notin Workspaces /\ by = Startup /\ handler[by].target = Root
  <2> DEFINE todo == {<<t, status'[t]>> : t \in {u \in Tasks :
                         /\ status'[u] \in {"running", "awaiting_report"}
                         /\ ~\E d \in Tasks : status'[d] \in Active /\ u \in Above[d]}}
             clean == {t \in Tasks : status'[t] = "reported"}
  <2>1. handler' = [handler EXCEPT ![by].at = "restart", ![by].todo = todo, ![by].clean = clean]
    BY <1>2 DEF PassOver
  <2>2. todo \in SUBSET (Tasks \X Statuses) /\ clean \in SUBSET Tasks OBVIOUS
  <2> HIDE DEF todo, clean
  <2> DEFINE r == [handler[by] EXCEPT !.at = "restart"]
  <2>3. r \in HandlerType
    BY <1>0, <1>2 DEF Handling, HandlerType, Stages
  <2>4. [[r EXCEPT !.todo = todo] EXCEPT !.clean = clean] \in HandlerType
    <3>1. \A q \in HandlerType : [q EXCEPT !.todo = todo] \in HandlerType BY <2>2 DEF HandlerType
    <3>2. \A q \in HandlerType : [q EXCEPT !.clean = clean] \in HandlerType BY <2>2 DEF HandlerType
    <3> QED BY <2>3, <3>1, <3>2
  <2>5. handler' = [handler EXCEPT ![by] = [[r EXCEPT !.todo = todo] EXCEPT !.clean = clean]]
    BY <1>0, <1>2, <2>1 DEF Handling
  <2> QED BY <1>0, <1>2, <2>4, <2>5 DEF Handling
<1>3. CASE by \notin Workspaces /\ by # Startup
  BY <1>3 DEF PassOver
<1> QED BY <1>1, <1>2, <1>3

\* A send keeps the types of what it touches.
LEMMA SendKeepsTypes ==
    ASSUME TypeOK, NEW w \in Workspaces, Send(w)
    PROVE  /\ status' \in [Tasks -> Statuses]
           /\ streaming' \subseteq Workspaces /\ queued' \subseteq Workspaces
           /\ waiting' \subseteq Workspaces \X Tasks /\ backgrounded' \subseteq Tasks
<1>1. \A p \in waiting : p[2] \in Tasks BY DEF TypeOK
<1>2. CASE SendToIdle(w) BY <1>2 DEF TypeOK, SendToIdle, SetStatus, Statuses
<1>3. CASE SendToBusy(w) BY <1>1, <1>3 DEF TypeOK, SendToBusy, WithoutWaitsOf
<1>4. CASE SendRefused(w) BY <1>4 DEF TypeOK, SendRefused, streams
<1> QED BY <1>2, <1>3, <1>4 DEF Send

\* The conjuncts of TypeOK by what they are about, so that a step names only those it disturbs.
TreeTypes ==
    /\ status \in [Tasks -> Statuses] /\ parent \in [Tasks -> Workspaces] /\ made \in 0 .. MaxTasks
    /\ artifacts \subseteq Tasks /\ patch \in [Tasks -> {"none", "pending", "ready"}]
StreamTypes ==
    /\ streaming \subseteq Workspaces /\ queued \subseteq Workspaces
    /\ waiting \subseteq Workspaces \X Tasks /\ backgrounded \subseteq Tasks /\ reminded \subseteq Tasks
    /\ marked \in BOOLEAN /\ resumes \in 0 .. MaxResumes
HandlerTypes ==
    /\ inbox \in [Workspaces -> Seq({"end", "report", "recheck"})]
    /\ handler \in Handling
MutexTypes ==
    /\ kick \in BOOLEAN
    /\ pass \in [by : {Nobody, Background} \cup Handlers, todo : SUBSET Tasks]
    /\ making \subseteq Workspaces
    /\ cascade \in [at : {"idle", "lock", "stop", "mark"}, todo : SUBSET Tasks]

\* TypeOK is their conjunction, before a step ...
LEMMA TypesSplit == TypeOK <=> TreeTypes /\ StreamTypes /\ HandlerTypes /\ MutexTypes
  BY DEF TypeOK, TreeTypes, StreamTypes, HandlerTypes, MutexTypes, Handling

\* ... and after it.
LEMMA TypesSplitPrime == TypeOK' <=> TreeTypes' /\ StreamTypes' /\ HandlerTypes' /\ MutexTypes'
  BY DEF TypeOK, TreeTypes, StreamTypes, HandlerTypes, MutexTypes, Handling

\* What the parts of the state that a step leaves alone need.
LEMMA TreeStays == TreeTypes /\ UNCHANGED disk => TreeTypes'
  BY DEF TreeTypes, disk
\* ... likewise the streams, waits and marks,
LEMMA StreamsStay == StreamTypes /\ UNCHANGED <<streams, waiting, marks>> => StreamTypes'
  BY DEF StreamTypes, streams, marks
\* the handlers and inboxes,
LEMMA HandlersStay == HandlerTypes /\ UNCHANGED <<inbox, handler>> => HandlerTypes'
  BY DEF HandlerTypes, Handling
\* and what the mutex guards.
LEMMA MutexStays == MutexTypes /\ UNCHANGED <<kick, mutexed>> => MutexTypes'
  BY DEF MutexTypes, mutexed

\* An event that joins an inbox, and one that is taken from it.
LEMMA InboxKeepsTypes ==
    ASSUME inbox \in [Workspaces -> Seq({"end", "report", "recheck"})], NEW w \in Workspaces
    PROVE  /\ \A e \in {"end", "report", "recheck"} :
                  [inbox EXCEPT ![w] = Append(@, e)] \in [Workspaces -> Seq({"end", "report", "recheck"})]
           /\ inbox[w] # <<>> =>
                  [inbox EXCEPT ![w] = Tail(@)] \in [Workspaces -> Seq({"end", "report", "recheck"})]
  OBVIOUS

\* The constants of the model are what they are called.
LEMMA TaskFacts ==
    /\ MaxTasks \in Nat /\ MaxResumes \in Nat
    /\ Tasks \subseteq Nat /\ Workspaces \subseteq Nat /\ Root \notin Tasks /\ Startup \notin Workspaces
    /\ Workspaces = {Root} \cup Tasks /\ Handlers = {Startup} \cup Workspaces
    /\ Background \notin Handlers /\ Nobody \notin Handlers
  BY SizesAssumption DEF Tasks, Root, Startup, Workspaces, Handlers, Background, Nobody

\* What is finalized, delivered or removed is a task: the root workspace has no report.
LEMMA TargetsAreTasks ==
    ASSUME TypeOK, ControlOK, NEW h \in Handlers,
           handler[h].at \in {"finalize", "persist", "resume", "send", "remove"}
    PROVE  handler[h].target \in Tasks
<1>1. CASE handler[h].at = "remove"
  BY <1>1, TaskFacts DEF ControlOK, HandlersOK, RemovesReported, TypeOK, Tasks
<1>2. CASE handler[h].at # "remove" /\ h = Startup
  <2>1. made \in 0 .. MaxTasks BY DEF TypeOK
  <2> QED BY <1>2, <2>1, TaskFacts DEF ControlOK, StartupOK, Tasks
<1>3. CASE handler[h].at # "remove" /\ h \in Workspaces
  BY <1>3 DEF ControlOK, HandlersOK, OwnTask
<1> QED BY <1>1, <1>2, <1>3, TaskFacts

\* Every step keeps the types.
LEMMA TypeStep == TypeOK /\ ControlOK /\ [Next]_vars => TypeOK'
<1> SUFFICES ASSUME TypeOK, ControlOK, [Next]_vars PROVE TypeOK'
  OBVIOUS
<1>0. /\ TreeTypes /\ StreamTypes /\ HandlerTypes /\ MutexTypes
      /\ \A w \in making : made < MaxTasks
  BY TypesSplit DEF ControlOK, Numbered
<1> USE DEF Handling
<1>1. ASSUME NEW w \in Workspaces, CreateBegins(w) PROVE TypeOK'
  <2>1. TreeTypes' BY <1>0, <1>1, TreeStays DEF CreateBegins
  <2>2. StreamTypes' BY <1>0, <1>1, StreamsStay DEF CreateBegins
  <2>3. HandlerTypes' BY <1>0, <1>1, HandlersStay DEF CreateBegins
  <2>4. MutexTypes'
    <3>1. made + 1 \in Tasks BY <1>0, <1>1, TaskFacts DEF CreateBegins, TreeTypes, Tasks
    <3>2. pass' = [by |-> Nobody, todo |-> IF Full THEN {made + 1} ELSE {}]
      BY <1>1 DEF CreateBegins, NoPass
    <3>3. making' = {w} /\ kick' = kick /\ cascade' = cascade BY <1>1 DEF CreateBegins
    <3> QED BY <1>0, <3>1, <3>2, <3>3 DEF MutexTypes
  <2> QED BY <2>1, <2>2, <2>3, <2>4, TypesSplitPrime
<1>2. ASSUME NEW w \in Workspaces, CreateEnds(w) PROVE TypeOK'
  <2>1. TreeTypes'
    <3>1. made + 1 \in Tasks /\ made + 1 \in 0 .. MaxTasks
      BY <1>0, <1>2, TaskFacts DEF CreateEnds, TreeTypes, Tasks
    <3>2. artifacts' = artifacts /\ patch' = patch BY <1>2 DEF CreateEnds
    <3>3. CASE UNCHANGED <<made, parent, status, kick, streaming>>
      BY <1>0, <3>2, <3>3 DEF TreeTypes
    <3>4. CASE made' = made + 1 /\ parent' = [parent EXCEPT ![made'] = w]
      <4>1. status' \in [Tasks -> Statuses]
        BY <1>0, <1>2, <3>1, <3>4 DEF CreateEnds, SetStatus, TreeTypes, Statuses
      <4> QED BY <1>0, <3>1, <3>2, <3>4, <4>1 DEF TreeTypes
    <3> QED BY <1>2, <3>3, <3>4 DEF CreateEnds
  <2>2. StreamTypes'
    <3>1. made + 1 \in Workspaces
      BY <1>0, <1>2, TaskFacts DEF CreateEnds, TreeTypes, Tasks
    <3>2. streaming' \subseteq Workspaces BY <1>0, <1>2, <3>1 DEF CreateEnds, StreamTypes
    <3> QED BY <1>0, <1>2, <3>2 DEF CreateEnds, StreamTypes, marks
  <2>3. HandlerTypes' BY <1>0, <1>2, HandlersStay DEF CreateEnds
  <2>4. MutexTypes'
    BY <1>0, <1>2, TaskFacts DEF CreateEnds, NoPass, MutexTypes
  <2> QED BY <2>1, <2>2, <2>3, <2>4, TypesSplitPrime
<1>3. ASSUME NEW w \in Workspaces, Await(w) PROVE TypeOK'
  <2>1. TreeTypes' BY <1>0, <1>3, TreeStays DEF Await, disk, streams, marks, mutexed
  <2>2. StreamTypes'
    BY <1>0, <1>3, TaskFacts DEF Await, Awaitable, Below, StreamTypes, disk, streams, marks, mutexed
  <2>3. HandlerTypes' BY <1>0, <1>3, HandlersStay DEF Await, disk, streams, marks, mutexed
  <2>4. MutexTypes'
    BY <1>0, <1>3, TaskFacts DEF Await, MutexTypes, disk, streams, marks, mutexed
  <2> QED BY <2>1, <2>2, <2>3, <2>4, TypesSplitPrime
<1>4. ASSUME NEW w \in Workspaces, AwaitTimesOut(w) PROVE TypeOK'
  <2>1. TreeTypes' BY <1>0, <1>4, TreeStays DEF AwaitTimesOut, disk, streams, marks, mutexed
  <2>2. StreamTypes'
    BY <1>0, <1>4, TaskFacts DEF AwaitTimesOut, StreamTypes, disk, streams, marks, mutexed
  <2>3. HandlerTypes' BY <1>0, <1>4, HandlersStay DEF AwaitTimesOut, disk, streams, marks, mutexed
  <2>4. MutexTypes' BY <1>0, <1>4, MutexStays DEF AwaitTimesOut, disk, streams, marks, mutexed
  <2> QED BY <2>1, <2>2, <2>3, <2>4, TypesSplitPrime
<1>5. ASSUME NEW w \in Workspaces, NEW report \in BOOLEAN, StreamEnds(w, report) PROVE TypeOK'
  <2>1. TreeTypes' BY <1>0, <1>5, TreeStays DEF StreamEnds, Push, disk, streams, marks, mutexed
  <2>2. StreamTypes'
    BY <1>0, <1>5, TaskFacts, InboxKeepsTypes DEF StreamEnds, Push, StreamTypes, disk, streams, marks, mutexed
  <2>3. HandlerTypes'
    BY <1>0, <1>5, TaskFacts, InboxKeepsTypes DEF StreamEnds, Push, HandlerTypes, disk, streams, marks, mutexed
  <2>4. MutexTypes' BY <1>0, <1>5, MutexStays DEF StreamEnds, Push, disk, streams, marks, mutexed
  <2> QED BY <2>1, <2>2, <2>3, <2>4, TypesSplitPrime
<1>6. ASSUME NEW w \in Workspaces, StreamDies(w) PROVE TypeOK'
  <2>1. TreeTypes' BY <1>0, <1>6, TreeStays DEF StreamDies, WithoutWaitsOf, disk, streams, marks, mutexed
  <2>2. StreamTypes'
    BY <1>0, <1>6, TaskFacts DEF StreamDies, WithoutWaitsOf, StreamTypes, disk, streams, marks, mutexed
  <2>3. HandlerTypes' BY <1>0, <1>6, HandlersStay DEF StreamDies, WithoutWaitsOf, disk, streams, marks, mutexed
  <2>4. MutexTypes' BY <1>0, <1>6, MutexStays DEF StreamDies, WithoutWaitsOf, disk, streams, marks, mutexed
  <2> QED BY <2>1, <2>2, <2>3, <2>4, TypesSplitPrime
<1>7. ASSUME NEW w \in Workspaces, FlushQueue(w) PROVE TypeOK'
  <2>1. TreeTypes' BY <1>0, <1>7, TreeStays DEF FlushQueue, disk, streams, marks, mutexed
  <2>2. StreamTypes'
    BY <1>0, <1>7, TaskFacts DEF FlushQueue, StreamTypes, disk, streams, marks, mutexed
  <2>3. HandlerTypes' BY <1>0, <1>7, HandlersStay DEF FlushQueue, disk, streams, marks, mutexed
  <2>4. MutexTypes' BY <1>0, <1>7, MutexStays DEF FlushQueue, disk, streams, marks, mutexed
  <2> QED BY <2>1, <2>2, <2>3, <2>4, TypesSplitPrime
<1>8. CASE UserSends
  <2>0. Root \in Workspaces /\ Send(Root) BY <1>8, TaskFacts DEF UserSends
  <2>1. TreeTypes'
    BY <1>0, <1>8, <2>0, SendKeepsTypes DEF UserSends, TreeTypes
  <2>2. StreamTypes'
    <3>1. marked' \in BOOLEAN /\ resumes' \in 0 .. MaxResumes
      <4>1. 0 \in 0 .. MaxResumes BY TaskFacts
      <4> QED BY <1>0, <1>8, <4>1 DEF UserSends, StreamTypes
    <3> QED BY <1>0, <1>8, <2>0, <3>1, SendKeepsTypes DEF UserSends, StreamTypes
  <2>3. HandlerTypes' BY <1>0, <1>8, HandlersStay DEF UserSends
  <2>4. MutexTypes' BY <1>0, <1>8, MutexStays DEF UserSends
  <2> QED BY <2>1, <2>2, <2>3, <2>4, TypesSplitPrime
<1>9. ASSUME NEW t \in Tasks, UserResumes(t) PROVE TypeOK'
  <2>1. TreeTypes'
    BY <1>0, <1>9, TaskFacts, SendKeepsTypes DEF UserResumes, Send, TreeTypes, disk, streams, marks, mutexed
  <2>2. StreamTypes'
    BY <1>0, <1>9, TaskFacts, SendKeepsTypes DEF UserResumes, Send, StreamTypes, disk, streams, marks, mutexed
  <2>3. HandlerTypes' BY <1>0, <1>9, HandlersStay DEF UserResumes, Send, disk, streams, marks, mutexed
  <2>4. MutexTypes' BY <1>0, <1>9, MutexStays DEF UserResumes, Send, disk, streams, marks, mutexed
  <2> QED BY <2>1, <2>2, <2>3, <2>4, TypesSplitPrime
<1>10. ASSUME NEW by \in {Background} \cup Handlers, PassBegins(by) PROVE TypeOK'
  <2>1. TreeTypes' BY <1>0, <1>10, TreeStays DEF PassBegins, disk
  <2>2. StreamTypes' BY <1>0, <1>10, StreamsStay DEF PassBegins
  <2>3. HandlerTypes'
    <3>1. inbox' = inbox BY <1>10 DEF PassBegins
    <3>2. handler' \in Handling
      <4>1. CASE PassOver(by)
        BY <1>0, <4>1, <2>1, PassOverKeepsTypes DEF HandlerTypes, TreeTypes
      <4>2. CASE UNCHANGED handler
        BY <1>0, <4>2 DEF HandlerTypes
      <4>3. CASE by # Background /\ handler' = [handler EXCEPT ![by].at = "passing"]
        BY <1>0, <4>3, StageKeepsTypes DEF HandlerTypes, Stage, Stages
      <4> QED BY <1>10, <4>1, <4>2, <4>3 DEF PassBegins
    <3> QED BY <1>0, <3>1, <3>2 DEF HandlerTypes
  <2>4. MutexTypes'
    <3>1. pass' = pass \/ pass' = [by |-> by, todo |-> {t \in Tasks : status[t] = "queued"}]
      BY <1>10 DEF PassBegins
    <3>2. kick' = (kick /\ by # Background) /\ making' = making /\ cascade' = cascade
      BY <1>10 DEF PassBegins
    <3> QED BY <1>0, <3>1, <3>2 DEF MutexTypes
  <2> QED BY <2>1, <2>2, <2>3, <2>4, TypesSplitPrime
<1>11. CASE PassNext
  <2> DEFINE t == CHOOSE u \in pass.todo : \A v \in pass.todo : u <= v
  <2>0. t \in Tasks
    <3>1. pass.todo \subseteq Tasks /\ pass.todo # {} BY <1>0, <1>11 DEF PassNext, MutexTypes
    <3> QED BY <3>1, OldestIsMember
  <2>1. TreeTypes'
    <3>1. status' = status \/ SetStatus(t, "running") \/ SetStatus(t, "interrupted")
      BY <1>11 DEF PassNext
    <3>2. status' \in [Tasks -> Statuses]
      BY <1>0, <3>1 DEF SetStatus, TreeTypes, Statuses
    <3> QED BY <1>0, <1>11, <3>2 DEF PassNext, TreeTypes
  <2>2. StreamTypes'
    <3>1. streaming' \subseteq streaming \cup {t} /\ waiting' \subseteq waiting
      BY <1>11 DEF PassNext, WithoutWaitsFor
    <3> HIDE DEF t
    <3> QED BY <1>0, <1>11, <2>0, <3>1, TaskFacts DEF PassNext, StreamTypes, marks
  <2>3. HandlerTypes'
    <3>1. inbox' = inbox /\ (PassOver(pass.by) \/ handler' = handler)
      BY <1>11 DEF PassNext
    <3>2. handler' \in Handling
      BY <1>0, <2>1, <3>1, PassOverKeepsTypes DEF HandlerTypes, TreeTypes
    <3> QED BY <1>0, <3>1, <3>2 DEF HandlerTypes
  <2>4. MutexTypes'
    <3>1. pass' = NoPass \/ pass' = [pass EXCEPT !.todo = pass.todo \ {t}]
      BY <1>11 DEF PassNext
    <3>2. pass' \in [by : {Nobody, Background} \cup Handlers, todo : SUBSET Tasks]
      BY <1>0, <3>1 DEF MutexTypes, NoPass
    <3> QED BY <1>0, <1>11, <3>2 DEF PassNext, MutexTypes
  <2> QED BY <2>1, <2>2, <2>3, <2>4, TypesSplitPrime
<1>12. CASE PassBreaks
  <2>1. TreeTypes' BY <1>0, <1>12, TreeStays DEF PassBreaks, disk
  <2>2. StreamTypes' BY <1>0, <1>12, StreamsStay DEF PassBreaks
  <2>3. HandlerTypes'
    BY <1>0, <1>12, <2>1, PassOverKeepsTypes DEF PassBreaks, HandlerTypes, TreeTypes
  <2>4. MutexTypes' BY <1>0, <1>12 DEF PassBreaks, MutexTypes, NoPass
  <2> QED BY <2>1, <2>2, <2>3, <2>4, TypesSplitPrime
<1>13. ASSUME NEW w \in Workspaces, Take(w) PROVE TypeOK'
  <2>0. inbox[w] # <<>> /\ UNCHANGED <<disk, streams, kick, mutexed>> BY <1>13 DEF Take
  <2>1. TreeTypes' BY <1>0, <2>0, TreeStays
  <2>4. MutexTypes' BY <1>0, <2>0, MutexStays
  <2>5. CASE TakeRecheck(w)
    <3>1. StreamTypes' BY <1>0, <2>0, <2>5, StreamsStay DEF TakeRecheck
    <3>2. HandlerTypes'
      BY <1>0, <2>0, <2>5, InboxKeepsTypes, ToCleanKeepsTypes, TaskFacts DEF TakeRecheck, HandlerTypes
    <3> QED BY <2>1, <2>4, <3>1, <3>2, TypesSplitPrime
  <2>6. CASE w = Root /\ TakeRoot
    <3>1. StreamTypes'
      <4>1. backgrounded' \subseteq backgrounded BY <2>6 DEF TakeRoot
      <4>2. resumes' \in 0 .. MaxResumes
        BY <1>0, <2>6, TaskFacts DEF TakeRoot, StreamTypes, Flooded
      <4> QED BY <1>0, <2>0, <2>6, <4>1, <4>2 DEF TakeRoot, StreamTypes, streams
    <3>2. inbox' \in [Workspaces -> Seq({"end", "report", "recheck"})]
      <4> DEFINE rest == [inbox EXCEPT ![Root] = Tail(@)]
                 reported == {t \in Tasks : CompletedReport(t) /\ parent[t] = Root}
      <4>1. rest \in [Workspaces -> Seq({"end", "report", "recheck"})]
        BY <1>0, <2>0, <2>6, InboxKeepsTypes DEF HandlerTypes
      <4>2. inbox' = rest \/
            inbox' = [v \in Workspaces |-> IF v \in reported THEN Append(rest[v], "recheck") ELSE rest[v]]
        BY <2>6 DEF TakeRoot
      <4> HIDE DEF rest, reported
      <4>3. \A v \in Workspaces : Append(rest[v], "recheck") \in Seq({"end", "report", "recheck"})
        BY <4>1
      <4> QED BY <4>1, <4>2, <4>3
    <3>3. handler' \in Handling
      <4>1. handler' = handler \/ Stage(Root, "nudge") BY <2>6 DEF TakeRoot
      <4> QED BY <1>0, <4>1, StageKeepsTypes, TaskFacts DEF HandlerTypes, Stages
    <3> QED BY <2>1, <2>4, <3>1, <3>2, <3>3, TypesSplitPrime DEF HandlerTypes
  <2>7. CASE w \in Tasks /\ TakeTask(w)
    <3>1. waiting' \subseteq waiting /\ backgrounded' \subseteq backgrounded BY <2>7 DEF TakeTask, WithoutWaitsFor
    <3>2. StreamTypes'
      BY <1>0, <2>0, <2>7, <3>1 DEF TakeTask, StreamTypes, streams
    <3>3. inbox' \in [Workspaces -> Seq({"end", "report", "recheck"})]
      BY <1>0, <2>0, <2>7, InboxKeepsTypes DEF TakeTask, HandlerTypes
    <3>4. handler' \in Handling
      <4> DEFINE begun(s) == [Idle EXCEPT !.at = s, !.seen = status[w], !.report = Head(inbox[w]) = "report",
                                 !.target = w, !.active = ActiveBelow(w) # {}]
      <4>1. \A s \in Stages : begun(s) \in HandlerType
        <5> DEFINE report == Head(inbox[w]) = "report"
                   active == ActiveBelow(w) # {}
        <5>1. status[w] \in Statuses /\ w \in Workspaces BY <1>0, <2>7, TaskFacts DEF TreeTypes
        <5>2. report \in BOOLEAN /\ active \in BOOLEAN OBVIOUS
        <5>3. \A s : begun(s) = [[[[[Idle EXCEPT !.at = s] EXCEPT !.seen = status[w]] EXCEPT !.report = report]
                                     EXCEPT !.target = w] EXCEPT !.active = active]
          OBVIOUS
        <5> HIDE DEF begun, report, active
        <5>4. \A s \in Stages : [Idle EXCEPT !.at = s] \in HandlerType BY IdleIsHandler DEF HandlerType
        <5>5. \A r \in HandlerType : [r EXCEPT !.seen = status[w]] \in HandlerType BY <5>1 DEF HandlerType
        <5>6. \A r \in HandlerType : [r EXCEPT !.report = report] \in HandlerType BY <5>2 DEF HandlerType
        <5>7. \A r \in HandlerType : [r EXCEPT !.target = w] \in HandlerType BY <5>1 DEF HandlerType
        <5>8. \A r \in HandlerType : [r EXCEPT !.active = active] \in HandlerType BY <5>2 DEF HandlerType
        <5> QED BY <5>3, <5>4, <5>5, <5>6, <5>7, <5>8
      <4>2. \/ handler' = handler
            \/ \E s \in {"finalize", "clean", "judge"} : handler' = [handler EXCEPT ![w] = begun(s)]
        BY <2>7 DEF TakeTask
      <4> HIDE DEF begun
      <4> QED BY <1>0, <4>1, <4>2, TaskFacts DEF HandlerTypes, Stages
    <3> QED BY <2>1, <2>4, <3>2, <3>3, <3>4, TypesSplitPrime DEF HandlerTypes
  <2> QED BY <1>13, <2>5, <2>6, <2>7 DEF Take
<1>14. CASE Nudge
  <2>1. TreeTypes'
    BY <1>0, <1>14, TaskFacts, SendKeepsTypes, DoneKeepsTypes DEF Nudge, TreeTypes, disk, streams, marks, mutexed
  <2>2. StreamTypes'
    BY <1>0, <1>14, TaskFacts, SendKeepsTypes, DoneKeepsTypes DEF Nudge, StreamTypes, disk, streams, marks, mutexed
  <2>3. HandlerTypes'
    BY <1>0, <1>14, TaskFacts, SendKeepsTypes, DoneKeepsTypes DEF Nudge, HandlerTypes, disk, streams, marks, mutexed
  <2>4. MutexTypes' BY <1>0, <1>14, MutexStays DEF Nudge, disk, streams, marks, mutexed
  <2> QED BY <2>1, <2>2, <2>3, <2>4, TypesSplitPrime
<1>15. ASSUME NEW t \in Tasks, Judge(t) PROVE TypeOK'
  <2>1. TreeTypes'
    <3>1. status' = status \/ SetStatus(t, "running") \/ SetStatus(t, "awaiting_report")
      BY <1>15 DEF Judge
    <3> QED BY <1>0, <1>15, <3>1 DEF Judge, TreeTypes, SetStatus, Statuses
  <2>2. StreamTypes'
    <3>1. reminded' \subseteq reminded \cup {t} BY <1>15 DEF Judge
    <3> QED BY <1>0, <1>15, <3>1 DEF Judge, StreamTypes, streams
  <2>3. HandlerTypes'
    <3>1. Done(t) \/ Stage(t, "finalize") \/ Stage(t, "remind") BY <1>15 DEF Judge
    <3> QED BY <1>0, <1>15, <3>1, DoneKeepsTypes, StageKeepsTypes, TaskFacts DEF Judge, HandlerTypes, Stages
  <2>4. MutexTypes' BY <1>0, <1>15, MutexStays DEF Judge
  <2> QED BY <2>1, <2>2, <2>3, <2>4, TypesSplitPrime
<1>16. ASSUME NEW t \in Tasks, Remind(t) PROVE TypeOK'
  <2>1. TreeTypes'
    BY <1>0, <1>16, TaskFacts, SendKeepsTypes, DoneKeepsTypes DEF Remind, TreeTypes, disk, streams, marks, mutexed
  <2>2. StreamTypes'
    BY <1>0, <1>16, TaskFacts, SendKeepsTypes, DoneKeepsTypes DEF Remind, StreamTypes, disk, streams, marks, mutexed
  <2>3. HandlerTypes'
    BY <1>0, <1>16, TaskFacts, SendKeepsTypes, DoneKeepsTypes DEF Remind, HandlerTypes, disk, streams, marks, mutexed
  <2>4. MutexTypes' BY <1>0, <1>16, MutexStays DEF Remind, disk, streams, marks, mutexed
  <2> QED BY <2>1, <2>2, <2>3, <2>4, TypesSplitPrime
<1>17. ASSUME NEW h \in Handlers, Finalize(h) PROVE TypeOK'
  <2>1. TreeTypes'
    <3>1. status' = status \/ SetStatus(handler[h].target, "reported") BY <1>17 DEF Finalize
    <3> QED BY <1>0, <1>17, <3>1 DEF Finalize, TreeTypes, SetStatus, Statuses
  <2>2. StreamTypes' BY <1>0, <1>17 DEF Finalize, StreamTypes, streams
  <2>3. HandlerTypes'
    <3>1. Finalized(h) \/ Stage(h, "persist") BY <1>17 DEF Finalize
    <3> QED BY <1>0, <1>17, <3>1, FinalizedKeepsTypes, StageKeepsTypes DEF Finalize, HandlerTypes, Stages
  <2>4. MutexTypes' BY <1>0, <1>17, MutexStays DEF Finalize
  <2> QED BY <2>1, <2>2, <2>3, <2>4, TypesSplitPrime
<1>18. ASSUME NEW h \in Handlers, Persist(h) PROVE TypeOK'
  <2>0. handler[h].target \in Tasks BY <1>18, TargetsAreTasks DEF Persist
  <2>1. TreeTypes'
    <3>1. artifacts' \subseteq Tasks
      BY <1>0, <1>18, <2>0 DEF Persist, TreeTypes
    <3>2. patch' \in [Tasks -> {"none", "pending", "ready"}]
      BY <1>0, <1>18 DEF Persist, TreeTypes
    <3> QED BY <1>0, <1>18, <3>1, <3>2 DEF Persist, TreeTypes
  <2>2. StreamTypes' BY <1>0, <1>18 DEF Persist, WithoutWaitsFor, StreamTypes, streams
  <2>3. HandlerTypes'
    <3>1. \A r \in HandlerType, b \in BOOLEAN : [[r EXCEPT !.at = "pass"] EXCEPT !.had = b] \in HandlerType
      <4>1. \A r \in HandlerType : [r EXCEPT !.at = "pass"] \in HandlerType BY DEF HandlerType, Stages
      <4>2. \A r \in HandlerType, b \in BOOLEAN : [r EXCEPT !.had = b] \in HandlerType BY DEF HandlerType
      <4> QED BY <4>1, <4>2
    <3> DEFINE had == AwaitedBy(handler[h].target) # {}
    <3>2. handler' = [handler EXCEPT ![h] = [[handler[h] EXCEPT !.at = "pass"] EXCEPT !.had = had]]
      BY <1>0, <1>18 DEF Persist, HandlerTypes
    <3>4. had \in BOOLEAN OBVIOUS
    <3> HIDE DEF had
    <3>3. handler' \in Handling BY <1>0, <3>1, <3>2, <3>4 DEF HandlerTypes
    <3> QED BY <1>0, <1>18, <3>3 DEF Persist, HandlerTypes
  <2>4. MutexTypes' BY <1>0, <1>18, MutexStays DEF Persist
  <2> QED BY <2>1, <2>2, <2>3, <2>4, TypesSplitPrime
<1>19. ASSUME NEW h \in Handlers, AfterPass(h) PROVE TypeOK'
  <2>1. TreeTypes' BY <1>0, <1>19, TreeStays DEF AfterPass
  <2>2. StreamTypes' BY <1>0, <1>19, TaskFacts DEF AfterPass, StreamTypes, streams
  <2>3. HandlerTypes'
    <3>1. Finalized(h) \/ Stage(h, "send") BY <1>19 DEF AfterPass
    <3> QED BY <1>0, <1>19, <3>1, FinalizedKeepsTypes, StageKeepsTypes DEF AfterPass, HandlerTypes, Stages
  <2>4. MutexTypes' BY <1>0, <1>19, MutexStays DEF AfterPass
  <2> QED BY <2>1, <2>2, <2>3, <2>4, TypesSplitPrime
<1>20. ASSUME NEW h \in Handlers, ResumeParent(h) PROVE TypeOK'
  <2>0. parent[handler[h].target] \in Workspaces BY <1>0, <1>20, TargetsAreTasks DEF ResumeParent, TreeTypes
  <2>1. TreeTypes'
    BY <1>0, <1>20, <2>0, SendKeepsTypes DEF ResumeParent, TreeTypes
  <2>2. StreamTypes' BY <1>0, <1>20, <2>0, SendKeepsTypes DEF ResumeParent, StreamTypes
  <2>3. HandlerTypes' BY <1>0, <1>20, FinalizedKeepsTypes DEF ResumeParent, HandlerTypes
  <2>4. MutexTypes' BY <1>0, <1>20, MutexStays DEF ResumeParent
  <2> QED BY <2>1, <2>2, <2>3, <2>4, TypesSplitPrime
<1>21. ASSUME NEW h \in Handlers, Clean(h) PROVE TypeOK'
  <2>1. TreeTypes' BY <1>0, <1>21, TreeStays DEF Clean
  <2>2. StreamTypes' BY <1>0, <1>21, StreamsStay DEF Clean
  <2>3. HandlerTypes'
    <3>1. Stage(h, "remove") \/ Stage(h, "cleanup") \/ Done(h) BY <1>21 DEF Clean, NothingToClean
    <3> QED BY <1>0, <1>21, <3>1, DoneKeepsTypes, StageKeepsTypes DEF Clean, HandlerTypes, Stages
  <2>4. MutexTypes' BY <1>0, <1>21, MutexStays DEF Clean
  <2> QED BY <2>1, <2>2, <2>3, <2>4, TypesSplitPrime
<1>22. ASSUME NEW h \in Handlers, Remove(h) PROVE TypeOK'
  <2>0. parent[handler[h].target] \in Workspaces BY <1>0, <1>22, TargetsAreTasks DEF Remove, TreeTypes
  <2>1. TreeTypes' BY <1>0, <1>22 DEF Remove, SetStatus, TreeTypes, Statuses
  <2>2. StreamTypes' BY <1>0, <1>22 DEF Remove, WithoutWaitsOf, StreamTypes, marks
  <2>3. HandlerTypes' BY <1>0, <1>22, <2>0, ToCleanKeepsTypes DEF Remove, HandlerTypes
  <2>4. MutexTypes' BY <1>0, <1>22, MutexStays DEF Remove
  <2> QED BY <2>1, <2>2, <2>3, <2>4, TypesSplitPrime
<1>23. ASSUME NEW t \in Tasks, PatchDone(t) PROVE TypeOK'
  <2>1. TreeTypes'
    BY <1>0, <1>23, TaskFacts, InboxKeepsTypes DEF PatchDone, Push, TreeTypes, disk, streams, marks, mutexed
  <2>2. StreamTypes' BY <1>0, <1>23, StreamsStay DEF PatchDone, Push, disk, streams, marks, mutexed
  <2>3. HandlerTypes'
    BY <1>0, <1>23, TaskFacts, InboxKeepsTypes DEF PatchDone, Push, HandlerTypes, disk, streams, marks, mutexed
  <2>4. MutexTypes' BY <1>0, <1>23, MutexStays DEF PatchDone, Push, disk, streams, marks, mutexed
  <2> QED BY <2>1, <2>2, <2>3, <2>4, TypesSplitPrime
<1>24. CASE Interrupt
  <2>1. TreeTypes' BY <1>0, <1>24, TreeStays DEF Interrupt, WithoutWaitsOf, disk, streams, marks, mutexed
  <2>2. StreamTypes'
    BY <1>0, <1>24, TaskFacts DEF Interrupt, WithoutWaitsOf, StreamTypes, disk, streams, marks, mutexed
  <2>3. HandlerTypes' BY <1>0, <1>24, HandlersStay DEF Interrupt, WithoutWaitsOf, disk, streams, marks, mutexed
  <2>4. MutexTypes'
    BY <1>0, <1>24, TaskFacts DEF Interrupt, WithoutWaitsOf, MutexTypes, disk, streams, marks, mutexed
  <2> QED BY <2>1, <2>2, <2>3, <2>4, TypesSplitPrime
<1>25. CASE CascadeBegins
  <2>1. TreeTypes' BY <1>0, <1>25, TreeStays DEF CascadeBegins, NoCascade, Below, disk, streams, marks, mutexed
  <2>2. StreamTypes' BY <1>0, <1>25, StreamsStay DEF CascadeBegins, NoCascade, Below, disk, streams, marks, mutexed
  <2>3. HandlerTypes' BY <1>0, <1>25, HandlersStay DEF CascadeBegins, NoCascade, Below, disk, streams, marks, mutexed
  <2>4. MutexTypes'
    BY <1>0, <1>25, TaskFacts DEF CascadeBegins, NoCascade, Below, MutexTypes, disk, streams, marks, mutexed
  <2> QED BY <2>1, <2>2, <2>3, <2>4, TypesSplitPrime
<1>26. CASE CascadeStops
  <2>1. TreeTypes' BY <1>0, <1>26, TreeStays DEF CascadeStops, WithoutWaitsOf, disk, streams, marks, mutexed
  <2>2. StreamTypes'
    BY <1>0, <1>26, TaskFacts DEF CascadeStops, WithoutWaitsOf, StreamTypes, disk, streams, marks, mutexed
  <2>3. HandlerTypes' BY <1>0, <1>26, HandlersStay DEF CascadeStops, WithoutWaitsOf, disk, streams, marks, mutexed
  <2>4. MutexTypes'
    BY <1>0, <1>26, TaskFacts DEF CascadeStops, WithoutWaitsOf, MutexTypes, disk, streams, marks, mutexed
  <2> QED BY <2>1, <2>2, <2>3, <2>4, TypesSplitPrime
<1>27. CASE CascadeMarks
  <2>1. TreeTypes'
    BY <1>0, <1>27, TaskFacts DEF CascadeMarks, WithoutWaitsFor, NoCascade, SetStatus, Statuses, TreeTypes, disk, streams, marks, mutexed
  <2>2. StreamTypes'
    BY <1>0, <1>27, TaskFacts DEF CascadeMarks, WithoutWaitsFor, NoCascade, SetStatus, Statuses, StreamTypes, disk, streams, marks, mutexed
  <2>3. HandlerTypes' BY <1>0, <1>27, HandlersStay DEF CascadeMarks, NoCascade, SetStatus, Statuses, disk, streams, marks, mutexed
  <2>4. MutexTypes'
    BY <1>0, <1>27, TaskFacts DEF CascadeMarks, WithoutWaitsFor, NoCascade, SetStatus, Statuses, MutexTypes, disk, streams, marks, mutexed
  <2> QED BY <2>1, <2>2, <2>3, <2>4, TypesSplitPrime
<1>28. CASE Crash
  <2>1. TreeTypes' BY <1>0, <1>28, TreeStays DEF Crash
  <2>2. StreamTypes'
    <3>1. 0 \in 0 .. MaxResumes BY TaskFacts
    <3> QED BY <1>28, <3>1 DEF Crash, StreamTypes
  <2>3. HandlerTypes'
    <3>1. [Idle EXCEPT !.at = "pass"] \in HandlerType BY IdleIsHandler DEF HandlerType, Stages
    <3> QED BY <1>28, <3>1, IdleIsHandler DEF Crash, HandlerTypes
  <2>4. MutexTypes' BY <1>28 DEF Crash, MutexTypes, NoPass, NoCascade
  <2> QED BY <2>1, <2>2, <2>3, <2>4, TypesSplitPrime
<1>29. CASE StartupResumes
  <2>0. NextToResume \in Tasks \X Statuses
    BY <1>29, NextToResumeIsMember, TaskFacts DEF StartupResumes, TypeOK, HandlerType
  <2>5. NextToResume[1] \in Workspaces /\ NextToResume[1] \in Tasks BY <2>0, TaskFacts
  <2>1. TreeTypes'
    BY <1>0, <1>29, <2>5, SendKeepsTypes DEF StartupResumes, TreeTypes
  <2>2. StreamTypes' BY <1>0, <1>29, <2>5, SendKeepsTypes DEF StartupResumes, StreamTypes
  <2>3. HandlerTypes'
    <3>1. PICK s \in {"finalize", "restart"} :
             handler' = [handler EXCEPT ![Startup] =
                            [handler[Startup] EXCEPT !.todo = handler[Startup].todo \ {NextToResume},
                                                     !.target = NextToResume[1], !.at = s]]
      BY <1>29 DEF StartupResumes
    <3>2. \A r \in HandlerType, d \in SUBSET (Tasks \X Statuses), w \in Workspaces :
             [[[r EXCEPT !.todo = d] EXCEPT !.target = w] EXCEPT !.at = s] \in HandlerType
      <4>1. \A r \in HandlerType, d \in SUBSET (Tasks \X Statuses) : [r EXCEPT !.todo = d] \in HandlerType
        BY DEF HandlerType
      <4>2. \A r \in HandlerType, w \in Workspaces : [r EXCEPT !.target = w] \in HandlerType
        BY DEF HandlerType
      <4>3. \A r \in HandlerType : [r EXCEPT !.at = s] \in HandlerType BY DEF HandlerType, Stages
      <4> QED BY <4>1, <4>2, <4>3
    <3>3. handler[Startup] \in HandlerType /\ Startup \in Handlers
      BY <1>0, TaskFacts DEF HandlerTypes
    <3>4. handler[Startup].todo \ {NextToResume} \in SUBSET (Tasks \X Statuses)
      BY <3>3 DEF HandlerType
    <3>5. handler' = [handler EXCEPT ![Startup] =
              [[[handler[Startup] EXCEPT !.todo = handler[Startup].todo \ {NextToResume}]
                    EXCEPT !.target = NextToResume[1]] EXCEPT !.at = s]]
      BY <3>1
    <3>6. handler' \in Handling BY <1>0, <2>5, <3>2, <3>3, <3>4, <3>5 DEF HandlerTypes
    <3> QED BY <1>0, <1>29, <3>6 DEF StartupResumes, HandlerTypes
  <2>4. MutexTypes' BY <1>0, <1>29, MutexStays DEF StartupResumes
  <2> QED BY <2>1, <2>2, <2>3, <2>4, TypesSplitPrime
<1>30. CASE StartupPatches
  <2>1. TreeTypes' BY <1>0, <1>30 DEF StartupPatches, TreeTypes
  <2>2. StreamTypes' BY <1>0, <1>30, StreamsStay DEF StartupPatches
  <2>3. HandlerTypes'
    BY <1>0, <1>30, StageKeepsTypes, TaskFacts DEF StartupPatches, HandlerTypes, Stages
  <2>4. MutexTypes' BY <1>0, <1>30, MutexStays DEF StartupPatches
  <2> QED BY <2>1, <2>2, <2>3, <2>4, TypesSplitPrime
<1>31. CASE StartupCleans
  <2>1. TreeTypes' BY <1>0, <1>31, TreeStays DEF StartupCleans
  <2>2. StreamTypes' BY <1>0, <1>31, StreamsStay DEF StartupCleans
  <2>3. HandlerTypes'
    <3> DEFINE h == handler[Startup]
               t == CHOOSE u \in h.clean : \A v \in h.clean : u <= v
    <3>0. h \in HandlerType /\ h.clean \subseteq Tasks /\ Startup \in Handlers
      BY <1>0, TaskFacts DEF HandlerTypes, HandlerType
    <3>1. CASE h.clean = {}
      <4>1. Done(Startup) BY <1>31, <3>1 DEF StartupCleans, Done
      <4> QED BY <1>0, <1>31, <3>0, <4>1, DoneKeepsTypes DEF StartupCleans, HandlerTypes
    <3>2. CASE h.clean # {}
      <4>1. t \in Workspaces BY <3>0, <3>2, OldestIsMember, TaskFacts
      <4>2. handler' = [handler EXCEPT ![Startup] =
                           [h EXCEPT !.at = "clean", !.target = t, !.clean = h.clean \ {t}]]
        BY <1>31, <3>2 DEF StartupCleans
      <4> HIDE DEF t, h
      <4>3. [[[h EXCEPT !.at = "clean"] EXCEPT !.target = t] EXCEPT !.clean = h.clean \ {t}] \in HandlerType
        <5>1. \A r \in HandlerType : [r EXCEPT !.at = "clean"] \in HandlerType BY DEF HandlerType, Stages
        <5>2. \A r \in HandlerType : [r EXCEPT !.target = t] \in HandlerType BY <4>1 DEF HandlerType
        <5>3. \A r \in HandlerType : [r EXCEPT !.clean = h.clean \ {t}] \in HandlerType
          BY <3>0 DEF HandlerType
        <5> QED BY <3>0, <5>1, <5>2, <5>3
      <4>4. handler' = [handler EXCEPT ![Startup] =
                [[[h EXCEPT !.at = "clean"] EXCEPT !.target = t] EXCEPT !.clean = h.clean \ {t}]]
        BY <4>2
      <4>5. handler' \in Handling BY <1>0, <3>0, <4>3, <4>4 DEF HandlerTypes
      <4> QED BY <1>0, <1>31, <4>5 DEF StartupCleans, HandlerTypes
    <3> QED BY <3>1, <3>2
  <2>4. MutexTypes' BY <1>0, <1>31, MutexStays DEF StartupCleans
  <2> QED BY <2>1, <2>2, <2>3, <2>4, TypesSplitPrime
<1>32. CASE UNCHANGED vars
  BY <1>0, <1>32, TreeStays, StreamsStay, HandlersStay, MutexStays, TypesSplitPrime DEF vars
<1> QED
  BY <1>1, <1>2, <1>3, <1>4, <1>5, <1>6, <1>7, <1>8, <1>9, <1>10, <1>11, <1>12, <1>13, <1>14, <1>15, <1>16, <1>17, <1>18, <1>19, <1>20, <1>21, <1>22, <1>23, <1>24, <1>25, <1>26, <1>27, <1>28, <1>29, <1>30, <1>31, <1>32
     DEF Next, System, HandlerStep, Passes, Cascades, StartupStep, StreamStep, Disturbed
-----------------------------------------------------------------------------
(* What a step may do, whichever it is *)

\* The tree only grows, by a task below the workspace whose create() ends; a create() begins for a
\* task at work, and its stream goes on unless it dies or is removed.
TreeMoves ==
    /\ past \subseteq past' /\ artifacts \subseteq artifacts'
    /\ \/ UNCHANGED <<made, parent>>
       \/ /\ made' = made + 1 /\ made' \in Tasks /\ Exists(made)'
          /\ \E w \in making : parent' = [parent EXCEPT ![made'] = w]
    /\ \/ making' = {}
       \/ making' = making /\ UNCHANGED made
       \/ \E w \in Workspaces : CreateBegins(w)
    /\ \A w \in making' \cap Tasks :
           \/ w \in streaming => w \in streaming'
           \/ "die" \in past'
           \/ \E h \in Handlers : handler[h].at = "remove" /\ handler[h].target = w

\* How the status of a task changes.
StatusMoves(t) ==
    \/ status'[t] = status[t]
    \/ t = made + 1 /\ made' = t /\ status'[t] \in {"queued", "running"}
    \/ /\ Exists(t) /\ status'[t] \in {"running", "awaiting_report"}
       /\ Orderly => status[t] # "reported"
    \/ /\ status[t] \notin {"none", "reported"} /\ status'[t] = "interrupted"
       /\ "interrupt" \in past' \/ (status[t] = "queued" /\ "fail" \in past')
    \/ /\ Exists(t) /\ status'[t] = "reported"
       /\ \E h \in Handlers : /\ handler[h].at = "finalize" /\ handler[h].target = t
                              /\ handler'[h].at = "persist"
    \/ /\ status'[t] = "none"
       /\ \E h \in Handlers : /\ handler[h].at = "remove" /\ handler[h].target = t
                              /\ handler'[h].at = "clean" /\ handler'[h].target = parent[t]

\* A send lets an interrupted task run, at most.
LEMMA SendMoves ==
    ASSUME TypeOK, NEW w, Send(w), NEW t \in Tasks
    PROVE  status'[t] = status[t] \/ (status[t] = "interrupted" /\ status'[t] = "running")
  BY DEF TypeOK, Send, SendToIdle, SendToBusy, SendRefused, SetStatus

\* ... and ends no stream.
LEMMA SendStreams ==
    ASSUME NEW w, Send(w)
    PROVE  streaming \subseteq streaming'
  BY DEF Send, SendToIdle, SendToBusy, SendRefused, streams

\* Every step moves so.
LEMMA TreeStep ==
    ASSUME TypeOK, ControlOK, [Next]_vars
    PROVE  TreeMoves
<1>0. \A w \in making : made < MaxTasks BY DEF ControlOK, Numbered
<1>1. ASSUME NEW w \in Workspaces, CreateBegins(w) PROVE TreeMoves
  BY <1>1 DEF CreateBegins, disk, streams, Happens, Undisturbed, user, CanCall, TreeMoves
<1>2. ASSUME NEW w \in Workspaces, CreateEnds(w) PROVE TreeMoves
  <2>1. made + 1 \in Tasks BY <1>0, <1>2, TaskFacts DEF CreateEnds, TypeOK, Tasks
  <2>2. past \subseteq past' /\ artifacts' = artifacts /\ making' = {}
    BY <1>2 DEF CreateEnds, Happens, Undisturbed, user
  <2>3. CASE UNCHANGED <<made, parent, status, kick, streaming>>
    BY <2>2, <2>3 DEF TreeMoves
  <2>4. CASE made' = made + 1 /\ parent' = [parent EXCEPT ![made'] = w]
    <3>1. Exists(made)'
      BY <1>2, <2>1, <2>4 DEF CreateEnds, SetStatus, Exists, TypeOK
    <3> QED BY <1>2, <2>1, <2>2, <2>4, <3>1 DEF TreeMoves, CreateEnds
  <2> QED BY <1>2, <2>3, <2>4 DEF CreateEnds
<1>3. ASSUME NEW w \in Workspaces, Await(w) PROVE TreeMoves
  BY <1>3 DEF Await, disk, streams, mutexed, user, TreeMoves
<1>4. ASSUME NEW w \in Workspaces, AwaitTimesOut(w) PROVE TreeMoves
  BY <1>4 DEF AwaitTimesOut, disk, streams, mutexed, Happens, Undisturbed, TreeMoves
<1>5. ASSUME NEW w \in Workspaces, NEW report \in BOOLEAN, StreamEnds(w, report) PROVE TreeMoves
  BY <1>5 DEF StreamEnds, CanCall, disk, mutexed, Happens, Undisturbed, user, TreeMoves
<1>6. ASSUME NEW w \in Workspaces, StreamDies(w) PROVE TreeMoves
  BY <1>6 DEF StreamDies, disk, mutexed, Happens, Undisturbed, TreeMoves
<1>7. ASSUME NEW w \in Workspaces, FlushQueue(w) PROVE TreeMoves
  BY <1>7 DEF FlushQueue, disk, mutexed, user, TreeMoves
<1>8. CASE UserSends
  BY <1>8, SendStreams DEF UserSends, mutexed, Happens, Undisturbed, TreeMoves
<1>9. ASSUME NEW t \in Tasks, UserResumes(t) PROVE TreeMoves
  BY <1>9 DEF UserResumes, SendToIdle, mutexed, Happens, Undisturbed, TreeMoves
<1>10. ASSUME NEW by \in {Background} \cup Handlers, PassBegins(by) PROVE TreeMoves
  BY <1>10 DEF PassBegins, streams, user, TreeMoves
<1>11. CASE PassNext
  BY <1>11 DEF PassNext, user, Happens, Undisturbed, TreeMoves
<1>12. CASE PassBreaks
  BY <1>12 DEF PassBreaks, streams, user, TreeMoves
<1>13. ASSUME NEW w \in Workspaces, Take(w) PROVE TreeMoves
  BY <1>13 DEF Take, disk, streams, mutexed, user, TreeMoves
<1>14. CASE Nudge
  BY <1>14, SendStreams DEF Nudge, mutexed, user, TreeMoves
<1>15. ASSUME NEW t \in Tasks, Judge(t) PROVE TreeMoves
  BY <1>15 DEF Judge, streams, mutexed, user, TreeMoves
<1>16. ASSUME NEW t \in Tasks, Remind(t) PROVE TreeMoves
  BY <1>16, SendStreams DEF Remind, mutexed, user, TreeMoves
<1>17. ASSUME NEW h \in Handlers, Finalize(h) PROVE TreeMoves
  BY <1>17 DEF Finalize, streams, mutexed, user, TreeMoves
<1>18. ASSUME NEW h \in Handlers, Persist(h) PROVE TreeMoves
  BY <1>18 DEF Persist, streams, mutexed, user, Happens, Undisturbed, TreeMoves
<1>19. ASSUME NEW h \in Handlers, AfterPass(h) PROVE TreeMoves
  BY <1>19 DEF AfterPass, disk, streams, mutexed, user, TreeMoves
<1>20. ASSUME NEW h \in Handlers, ResumeParent(h) PROVE TreeMoves
  BY <1>20, SendStreams DEF ResumeParent, mutexed, TreeMoves
<1>21. ASSUME NEW h \in Handlers, Clean(h) PROVE TreeMoves
  BY <1>21 DEF Clean, disk, streams, mutexed, user, TreeMoves
<1>22. ASSUME NEW h \in Handlers, Remove(h) PROVE TreeMoves
  BY <1>22 DEF Remove, mutexed, user, TreeMoves
<1>23. ASSUME NEW t \in Tasks, PatchDone(t) PROVE TreeMoves
  BY <1>23 DEF PatchDone, streams, mutexed, user, TreeMoves
<1>24. CASE Interrupt
  BY <1>24, TaskFacts DEF Interrupt, disk, Happens, Undisturbed, TreeMoves
<1>25. CASE CascadeBegins
  BY <1>25 DEF CascadeBegins, disk, streams, user, TreeMoves
<1>26. CASE CascadeStops
  BY <1>26 DEF CascadeStops, disk, user, ControlOK, MutexOwners, TreeMoves
<1>27. CASE CascadeMarks
  BY <1>27 DEF CascadeMarks, streams, user, TreeMoves
<1>28. CASE Crash
  BY <1>28 DEF Crash, disk, Happens, Undisturbed, TreeMoves
<1>29. CASE StartupResumes
  BY <1>29, SendStreams DEF StartupResumes, mutexed, user, TreeMoves
<1>30. CASE StartupPatches
  BY <1>30 DEF StartupPatches, streams, mutexed, user, Happens, Undisturbed, TreeMoves
<1>31. CASE StartupCleans
  BY <1>31 DEF StartupCleans, disk, streams, mutexed, user, TreeMoves
<1>32. CASE UNCHANGED vars
  BY <1>32 DEF vars, disk, streams, mutexed, user, TreeMoves
<1> QED
  BY <1>1, <1>2, <1>3, <1>4, <1>5, <1>6, <1>7, <1>8, <1>9, <1>10, <1>11, <1>12, <1>13, <1>14, <1>15, <1>16, <1>17, <1>18, <1>19, <1>20, <1>21, <1>22, <1>23, <1>24, <1>25, <1>26, <1>27, <1>28, <1>29, <1>30, <1>31, <1>32
     DEF Next, System, HandlerStep, Passes, Cascades, StartupStep, StreamStep, Disturbed

\* The status of every task changes in one of these ways.
LEMMA StatusStep ==
    ASSUME TypeOK, ControlOK, [Next]_vars, NEW t \in Tasks
    PROVE  StatusMoves(t)
<1>0. TreeMoves BY TreeStep
<1>1. ASSUME status' = status PROVE StatusMoves(t) BY <1>1 DEF StatusMoves
<1>2. ASSUME NEW w \in Workspaces, CreateBegins(w) \/ FlushQueue(w) \/ StreamDies(w) \/ Take(w)
      PROVE  status' = status
  BY <1>2 DEF CreateBegins, FlushQueue, StreamDies, Take, disk
<1>3. ASSUME NEW w \in Workspaces, StreamStep(w) PROVE status' = status
  BY <1>3 DEF StreamStep, Await, StreamEnds, disk
<1>4. ASSUME NEW u, (u \in Workspaces /\ AwaitTimesOut(u)) \/ (u \in Tasks /\ PatchDone(u)) PROVE status' = status
  BY <1>4 DEF AwaitTimesOut, PatchDone, disk
<1>5. ASSUME NEW h \in Handlers, Persist(h) \/ AfterPass(h) \/ Clean(h) PROVE status' = status
  BY <1>5 DEF Persist, AfterPass, Clean, disk
<1>6. CASE Interrupt \/ Crash \/ CascadeBegins \/ CascadeStops \/ PassBreaks
  <2>1. status' = status BY <1>6 DEF Interrupt, Crash, CascadeBegins, CascadeStops, PassBreaks, disk
  <2> QED BY <1>1, <2>1
<1>7. ASSUME NEW by \in {Background} \cup Handlers, PassBegins(by) PROVE status' = status
  BY <1>7 DEF PassBegins
<1>8. CASE StartupPatches \/ StartupCleans \/ UNCHANGED vars
  <2>1. status' = status BY <1>8 DEF StartupPatches, StartupCleans, vars, disk
  <2> QED BY <1>1, <2>1
<1>9. ASSUME NEW w \in Workspaces, CreateEnds(w) PROVE StatusMoves(t)
  <2>1. made + 1 \in Nat BY DEF TypeOK
  <2>2. CASE status' = status BY <1>1, <2>2
  <2>3. CASE made' = made + 1 /\ (SetStatus(made', "queued") \/ SetStatus(made', "running"))
    BY <2>1, <2>3 DEF SetStatus, StatusMoves, TypeOK
  <2> QED BY <1>9, <2>2, <2>3 DEF CreateEnds
<1>10. ASSUME NEW w \in Workspaces, Send(w) PROVE StatusMoves(t)
  BY <1>10, SendMoves DEF StatusMoves, Exists
<1>11. CASE UserSends \/ Nudge \/ StartupResumes
  <2>1. CASE UserSends BY <2>1, <1>10, TaskFacts DEF UserSends
  <2>2. CASE Nudge BY <2>2, <1>10, TaskFacts DEF Nudge
  <2>3. CASE StartupResumes
    <3>1. NextToResume \in Tasks \X Statuses
      BY <2>3, NextToResumeIsMember, TaskFacts DEF StartupResumes, TypeOK, HandlerType
    <3>2. NextToResume[1] \in Workspaces BY <3>1, TaskFacts
    <3> QED BY <2>3, <3>2, <1>10 DEF StartupResumes
  <2> QED BY <1>11, <2>1, <2>2, <2>3
<1>12. ASSUME NEW u \in Tasks, UserResumes(u) \/ Remind(u) PROVE StatusMoves(t)
  BY <1>12, <1>10, TaskFacts DEF UserResumes, Remind, Send
<1>13. ASSUME NEW h \in Handlers, ResumeParent(h) PROVE StatusMoves(t)
  <2>1. parent[handler[h].target] \in Workspaces BY <1>13, TargetsAreTasks DEF ResumeParent, TypeOK
  <2> QED BY <1>10, <1>13, <2>1 DEF ResumeParent
<1>14. CASE PassNext
  <2> DEFINE u == CHOOSE v \in pass.todo : \A x \in pass.todo : v <= x
  <2>1. CASE status' = status BY <1>1, <2>1
  <2>2. CASE status[u] = "queued" /\ SetStatus(u, "running")
    BY <2>2 DEF SetStatus, StatusMoves, Exists, TypeOK
  <2>3. CASE status[u] = "queued" /\ Happens("fail") /\ SetStatus(u, "interrupted")
    BY <2>3 DEF SetStatus, Happens, StatusMoves, TypeOK
  <2> QED BY <1>14, <2>1, <2>2, <2>3 DEF PassNext
<1>15. ASSUME NEW u \in Tasks, Judge(u) PROVE StatusMoves(t)
  <2>1. CASE status' = status BY <1>1, <2>1
  <2>2. CASE Exists(u) /\ (SetStatus(u, "running") \/ SetStatus(u, "awaiting_report"))
    <3>1. Orderly => status[u] # "reported"
      BY <1>15, TaskFacts DEF Judge, ControlOK, HandlersOK, JudgesUnreported
    <3> QED BY <2>2, <3>1 DEF SetStatus, StatusMoves, TypeOK
  <2> QED BY <1>15, <2>1, <2>2 DEF Judge
<1>16. ASSUME NEW h \in Handlers, Finalize(h) PROVE StatusMoves(t)
  <2>1. CASE status' = status BY <1>1, <2>1
  <2>2. CASE Exists(handler[h].target) /\ SetStatus(handler[h].target, "reported") /\ Stage(h, "persist")
    <3>1. handler'[h].at = "persist" BY <2>2 DEF Stage, TypeOK, HandlerType
    <3> QED BY <1>16, <2>2, <3>1 DEF Finalize, SetStatus, StatusMoves, TypeOK
  <2> QED BY <1>16, <2>1, <2>2 DEF Finalize
<1>17. ASSUME NEW h \in Handlers, Remove(h) PROVE StatusMoves(t)
  <2> DEFINE u == handler[h].target
  <2>1. handler'[h].at = "clean" /\ handler'[h].target = parent[u]
    BY <1>17 DEF Remove, ToClean, TypeOK, HandlerType
  <2> QED BY <1>17, <2>1 DEF Remove, SetStatus, StatusMoves, TypeOK
<1>18. CASE CascadeMarks
  <2>1. CASE status' = status BY <1>1, <2>1
  <2>2. CASE status[Deepest] # "reported" /\ Exists(Deepest) /\ SetStatus(Deepest, "interrupted")
    <3>1. "interrupt" \in past'
      BY <1>0, <1>18 DEF CascadeMarks, TreeMoves, ControlOK, InterruptsTraced
    <3> QED BY <2>2, <3>1 DEF SetStatus, StatusMoves, Exists, TypeOK
  <2> QED BY <1>18, <2>1, <2>2 DEF CascadeMarks, CompletedReport
<1> QED
  BY <1>1, <1>2, <1>3, <1>4, <1>5, <1>6, <1>7, <1>8, <1>9, <1>11, <1>12, <1>13, <1>14, <1>15, <1>16, <1>17, <1>18
     DEF Next, System, HandlerStep, Passes, Cascades, StartupStep, Disturbed

\* The stages of a handler that goes on with the same task.
GoesOn ==
    {<<"judge", "finalize">>, <<"judge", "remind">>, <<"finalize", "persist">>, <<"persist", "pass">>,
     <<"pass", "passing">>, <<"pass", "resume">>, <<"passing", "resume">>, <<"resume", "send">>}

\* How the record a of a handler h becomes b: it stays or ends; an event begins; it goes on; it cleans
\* up, from its own workspace or a finalized task upwards; initialize() goes on, or begins by a crash.
RecordMoves(h, a, b) ==
    \/ b = a
    \/ b.at = "idle" \/ (b.at = "nudge" /\ h = Root)
    \/ /\ h \in Tasks /\ b.target = h /\ status' = status
       /\ b.at = "finalize" \/ (b.at = "judge" /\ status[h] # "reported")
    \/ /\ <<a.at, b.at>> \in GoesOn /\ b.target = a.target
       /\ a.at = "judge" => h \in Tasks
       /\ b.at = "resume" /\ h = Startup => b.target \in Tasks
    \/ /\ b.at = "clean" /\ h \in Workspaces
       /\ \/ b.target = h
          \/ b.target = a.target /\ a.at \in {"finalize", "resume", "send"}
          \/ a.at = "remove" /\ b.target = parent[a.target]
    \/ b.at = "remove" /\ a.at = "clean" /\ b.target = a.target /\ Cleanable(b.target)
       /\ UNCHANGED <<status, parent, made, making>>
    \/ h = Startup /\ a.at # "idle" /\ b.at \in {"restart", "cleanup", "clean"}
    \/ h = Startup /\ b.at = "pass" /\ "crash" \in past'
    \/ /\ h = Startup /\ a.at = "restart" /\ b.at = "finalize" /\ Refuses(b.target) /\ status' = status
       /\ b.target \in Tasks /\ \E e \in a.todo : e[1] = b.target

\* What is still to be resumed was started; a report is stored when the handler goes on; and a pass
\* is waited for until it is over.
HandlerMoves(h) ==
    LET a == handler[h]
        b == handler'[h]
    IN  /\ RecordMoves(h, a, b)
        /\ \A e \in b.todo :
               e \in a.todo \/ (e[1] \in Tasks /\ status'[e[1]] \in {"running", "awaiting_report"})
        /\ a.at = "persist" /\ b.at # "persist" =>
               "crash" \in past' \/ ~Exists(a.target) \/ a.target \in artifacts'
        /\ a.at = "passing" /\ b.at # "passing" => pass'.by # h

\* A handler that stays as it is moves so ...
LEMMA StayMoves ==
    ASSUME NEW h, handler'[h] = handler[h]
    PROVE  HandlerMoves(h)
  BY DEF HandlerMoves, RecordMoves

\* ... and so do the handlers beside the one that goes to another stage, ...
LEMMA StageMoves ==
    ASSUME TypeOK, NEW g \in Handlers, NEW s, Stage(g, s)
    PROVE  /\ \A h \in Handlers : h # g => HandlerMoves(h)
           /\ handler'[g].at = s /\ handler'[g].target = handler[g].target
           /\ handler'[g].todo = handler[g].todo
<1>1. \A h \in Handlers : h # g => handler'[h] = handler[h] BY DEF Stage, TypeOK
<1>2. \A h \in Handlers : h # g => HandlerMoves(h) BY <1>1, StayMoves
<1> QED BY <1>2 DEF Stage, TypeOK, HandlerType

\* ... ends ...
LEMMA DoneMoves ==
    ASSUME TypeOK, NEW g \in Handlers, handler[g].at \notin {"persist", "passing"}, Done(g)
    PROVE  \A h \in Handlers : HandlerMoves(h)
<1>1. \A h \in Handlers : h # g => handler'[h] = handler[h] BY DEF Done, TypeOK
<1>2. \A h \in Handlers : h # g => HandlerMoves(h) BY <1>1, StayMoves
<1>3. HandlerMoves(g) BY DEF Done, Idle, TypeOK, HandlerMoves, RecordMoves
<1> QED BY <1>2, <1>3

\* ... or begins to clean up.
LEMMA ToCleanMoves ==
    ASSUME TypeOK, NEW g \in Workspaces, NEW t, handler[g].at \notin {"persist", "passing"}, ToClean(g, t),
           t = g \/ (handler[g].at = "remove" /\ t = parent[handler[g].target])
    PROVE  \A h \in Handlers : HandlerMoves(h)
<1>1. \A h \in Handlers : h # g => handler'[h] = handler[h] BY DEF ToClean, TypeOK
<1>2. \A h \in Handlers : h # g => HandlerMoves(h) BY <1>1, StayMoves
<1>0. g \in Handlers BY TaskFacts
<1>3. handler'[g].at = "clean" /\ handler'[g].target = t /\ handler'[g].todo = handler[g].todo
  BY <1>0 DEF ToClean, TypeOK, HandlerType
<1>4. HandlerMoves(g) BY <1>3 DEF HandlerMoves, RecordMoves
<1> QED BY <1>2, <1>4

\* A handler that is through with a report.
LEMMA FinalizedMoves ==
    ASSUME TypeOK, NEW g \in Handlers, handler[g].at \in {"finalize", "resume", "send"}, Finalized(g)
    PROVE  \A h \in Handlers : HandlerMoves(h)
<1>1. CASE Done(g) BY <1>1, DoneMoves
<1>2. CASE g = Startup /\ Stage(g, "restart")
  BY <1>2, StageMoves DEF HandlerMoves, RecordMoves
<1>3. CASE g # Startup /\ Stage(g, "clean")
  BY <1>3, StageMoves, TaskFacts DEF HandlerMoves, RecordMoves
<1> QED BY <1>1, <1>2, <1>3 DEF Finalized

\* A handler whose pass is over.
LEMMA PassOverMoves ==
    ASSUME TypeOK, NEW by \in {Nobody, Background} \cup Handlers, PassOver(by),
           by \in Handlers => handler[by].at \in {"pass", "passing"},
           pass'.by \notin Handlers \/ (by \in Handlers => handler[by].at = "pass")
    PROVE  \A h \in Handlers : HandlerMoves(h)
<1>0. Startup \in Handlers /\ handler \in [Handlers -> HandlerType] BY TaskFacts DEF TypeOK
<1>1. CASE by \in Workspaces \/ (by = Startup /\ handler[by].target # Root)
  <2>1. by \in Handlers /\ Stage(by, "resume") BY <1>1, TaskFacts DEF PassOver, Stage
  <2>2. by = Startup => handler[by].target \in Tasks
    BY <1>0, <1>1, TaskFacts DEF HandlerType
  <2>3. HandlerMoves(by)
    BY <2>1, <2>2, StageMoves DEF HandlerMoves, RecordMoves, GoesOn
  <2> QED BY <2>1, <2>3, StageMoves
<1>2. CASE by \notin Workspaces /\ by = Startup /\ handler[by].target = Root
  <2> DEFINE todo == {<<t, status'[t]>> : t \in {u \in Tasks :
                         /\ status'[u] \in {"running", "awaiting_report"}
                         /\ ~\E d \in Tasks : status'[d] \in Active /\ u \in Above[d]}}
             clean == {t \in Tasks : status'[t] = "reported"}
  <2>1. handler' = [handler EXCEPT ![by].at = "restart", ![by].todo = todo, ![by].clean = clean]
    BY <1>2 DEF PassOver
  <2>2. \A e \in todo : e[1] \in Tasks /\ status'[e[1]] \in {"running", "awaiting_report"}
    OBVIOUS
  <2> HIDE DEF todo, clean
  <2>3. handler'[by].at = "restart" /\ handler'[by].todo = todo
    BY <1>0, <1>2, <2>1 DEF HandlerType
  <2>4. HandlerMoves(by) BY <1>0, <1>2, <2>2, <2>3 DEF HandlerMoves, RecordMoves
  <2>5. \A h \in Handlers : h # by => handler'[h] = handler[h] BY <1>0, <2>1
  <2> QED BY <2>4, <2>5, StayMoves
<1>3. CASE by \notin Workspaces /\ by # Startup
  BY <1>3, StayMoves DEF PassOver
<1> QED BY <1>1, <1>2, <1>3

\* Every handler moves so in every step.
LEMMA HandlersMove ==
    ASSUME TypeOK, ControlOK, [Next]_vars
    PROVE  \A h \in Handlers : HandlerMoves(h)
<1> DEFINE Moves == \A h \in Handlers : HandlerMoves(h)
<1>0. /\ Startup \in Handlers /\ Workspaces \subseteq Handlers /\ Startup \notin Workspaces
      /\ handler \in [Handlers -> HandlerType]
  BY TaskFacts DEF TypeOK
<1>1. ASSUME handler' = handler PROVE Moves BY <1>1, StayMoves
<1>2. ASSUME NEW w \in Workspaces, CreateBegins(w) \/ CreateEnds(w) \/ FlushQueue(w) \/ StreamDies(w)
      PROVE  handler' = handler
  BY <1>2 DEF CreateBegins, CreateEnds, FlushQueue, StreamDies
<1>3. ASSUME NEW w \in Workspaces, StreamStep(w) PROVE handler' = handler
  BY <1>3 DEF StreamStep, Await, StreamEnds
<1>4. ASSUME NEW u, (u \in Workspaces /\ AwaitTimesOut(u)) \/ (u \in Tasks /\ (PatchDone(u) \/ UserResumes(u)))
      PROVE  handler' = handler
  BY <1>4 DEF AwaitTimesOut, PatchDone, UserResumes
<1>5. CASE UserSends \/ Interrupt \/ CascadeBegins \/ CascadeStops \/ CascadeMarks \/ UNCHANGED vars
  <2>1. handler' = handler
    BY <1>5 DEF UserSends, Interrupt, CascadeBegins, CascadeStops, CascadeMarks, vars
  <2> QED BY <1>1, <2>1
<1>6. CASE Crash
  <2>1. "crash" \in past' /\ handler' = [h \in Handlers |-> IF h = Startup THEN [Idle EXCEPT !.at = "pass"] ELSE Idle]
    BY <1>6 DEF Crash, Happens
  <2>2. pass'.by = Nobody BY <1>6 DEF Crash, NoPass
  <2>3. ASSUME NEW h \in Handlers, h # Startup PROVE HandlerMoves(h)
    <3>1. handler'[h] = Idle BY <2>1, <2>3
    <3> QED BY <2>1, <2>2, <3>1, TaskFacts DEF Idle, HandlerMoves, RecordMoves
  <2>4. HandlerMoves(Startup)
    <3>1. handler'[Startup].at = "pass" /\ handler'[Startup].todo = {} BY <1>0, <2>1 DEF Idle
    <3> QED BY <2>1, <2>2, <3>1, TaskFacts DEF HandlerMoves, RecordMoves
  <2> QED BY <2>3, <2>4
<1>7. ASSUME NEW by \in {Background} \cup Handlers, PassBegins(by) PROVE Moves
  <2>1. CASE PassOver(by) /\ pass' = pass
    <3>1. pass'.by \notin Handlers BY <1>7, <2>1, TaskFacts DEF PassBegins, MutexFree, NoPass
    <3>2. by \in Handlers => handler[by].at = "pass" BY <1>7, TaskFacts DEF PassBegins, Due
    <3> QED BY <2>1, <3>1, <3>2, PassOverMoves
  <2>2. CASE handler' = handler BY <1>1, <2>2
  <2>3. CASE by # Background /\ handler' = [handler EXCEPT ![by].at = "passing"]
    <3>1. Stage(by, "passing") /\ by \in Handlers /\ handler[by].at = "pass"
      BY <1>7, <2>3 DEF PassBegins, Stage, Due
    <3>2. HandlerMoves(by) BY <3>1, StageMoves DEF HandlerMoves, RecordMoves, GoesOn
    <3> QED BY <3>1, <3>2, StageMoves
  <2> QED BY <1>7, <2>1, <2>2, <2>3 DEF PassBegins
<1>8. CASE PassNext \/ PassBreaks
  <2>1. CASE handler' = handler BY <1>1, <2>1
  <2>2. CASE PassOver(pass.by) /\ pass' = NoPass
    <3>1. pass.by \in {Nobody, Background} \cup Handlers BY DEF TypeOK
    <3>2. pass.by \in Handlers => handler[pass.by].at = "passing" BY DEF ControlOK, MutexOwners
    <3>3. pass'.by \notin Handlers BY <2>2, TaskFacts DEF NoPass
    <3> QED BY <2>2, <3>1, <3>2, <3>3, PassOverMoves
  <2> QED BY <1>8, <2>1, <2>2 DEF PassNext, PassBreaks
<1>9. ASSUME NEW w \in Workspaces, Take(w) PROVE Moves
  <2>0. handler[w].at = "idle" /\ w \in Handlers /\ status' = status BY <1>9, TaskFacts DEF Take, disk
  <2>1. CASE TakeRecheck(w) BY <2>0, <2>1, ToCleanMoves DEF TakeRecheck
  <2>2. CASE w = Root /\ TakeRoot
    <3>1. CASE handler' = handler BY <1>1, <3>1
    <3>2. CASE Stage(Root, "nudge")
      BY <2>0, <2>2, <3>2, StageMoves DEF HandlerMoves, RecordMoves
    <3> QED BY <2>2, <3>1, <3>2 DEF TakeRoot
  <2>3. CASE w \in Tasks /\ TakeTask(w)
    <3> DEFINE begun(s) == [Idle EXCEPT !.at = s, !.seen = status[w], !.report = Head(inbox[w]) = "report",
                               !.target = w, !.active = ActiveBelow(w) # {}]
    <3>1. CASE handler' = handler BY <1>1, <3>1
    <3>2. ASSUME NEW s \in {"finalize", "clean", "judge"}, handler' = [handler EXCEPT ![w] = begun(s)],
                 s = "judge" => status[w] # "reported"
          PROVE  Moves
      <4>1. begun(s).at = s /\ begun(s).target = w /\ begun(s).todo = {} BY DEF Idle
      <4> HIDE DEF begun
      <4>2. handler'[w].at = s /\ handler'[w].target = w /\ handler'[w].todo = {}
        BY <1>0, <2>0, <3>2, <4>1
      <4>3. HandlerMoves(w) BY <2>0, <2>3, <3>2, <4>2 DEF HandlerMoves, RecordMoves
      <4>4. \A h \in Handlers : h # w => handler'[h] = handler[h] BY <1>0, <3>2
      <4> QED BY <4>3, <4>4, StayMoves
    <3>3. \/ handler' = handler
          \/ \E s \in {"finalize", "clean", "judge"} :
                 handler' = [handler EXCEPT ![w] = begun(s)] /\ (s = "judge" => status[w] # "reported")
      BY <2>3 DEF TakeTask
    <3> HIDE DEF begun
    <3> QED BY <3>1, <3>2, <3>3
  <2> QED BY <1>9, <2>1, <2>2, <2>3 DEF Take
<1>10. CASE Nudge BY <1>0, <1>10, DoneMoves, TaskFacts DEF Nudge
<1>11. ASSUME NEW t \in Tasks, Remind(t) PROVE Moves BY <1>0, <1>11, DoneMoves, TaskFacts DEF Remind
<1>12. ASSUME NEW t \in Tasks, Judge(t) PROVE Moves
  <2>0. handler[t].at = "judge" /\ t \in Handlers BY <1>12, TaskFacts DEF Judge
  <2>1. CASE Done(t) BY <2>0, <2>1, DoneMoves
  <2>2. ASSUME NEW s \in {"finalize", "remind"}, Stage(t, s) PROVE Moves
    <3>1. HandlerMoves(t) BY <2>0, <2>2, StageMoves, TaskFacts DEF HandlerMoves, RecordMoves, GoesOn
    <3> QED BY <2>0, <2>2, <3>1, StageMoves
  <2> QED BY <1>12, <2>1, <2>2 DEF Judge
<1>13. ASSUME NEW h \in Handlers, Finalize(h) PROVE Moves
  <2>1. CASE Finalized(h) BY <1>13, <2>1, FinalizedMoves DEF Finalize
  <2>2. CASE Stage(h, "persist")
    <3>1. HandlerMoves(h) BY <1>13, <2>2, StageMoves DEF Finalize, HandlerMoves, RecordMoves, GoesOn
    <3> QED BY <2>2, <3>1, StageMoves
  <2> QED BY <1>13, <2>1, <2>2 DEF Finalize
<1>14. ASSUME NEW h \in Handlers, Persist(h) PROVE Moves
  <2> DEFINE had == AwaitedBy(handler[h].target) # {}
  <2>1. handler' = [handler EXCEPT ![h].at = "pass", ![h].had = had] BY <1>14 DEF Persist
  <2> HIDE DEF had
  <2>2. /\ handler'[h].at = "pass" /\ handler'[h].target = handler[h].target
        /\ handler'[h].todo = handler[h].todo
    BY <1>0, <2>1 DEF HandlerType
  <2>3. \A g \in Handlers : g # h => handler'[g] = handler[g] BY <1>0, <2>1
  <2>4. ~Exists(handler[h].target) \/ handler[h].target \in artifacts' BY <1>14 DEF Persist
  <2>5. HandlerMoves(h) BY <1>14, <2>2, <2>4 DEF Persist, HandlerMoves, RecordMoves, GoesOn
  <2> QED BY <2>3, <2>5, StayMoves
<1>15. ASSUME NEW h \in Handlers, AfterPass(h) PROVE Moves
  <2>1. CASE Finalized(h) BY <1>15, <2>1, FinalizedMoves DEF AfterPass
  <2>2. CASE Stage(h, "send")
    <3>1. HandlerMoves(h) BY <1>15, <2>2, StageMoves DEF AfterPass, HandlerMoves, RecordMoves, GoesOn
    <3> QED BY <2>2, <3>1, StageMoves
  <2> QED BY <1>15, <2>1, <2>2 DEF AfterPass
<1>16. ASSUME NEW h \in Handlers, ResumeParent(h) PROVE Moves
  BY <1>16, FinalizedMoves DEF ResumeParent
<1>17. ASSUME NEW h \in Handlers, Clean(h) PROVE Moves
  <2>1. CASE Done(h) BY <1>17, <2>1, DoneMoves DEF Clean
  <2>2. CASE h = Startup /\ Stage(h, "cleanup")
    <3>1. HandlerMoves(h) BY <1>17, <2>2, StageMoves DEF Clean, HandlerMoves, RecordMoves
    <3> QED BY <2>2, <3>1, StageMoves
  <2>3. CASE Cleanable(handler[h].target) /\ Stage(h, "remove")
    <3>1. UNCHANGED <<status, parent, made, making>> BY <1>17 DEF Clean, disk, mutexed
    <3>2. HandlerMoves(h) BY <1>17, <2>3, <3>1, StageMoves DEF Clean, HandlerMoves, RecordMoves
    <3> QED BY <2>3, <3>2, StageMoves
  <2> QED BY <1>17, <2>1, <2>2, <2>3 DEF Clean, NothingToClean
<1>18. ASSUME NEW h \in Handlers, Remove(h) PROVE Moves
  <2>1. CASE h = Startup
    <3>1. handler[h].at = "remove" /\ handler' = [handler EXCEPT ![h].at = "clean", ![h].target = parent[handler[h].target]]
      BY <1>18 DEF Remove, ToClean
    <3>2. handler'[h].at = "clean" /\ handler'[h].todo = handler[h].todo
      BY <1>0, <2>1, <3>1 DEF HandlerType
    <3>3. HandlerMoves(h) BY <2>1, <3>1, <3>2 DEF HandlerMoves, RecordMoves
    <3>4. \A g \in Handlers : g # h => handler'[g] = handler[g] BY <1>0, <3>1
    <3> QED BY <3>3, <3>4, StayMoves
  <2>2. CASE h # Startup BY <1>18, <2>2, ToCleanMoves, TaskFacts DEF Remove
  <2> QED BY <2>1, <2>2
<1>19. CASE StartupResumes
  <2> DEFINE e == NextToResume
  <2>1. e \in handler[Startup].todo /\ e \in Tasks \X Statuses
    BY <1>0, <1>19, NextToResumeIsMember DEF StartupResumes, HandlerType
  <2>2. PICK s \in {"finalize", "restart"} :
          /\ handler' = [handler EXCEPT ![Startup] =
                            [handler[Startup] EXCEPT !.todo = handler[Startup].todo \ {e}, !.target = e[1], !.at = s]]
          /\ s = "finalize" => Refuses(e[1])
    BY <1>19 DEF StartupResumes
  <2> HIDE DEF e
  <2>3. /\ handler'[Startup].at = s /\ handler'[Startup].target = e[1]
        /\ handler'[Startup].todo \subseteq handler[Startup].todo
    BY <1>0, <2>2 DEF HandlerType
  <2>4. s = "finalize" => status' = status
    BY <1>19, <2>2 DEF e, StartupResumes, Send, SendToIdle, SendToBusy, SendRefused, Refuses, Exists
  <2>5. HandlerMoves(Startup)
    BY <1>19, <2>1, <2>2, <2>3, <2>4 DEF StartupResumes, HandlerMoves, RecordMoves
  <2>6. \A g \in Handlers : g # Startup => handler'[g] = handler[g] BY <1>0, <2>2
  <2> QED BY <2>5, <2>6, StayMoves
<1>20. CASE StartupPatches
  <2>1. HandlerMoves(Startup)
    BY <1>0, <1>20, StageMoves DEF StartupPatches, HandlerMoves, RecordMoves
  <2> QED BY <1>0, <1>20, <2>1, StageMoves DEF StartupPatches
<1>21. CASE StartupCleans
  <2>1. CASE Done(Startup) BY <1>0, <1>21, <2>1, DoneMoves DEF StartupCleans
  <2>2. ASSUME NEW t, handler' = [handler EXCEPT ![Startup] =
                   [handler[Startup] EXCEPT !.at = "clean", !.target = t, !.clean = handler[Startup].clean \ {t}]]
        PROVE  Moves
    <3>1. handler'[Startup].at = "clean" /\ handler'[Startup].todo = handler[Startup].todo
      BY <1>0, <2>2 DEF HandlerType
    <3>2. HandlerMoves(Startup) BY <1>21, <3>1 DEF StartupCleans, HandlerMoves, RecordMoves
    <3>3. \A g \in Handlers : g # Startup => handler'[g] = handler[g] BY <1>0, <2>2
    <3> QED BY <3>2, <3>3, StayMoves
  <2> QED BY <1>21, <2>1, <2>2 DEF StartupCleans, Done
<1> QED
  BY <1>1, <1>2, <1>3, <1>4, <1>5, <1>6, <1>7, <1>8, <1>9, <1>10, <1>11, <1>12, <1>13, <1>14, <1>15, <1>16, <1>17, <1>18, <1>19, <1>20, <1>21
     DEF Next, System, HandlerStep, Passes, Cascades, StartupStep, Disturbed

\* The mutex passes to a handler that waits for it, and a cascade follows an interrupt.
MutexMoves ==
    /\ pass'.by = pass.by \/ pass'.by = Nobody \/ pass'.by = Background \/ handler'[pass'.by].at = "passing"
    /\ \/ cascade' = cascade \/ cascade'.at = "idle"
       \/ cascade'.at = "lock" /\ "interrupt" \in past'
       \/ cascade'.at \in {"stop", "mark"} /\ cascade.at # "idle" /\ making' = {}

\* Every step moves it so.
LEMMA MutexMove ==
    ASSUME TypeOK, ControlOK, [Next]_vars
    PROVE  MutexMoves
<1>1. CASE UNCHANGED mutexed BY <1>1 DEF mutexed, MutexMoves
<1>2. CASE System
  <2>1. ASSUME NEW h \in Handlers, HandlerStep(h) PROVE UNCHANGED mutexed
    BY <2>1 DEF HandlerStep, Finalize, Persist, AfterPass, ResumeParent, Clean, Remove, Take, Judge, Remind
  <2>2. CASE Nudge BY <1>1, <2>2 DEF Nudge
  <2>3. ASSUME NEW by \in {Background} \cup Handlers, PassBegins(by) PROVE MutexMoves
    <3>1. cascade' = cascade BY <2>3 DEF PassBegins
    <3>2. CASE pass' = pass BY <3>1, <3>2 DEF MutexMoves
    <3>3. CASE pass'.by = Background BY <3>1, <3>3 DEF MutexMoves
    <3>4. CASE pass'.by = by /\ by # Background /\ handler' = [handler EXCEPT ![by].at = "passing"]
      <4>1. handler'[by].at = "passing" BY <2>3, <3>4 DEF TypeOK, HandlerType
      <4> QED BY <3>1, <3>4, <4>1 DEF MutexMoves
    <3> QED BY <2>3, <3>2, <3>3, <3>4 DEF PassBegins
  <2>4. CASE PassNext \/ PassBreaks BY <2>4 DEF PassNext, PassBreaks, NoPass, TypeOK, MutexMoves
  <2>5. CASE Cascades
    BY <2>5 DEF Cascades, CascadeBegins, CascadeStops, CascadeMarks, MutexFree, NoCascade, TypeOK, ControlOK,
                MutexOwners, MutexMoves
  <2>6. CASE StartupStep
    BY <1>1, <2>6 DEF StartupStep, StartupResumes, StartupPatches, StartupCleans
  <2>7. ASSUME NEW w \in Workspaces, CreateEnds(w) PROVE MutexMoves
    BY <2>7 DEF CreateEnds, NoPass, MutexMoves
  <2>8. ASSUME NEW w \in Workspaces, StreamStep(w) \/ FlushQueue(w) PROVE UNCHANGED mutexed
    BY <2>8 DEF StreamStep, Await, StreamEnds, FlushQueue
  <2>9. ASSUME NEW t \in Tasks, PatchDone(t) PROVE UNCHANGED mutexed BY <2>9 DEF PatchDone
  <2> QED BY <1>1, <1>2, <2>1, <2>2, <2>3, <2>4, <2>5, <2>6, <2>7, <2>8, <2>9 DEF System, Passes
<1>3. ASSUME NEW w \in Workspaces, CreateBegins(w) PROVE MutexMoves
  BY <1>3 DEF CreateBegins, NoPass, MutexMoves
<1>4. CASE Disturbed
  <2>1. ASSUME NEW t, (t \in Workspaces /\ AwaitTimesOut(t)) \/ (t \in Tasks /\ UserResumes(t)) PROVE UNCHANGED mutexed
    BY <2>1 DEF AwaitTimesOut, UserResumes
  <2>2. ASSUME NEW w \in Workspaces, StreamDies(w) PROVE UNCHANGED mutexed BY <2>2 DEF StreamDies
  <2>3. CASE UserSends BY <1>1, <2>3 DEF UserSends
  <2>4. CASE Interrupt BY <2>4 DEF Interrupt, Happens, TypeOK, MutexMoves
  <2>5. CASE Crash BY <2>5 DEF Crash, NoPass, NoCascade, MutexMoves
  <2> QED BY <1>1, <1>4, <2>1, <2>2, <2>3, <2>4, <2>5 DEF Disturbed
<1>5. CASE UNCHANGED vars BY <1>1, <1>5 DEF vars
<1> QED BY <1>2, <1>3, <1>4, <1>5 DEF Next

-----------------------------------------------------------------------------
(* The inductive step *)

\* What the parts of the invariant have to go by.
LEMMA StepFacts ==
    ASSUME TaskIInv, [Next]_vars
    PROVE  /\ TypeOK /\ TypeOK' /\ ControlOK
           /\ TreeMoves /\ (\A t \in Tasks : StatusMoves(t))
           /\ (\A h \in Handlers : HandlerMoves(h)) /\ MutexMoves
           /\ (Orderly' => Orderly) /\ (Alive' => Alive)
<1>1. TypeOK /\ ControlOK BY DEF TaskIInv
<1>2. past \subseteq past' BY <1>1, TreeStep DEF TreeMoves
<1>3. (Orderly' => Orderly) /\ (Alive' => Alive) BY <1>2 DEF Orderly, Alive
<1> QED BY <1>1, <1>3, TypeStep, TreeStep, StatusStep, HandlersMove, MutexMove

\* The tasks that were created are among those that may be.
LEMMA MadeFacts == TypeOK => made \in Nat /\ 1 .. made \subseteq Tasks
<1> SUFFICES ASSUME TypeOK PROVE made \in Nat /\ 1 .. made \subseteq Tasks
  OBVIOUS
<1>1. made \in 0 .. MaxTasks BY DEF TypeOK
<1> QED BY <1>1, TaskFacts DEF Tasks

\* A task that is gone does not come back.
LEMMA GoneStays ==
    ASSUME TypeOK, NEW t \in Tasks, t <= made, StatusMoves(t), status[t] = "none"
    PROVE  status'[t] = "none"
  BY TaskFacts DEF TypeOK, StatusMoves, Exists

\* A task keeps its parent and, once it had children, has had them.
LEMMA AncestryStays ==
    ASSUME TypeOK, Numbered, TreeMoves
    PROVE  /\ made <= made' /\ \A t \in 1 .. made : parent'[t] = parent[t]
           /\ \A t \in Workspaces : HadChild(t) => HadChild(t)'
<1>1. made \in Nat /\ 1 .. made \subseteq Tasks /\ parent \in [Tasks -> Workspaces]
  BY TaskFacts DEF TypeOK, Tasks
<1>2. made' = made \/ made' = made + 1 BY DEF TreeMoves
<1>3. made <= made' BY <1>1, <1>2
<1>4. \A t \in 1 .. made : parent'[t] = parent[t] BY <1>1 DEF TreeMoves
<1>5. ASSUME NEW t \in Workspaces, HadChild(t) PROVE HadChild(t)'
  <2>1. PICK u \in t + 1 .. made : parent[u] = t BY <1>5 DEF HadChild
  <2>2. u \in t + 1 .. made' /\ u \in 1 .. made BY <1>1, <1>2, TaskFacts DEF Root
  <2> QED BY <1>4, <2>1, <2>2 DEF HadChild
<1> QED BY <1>3, <1>4, <1>5

\* A workspace gets a child by the end of its create() only.
LEMMA ChildrenMove ==
    ASSUME TypeOK, Numbered, TreeMoves, \A t \in Tasks : StatusMoves(t), NEW w, HasChildren(w)'
    PROVE  HasChildren(w) \/ w \in making
<1>1. PICK t \in Tasks : status'[t] # "none" /\ parent'[t] = w BY DEF HasChildren, Exists
<1>2. CASE made' = made + 1 /\ t = made + 1 BY <1>1, <1>2 DEF TreeMoves, TypeOK
<1>3. CASE ~(made' = made + 1 /\ t = made + 1)
  <2>1. parent'[t] = parent[t] BY <1>3 DEF TreeMoves, TypeOK
  <2>2. status[t] # "none" BY <1>1, <1>3 DEF StatusMoves, Exists
  <2> QED BY <1>1, <2>1, <2>2 DEF HasChildren, Exists
<1> QED BY <1>2, <1>3

\* Numbered.
LEMMA NumberedStep ==
    ASSUME TaskIInv, [Next]_vars
    PROVE  Numbered'
<1>0. /\ TypeOK /\ TypeOK' /\ Numbered /\ TreeMoves
      /\ \A t \in Tasks : StatusMoves(t)
  BY StepFacts DEF ControlOK
<1>1. made <= made' /\ made \in Nat /\ made' \in Nat /\ \A t \in 1 .. made : parent'[t] = parent[t]
  BY <1>0, AncestryStays DEF TypeOK
<1>2. ASSUME NEW t \in Tasks, t > made' PROVE status'[t] = "none"
  BY <1>0, <1>1, <1>2, TaskFacts DEF StatusMoves, Exists, Numbered
<1>3. ASSUME NEW t \in 1 .. made' PROVE parent'[t] < t
  <2>1. CASE t \in 1 .. made BY <1>0, <1>1, <2>1 DEF Numbered
  <2>2. CASE t \notin 1 .. made
    <3>1. t = made + 1 /\ made' = made + 1 BY <1>0, <1>1, <2>2 DEF TreeMoves
    <3>2. PICK w \in making : parent' = [parent EXCEPT ![t] = w] BY <1>0, <1>1, <3>1 DEF TreeMoves
    <3>3. parent'[t] = w BY <1>0, <3>1, <3>2 DEF TypeOK, TreeMoves
    <3>4. w <= made /\ w \in Int BY <1>0, TaskFacts DEF Numbered, TypeOK, Root
    <3> QED BY <1>1, <3>1, <3>3, <3>4
  <2> QED BY <2>1, <2>2
<1>4. ASSUME NEW w \in making' PROVE w <= made' /\ made' < MaxTasks
  <2>1. CASE making' = making /\ UNCHANGED made BY <1>0, <1>4, <2>1 DEF Numbered
  <2>2. ASSUME NEW v \in Workspaces, CreateBegins(v) PROVE w <= made' /\ made' < MaxTasks
    <3>1. w = v /\ made < MaxTasks /\ made' = made /\ (v \in Tasks => status[v] # "none")
      BY <1>4, <2>2 DEF CreateBegins, disk
    <3>2. CASE v = Root BY <1>1, <3>1, <3>2 DEF Root
    <3>3. CASE v \in Tasks BY <1>0, <1>1, <3>1, <3>3, TaskFacts DEF Numbered
    <3> QED BY <3>1, <3>2, <3>3, TaskFacts
  <2> QED BY <1>0, <1>4, <2>1, <2>2 DEF TreeMoves
<1> QED BY <1>2, <1>3, <1>4 DEF Numbered

\* MutexOwners and InterruptsTraced.
LEMMA MutexStep ==
    ASSUME TaskIInv, [Next]_vars
    PROVE  MutexOwners' /\ InterruptsTraced'
<1>0. /\ TypeOK /\ TypeOK' /\ MutexOwners /\ InterruptsTraced /\ TreeMoves /\ MutexMoves
      /\ \A t \in Tasks : StatusMoves(t)
      /\ \A h \in Handlers : HandlerMoves(h)
  BY StepFacts DEF ControlOK
<1>1. pass'.by \in Handlers => handler'[pass'.by].at = "passing"
  <2>1. CASE pass'.by = pass.by BY <1>0, <2>1 DEF MutexOwners, HandlerMoves
  <2>2. CASE pass'.by = Nobody \/ pass'.by = Background BY <2>2, TaskFacts
  <2> QED BY <1>0, <2>1, <2>2 DEF MutexMoves
<1>2. cascade'.at \in {"stop", "mark"} => making' = {}
  <2>1. CASE cascade' = cascade
    <3>1. CASE \E w \in Workspaces : CreateBegins(w)
      BY <2>1, <3>1 DEF CreateBegins, MutexFree
    <3> QED BY <1>0, <2>1, <3>1 DEF MutexOwners, TreeMoves
  <2> QED BY <1>0, <2>1 DEF MutexMoves
<1>3. InterruptsTraced' BY <1>0 DEF InterruptsTraced, TreeMoves, MutexMoves, StatusMoves
<1> QED BY <1>1, <1>2, <1>3 DEF MutexOwners

\* CreatesAlive.
LEMMA CreatesStep ==
    ASSUME TaskIInv, [Next]_vars
    PROVE  CreatesAlive'
<1> SUFFICES ASSUME Alive', NEW w \in making'
             PROVE  Exists(w)' /\ (w \in Tasks => w \in streaming')
  BY DEF CreatesAlive
<1>0. /\ TypeOK /\ TreeMoves /\ HandlersOK /\ CreatesAlive /\ Alive /\ "die" \notin past'
      /\ \A t \in Tasks : StatusMoves(t)
  BY StepFacts DEF TaskIInv, ControlOK, Alive
<1>1. CASE making' = making
  <2>1. Exists(w) /\ (w \in Tasks => w \in streaming) BY <1>0, <1>1 DEF CreatesAlive
  <2>2. \A h \in Handlers : handler[h].at = "remove" => handler[h].target # w
    BY <1>0, <1>1 DEF HandlersOK, RemovesReported
  <2>3. w \in Tasks => status'[w] # "none" BY <1>0, <2>1, <2>2 DEF StatusMoves, Exists
  <2> QED BY <1>0, <2>1, <2>2, <2>3 DEF TreeMoves, Exists
<1>2. ASSUME NEW v \in Workspaces, CreateBegins(v) PROVE Exists(w)' /\ (w \in Tasks => w \in streaming')
  BY <1>2 DEF CreateBegins, CanCall, disk, streams, Exists
<1> QED BY <1>0, <1>1, <1>2 DEF TreeMoves

\* ParentsExist.
LEMMA ParentsStep ==
    ASSUME TaskIInv, [Next]_vars, Alive'
    PROVE  ParentsExist'
<1>0. /\ TypeOK /\ TypeOK' /\ TreeMoves /\ HandlersOK /\ Numbered /\ CreatesAlive /\ Alive /\ ParentsExist
      /\ \A t \in Tasks : StatusMoves(t)
  BY StepFacts DEF TaskIInv, ControlOK
<1>1. ASSUME NEW t \in Tasks, Exists(t)' PROVE Exists(parent[t])'
  <2> DEFINE p == parent'[t]
  <2>0. p \in Workspaces BY <1>0 DEF TypeOK
  <2>1. Exists(p) /\ \A h \in Handlers : handler[h].at = "remove" => handler[h].target # p
    <3>1. CASE made' = made + 1 /\ t = made + 1
      <4>1. p \in making BY <1>0, <3>1 DEF TreeMoves, TypeOK
      <4> QED BY <1>0, <4>1 DEF CreatesAlive, HandlersOK, RemovesReported
    <3>2. CASE ~(made' = made + 1 /\ t = made + 1)
      <4>1. p = parent[t] BY <1>0, <3>2 DEF TreeMoves, TypeOK
      <4>2. Exists(t) BY <1>0, <1>1, <3>2 DEF StatusMoves, Exists
      <4>3. Exists(p) BY <1>0, <4>1, <4>2 DEF ParentsExist
      <4>4. HasChildren(p) BY <4>1, <4>2 DEF HasChildren
      <4> QED BY <1>0, <4>3, <4>4 DEF HandlersOK, RemovesReported
    <3> QED BY <3>1, <3>2
  <2>2. p \in Tasks => status'[p] # "none" BY <1>0, <2>1 DEF StatusMoves, Exists
  <2> QED BY <2>2 DEF Exists
<1> QED BY <1>1 DEF ParentsExist

\* RemovesReported of every handler.
LEMMA RemovesStep ==
    ASSUME TaskIInv, [Next]_vars, NEW h \in Handlers
    PROVE  RemovesReported(h)'
<1> PICK t : t = handler'[h].target OBVIOUS
<1>0. /\ TypeOK /\ TypeOK' /\ TreeMoves /\ RemovesReported(h) /\ Numbered /\ CreatesAlive
      /\ (Orderly' => Orderly) /\ (Alive' => Alive) /\ HandlerMoves(h)
      /\ \A u \in Tasks : StatusMoves(u)
  BY StepFacts DEF TaskIInv, ControlOK, HandlersOK
<1>1. made \in Nat /\ made' \in Nat /\ made <= made' /\ 1 .. made \subseteq Tasks
  <2>1. made' \in Nat BY <1>0 DEF TypeOK
  <2> QED BY <1>0, <2>1, AncestryStays, MadeFacts
<1> SUFFICES ASSUME handler'[h].at = "remove"
             PROVE  /\ t \in 1 .. made'
                    /\ Orderly' => status'[t] \in {"reported", "none"}
                    /\ Alive' => t \notin making' /\ ~HasChildren(t)'
  BY DEF RemovesReported, HasChildren, Exists
<1>2. CASE handler'[h] = handler[h]
  <2>1. /\ t \in 1 .. made /\ (Orderly => status[t] \in {"reported", "none"})
        /\ Alive => t \notin making /\ ~HasChildren(t)
    BY <1>0, <1>2 DEF RemovesReported
  <2>2. Orderly' => status'[t] \in {"reported", "none"}
    BY <1>0, <1>1, <2>1 DEF StatusMoves, Exists
  <2>3. Alive' => ~HasChildren(t)' BY <1>0, <2>1, ChildrenMove
  <2>4. Alive' => t \notin making'
    <3>1. CASE \E v \in Workspaces : CreateBegins(v)
      BY <1>0, <1>1, <2>1, <3>1 DEF CreateBegins, Alive
    <3> QED BY <1>0, <2>1, <3>1 DEF TreeMoves
  <2> QED BY <1>1, <2>1, <2>2, <2>3, <2>4
<1>3. CASE Cleanable(t) /\ UNCHANGED <<status, parent, made, making>>
  <2>0. t \in Tasks /\ status[t] # "none" BY <1>3 DEF Cleanable, CompletedReport
  <2>1. t \in 1 .. made BY <1>0, <1>1, <2>0, TaskFacts DEF Tasks, Numbered
  <2>2. ~HasChildren(t)' BY <1>3 DEF Cleanable, HasChildren, Exists
  <2> QED BY <1>0, <1>3, <2>1, <2>2 DEF Cleanable, CompletedReport, CreatesAlive
<1> QED BY <1>0, <1>2, <1>3, TaskFacts DEF HandlerMoves, RecordMoves, GoesOn

\* JudgesUnreported of every workspace.
LEMMA JudgesStep ==
    ASSUME TaskIInv, [Next]_vars, NEW h \in Workspaces
    PROVE  JudgesUnreported(h)'
<1>0. /\ TypeOK /\ StartupOK /\ HandlersOK /\ (Orderly' => Orderly) /\ HandlerMoves(h) /\ h \in Handlers
      /\ \A u \in Tasks : StatusMoves(u)
  BY StepFacts, TaskFacts DEF ControlOK
<1> SUFFICES ASSUME Orderly', handler'[h].at = "judge"
             PROVE  status'[h] # "reported"
  BY DEF JudgesUnreported
<1>1. CASE handler'[h] = handler[h]
  <2>1. h \in Tasks /\ status[h] # "reported" BY <1>0, <1>1 DEF HandlersOK, OwnTask, JudgesUnreported
  <2>2. ASSUME NEW g \in Handlers, handler[g].at = "finalize", handler[g].target = h, Exists(h) PROVE FALSE
    <3>1. CASE g = Startup BY <1>0, <2>2, <3>1 DEF StartupOK
    <3>2. CASE g \in Workspaces BY <1>0, <1>1, <2>2, <3>2 DEF HandlersOK, OwnTask
    <3> QED BY <3>1, <3>2, TaskFacts
  <2> QED BY <1>0, <2>1, <2>2 DEF StatusMoves
<1> QED BY <1>0, <1>1, TaskFacts DEF HandlerMoves, RecordMoves, GoesOn

\* OwnTask of every workspace.
LEMMA OwnStep ==
    ASSUME TaskIInv, [Next]_vars, NEW w \in Workspaces
    PROVE  OwnTask(w)'
<1> DEFINE a == handler[w]
           b == handler'[w]
<1>0. /\ TypeOK /\ TypeOK' /\ Numbered /\ TreeMoves /\ OwnTask(w) /\ RemovesReported(w) /\ HandlerMoves(w)
      /\ w \in Handlers /\ w # Startup
  BY StepFacts, TaskFacts DEF ControlOK, HandlersOK
<1>1. \A t \in Workspaces : HadChild(t) => HadChild(t)' BY <1>0, AncestryStays
<1>2. a.target \in Workspaces BY <1>0 DEF TypeOK, HandlerType
<1>3. CASE b = a BY <1>0, <1>1, <1>2, <1>3 DEF OwnTask, HadChild
<1>4. CASE b.at = "clean"
  <2>1. CASE b.target = w BY <1>4, <2>1 DEF OwnTask
  <2>2. CASE b.target = a.target /\ a.at \in {"finalize", "resume", "send"}
    BY <1>0, <1>4, <2>2 DEF OwnTask
  <2>3. CASE a.at = "remove" /\ b.target = parent[a.target]
    <3>1. a.target \in 1 .. made /\ parent[a.target] < a.target
      BY <1>0, <2>3 DEF RemovesReported, Numbered
    <3>2. b.target \in Workspaces BY <1>0 DEF TypeOK, HandlerType
    <3>3. a.target \in b.target + 1 .. made
      <4>1. made \in Nat BY <1>0, MadeFacts
      <4>2. b.target \in Nat BY <3>2, TaskFacts
      <4> QED BY <2>3, <3>1, <4>1, <4>2
    <3>4. HadChild(b.target) BY <2>3, <3>3 DEF HadChild
    <3> QED BY <1>1, <1>4, <3>2, <3>4 DEF OwnTask, HadChild
  <2> QED BY <1>0, <1>3, <1>4, <2>1, <2>2, <2>3 DEF HandlerMoves, RecordMoves, GoesOn
<1>5. CASE b.at = "remove" /\ b # a
  <2>1. a.at = "clean" /\ b.target = a.target BY <1>0, <1>5 DEF HandlerMoves, RecordMoves, GoesOn
  <2> QED BY <1>0, <1>1, <1>2, <1>5, <2>1 DEF OwnTask, HadChild
<1>6. CASE b.at \notin {"clean", "remove"} /\ b # a
  BY <1>0, <1>6 DEF HandlerMoves, RecordMoves, GoesOn, OwnTask
<1> QED BY <1>3, <1>4, <1>5, <1>6

\* StartupOK.
LEMMA StartupStays ==
    ASSUME TaskIInv, [Next]_vars
    PROVE  StartupOK'
<1> DEFINE a == handler[Startup]
           b == handler'[Startup]
<1>0. /\ TypeOK /\ TypeOK' /\ Numbered /\ Numbered' /\ TreeMoves /\ StartupOK /\ HandlerMoves(Startup)
      /\ InterruptsTraced /\ (Orderly' => Orderly) /\ Startup \in Handlers
      /\ \A t \in Tasks : StatusMoves(t)
  BY StepFacts, TaskFacts, NumberedStep DEF ControlOK
<1>1. made <= made' /\ made \in Nat /\ made' \in Nat /\ 1 .. made \subseteq Tasks /\ past \subseteq past'
  <2>1. made' \in Nat BY <1>0 DEF TypeOK
  <2> QED BY <1>0, <2>1, AncestryStays, MadeFacts DEF TreeMoves
<1>2. /\ RecordMoves(Startup, a, b)
      /\ \A e \in b.todo : e \in a.todo \/ (e[1] \in Tasks /\ status'[e[1]] \in {"running", "awaiting_report"})
  BY <1>0 DEF HandlerMoves
<1>3. a \in HandlerType /\ b \in HandlerType BY <1>0 DEF TypeOK
<1>4. "crash" \notin past' => b.at = "idle"
  BY <1>0, <1>1, <1>2, TaskFacts DEF StartupOK, RecordMoves, GoesOn
<1>5. b.at \in {"resume", "send"} => b.target \in Tasks
  BY <1>0, <1>2, TaskFacts DEF StartupOK, RecordMoves, GoesOn
<1>6. ASSUME NEW e \in b.todo
      PROVE  /\ e[1] <= made' /\ status'[e[1]] # "queued"
             /\ "interrupt" \notin past' => status'[e[1]] # "interrupted"
  <2> PICK t : t = e[1] OBVIOUS
  <2>0. t \in Tasks /\ t \in Nat BY <1>3, TaskFacts DEF HandlerType
  <2>1. CASE e \in a.todo
    <3>1. t <= made /\ status[t] # "queued" /\ ("interrupt" \notin past => status[t] # "interrupted")
      BY <1>0, <2>1 DEF StartupOK
    <3>2. StatusMoves(t) BY <1>0, <2>0
    <3>3. status'[t] # "queued" /\ ("interrupt" \notin past' => status'[t] # "interrupted")
      BY <1>1, <2>0, <3>1, <3>2 DEF StatusMoves
    <3> QED BY <1>1, <2>0, <3>1, <3>3
  <2>2. CASE status'[t] \in {"running", "awaiting_report"}
    <3>1. ~(t > made') BY <1>0, <2>0, <2>2 DEF Numbered
    <3> QED BY <1>1, <2>0, <2>2, <3>1
  <2> QED BY <1>2, <2>1, <2>2
<1>7. b.at \in {"finalize", "persist"} =>
          /\ b.target \in 1 .. made'
          /\ Orderly' => status'[b.target] = "none"
  <2>1. ASSUME a.at \in {"finalize", "persist"}, b.target = a.target
        PROVE  /\ b.target \in 1 .. made'
               /\ Orderly' => status'[b.target] = "none"
    <3>1. b.target \in 1 .. made /\ (Orderly => status[b.target] = "none")
      BY <1>0, <1>1, <2>1 DEF StartupOK, Exists
    <3>2. Orderly' => status'[b.target] = "none" BY <1>0, <1>1, <3>1, GoneStays
    <3> QED BY <1>1, <3>1, <3>2
  <2>2. ASSUME a.at = "restart", Refuses(b.target), status' = status, b.target \in Tasks,
               \E e \in a.todo : e[1] = b.target
        PROVE  /\ b.target \in 1 .. made'
               /\ Orderly' => status'[b.target] = "none"
    <3>1. b.target <= made /\ status[b.target] # "queued" BY <1>0, <2>2 DEF StartupOK
    <3>2. Orderly' => status[b.target] # "interrupted"
      BY <1>0, <2>2 DEF StartupOK, Orderly
    <3>3. Orderly' => status[b.target] = "none" BY <2>2, <3>1, <3>2 DEF Refuses, Exists
    <3> QED BY <1>1, <2>2, <3>1, <3>3, TaskFacts DEF Tasks
  <2> QED BY <1>2, <2>1, <2>2, TaskFacts DEF RecordMoves, GoesOn
<1>8. 1 .. made' \subseteq Tasks
  <2>1. made' \in 0 .. MaxTasks BY <1>0 DEF TypeOK
  <2> QED BY <2>1, TaskFacts DEF Tasks
<1>9. b.at \in {"finalize", "persist"} /\ Orderly' => ~(b.target \in Tasks => status'[b.target] # "none")
  BY <1>7, <1>8
<1> QED BY <1>4, <1>5, <1>6, <1>7, <1>9 DEF StartupOK, Exists

\* ReportedIsStored.
LEMMA StoredStep ==
    ASSUME TaskIInv, [Next]_vars
    PROVE  ReportedIsStored'
<1>0. /\ TypeOK /\ Numbered /\ TreeMoves /\ HandlersOK /\ StartupOK /\ ReportedIsStored
      /\ \A t \in Tasks : StatusMoves(t)
      /\ \A h \in Handlers : HandlerMoves(h)
  BY StepFacts DEF TaskIInv, ControlOK
<1> SUFFICES ASSUME "crash" \notin past', NEW t \in Tasks, status'[t] = "reported"
             PROVE  t \in artifacts' \/ HadChild(t)' \/ handler'[t].at = "persist"
  BY DEF ReportedIsStored
<1>1. "crash" \notin past /\ artifacts \subseteq artifacts' BY <1>0 DEF TreeMoves
<1>2. t \in Workspaces /\ t \in Handlers /\ (HadChild(t) => HadChild(t)')
  BY <1>0, AncestryStays, TaskFacts
<1>3. CASE status[t] = "reported"
  <2>1. CASE handler[t].at = "persist"
    <3>1. handler[t].target = t /\ Exists(t) BY <1>0, <1>2, <1>3, <2>1 DEF HandlersOK, OwnTask, Exists
    <3>2. handler'[t].at # "persist" => t \in artifacts' BY <1>0, <1>2, <2>1, <3>1 DEF HandlerMoves
    <3> QED BY <3>2
  <2> QED BY <1>0, <1>1, <1>2, <1>3, <2>1 DEF ReportedIsStored
<1>4. ASSUME NEW h \in Handlers, handler[h].at = "finalize", handler[h].target = t, handler'[h].at = "persist"
      PROVE  handler'[t].at = "persist"
  <2>1. h # Startup BY <1>0, <1>1, <1>4 DEF StartupOK
  <2> QED BY <1>0, <1>4, <2>1, TaskFacts DEF HandlersOK, OwnTask
<1> QED BY <1>0, <1>3, <1>4 DEF StatusMoves

\* LeavesReport.
LEMMA LeavesStep ==
    ASSUME TaskIInv, [Next]_vars
    PROVE  LeavesReport'
<1>0. /\ TypeOK /\ TypeOK' /\ Numbered /\ TreeMoves /\ HandlersOK /\ StartupOK /\ ReportedIsStored /\ LeavesReport
      /\ \A t \in Tasks : StatusMoves(t)
  BY StepFacts DEF TaskIInv, ControlOK
<1>1. made \in Nat /\ made' \in Nat /\ 1 .. made \subseteq Tasks
  <2>1. made' \in Nat BY <1>0 DEF TypeOK
  <2> QED BY <1>0, <2>1, MadeFacts
<1> SUFFICES ASSUME "crash" \notin past', NEW t \in 1 .. made'
             PROVE  Exists(t)' \/ t \in artifacts' \/ HadChild(t)'
  BY DEF LeavesReport, HadChild
<1>2. "crash" \notin past /\ Orderly /\ artifacts \subseteq artifacts'
  BY <1>0 DEF TreeMoves, Orderly
<1>3. CASE t \in 1 .. made
  <2>0. t \in Tasks /\ t \in Workspaces /\ (HadChild(t) => HadChild(t)')
    BY <1>0, <1>1, <1>3, AncestryStays, TaskFacts
  <2>1. CASE t \in artifacts \/ HadChild(t) BY <1>2, <2>0, <2>1
  <2>2. CASE Exists(t) /\ ~HadChild(t) /\ t \notin artifacts
    <3>1. ASSUME NEW h \in Handlers, handler[h].at = "remove", handler[h].target = t PROVE FALSE
      <4>1. status[t] = "reported"
        BY <1>0, <1>2, <2>0, <2>2, <3>1 DEF HandlersOK, RemovesReported, Exists
      <4>2. h # Startup BY <1>0, <1>2, <3>1 DEF StartupOK
      <4>3. h = t BY <1>0, <2>2, <3>1, <4>2, TaskFacts DEF HandlersOK, OwnTask
      <4>4. handler[t].at = "persist" BY <1>0, <1>2, <2>0, <2>2, <4>1 DEF ReportedIsStored
      <4> QED BY <3>1, <4>3, <4>4
    <3>2. status'[t] # "none" BY <1>0, <2>0, <2>2, <3>1 DEF StatusMoves, Exists
    <3> QED BY <3>2 DEF Exists
  <2> QED BY <1>0, <1>2, <1>3, <2>1, <2>2 DEF LeavesReport, HadChild
<1>4. CASE t \notin 1 .. made
  <2>1. made' = t /\ Exists(made)' BY <1>0, <1>1, <1>4 DEF TreeMoves
  <2> QED BY <2>1 DEF Exists
<1> QED BY <1>3, <1>4

-----------------------------------------------------------------------------
(* The theorems *)

\* The invariant holds at first.
LEMMA TaskInit == Init => TaskIInv
<1> SUFFICES ASSUME Init PROVE TaskIInv
  OBVIOUS
<1>1. past = {} /\ making = {} /\ made = 0 /\ \A t \in Tasks : status[t] = "none" BY DEF Init
<1>2. \A h \in Handlers : handler[h] = Idle BY DEF Init
<1>3. TypeOK
  <2>1. handler \in Handling BY <1>2, IdleIsHandler DEF Init, Handling
  <2>2. HandlerTypes BY <2>1 DEF Init, HandlerTypes
  <2>3. TreeTypes BY TaskFacts DEF Init, TreeTypes, Statuses
  <2>4. StreamTypes
    <3>1. 0 \in 0 .. MaxResumes BY TaskFacts
    <3> QED BY <3>1, TaskFacts DEF Init, StreamTypes
  <2>5. MutexTypes BY DEF Init, MutexTypes, NoPass, NoCascade
  <2> QED BY <2>2, <2>3, <2>4, <2>5, TypesSplit
<1>4. Numbered BY <1>1 DEF Numbered
<1>5. HandlersOK
  BY <1>2, TaskFacts DEF HandlersOK, OwnTask, JudgesUnreported, RemovesReported, Idle
<1>6. StartupOK BY <1>2, TaskFacts DEF StartupOK, Idle
<1>7. MutexOwners /\ InterruptsTraced
  BY <1>1, TaskFacts DEF Init, MutexOwners, InterruptsTraced, NoPass, NoCascade
<1>8. CreatesAlive /\ ParentsExist /\ ReportedIsStored /\ LeavesReport
  BY <1>1 DEF CreatesAlive, ParentsExist, Exists, ReportedIsStored, LeavesReport
<1> QED BY <1>3, <1>4, <1>5, <1>6, <1>7, <1>8 DEF TaskIInv, ControlOK

\* Every step keeps it.
LEMMA TaskStep == TaskIInv /\ [Next]_vars => TaskIInv'
<1> SUFFICES ASSUME TaskIInv, [Next]_vars PROVE TaskIInv'
  OBVIOUS
<1>1. HandlersOK' BY OwnStep, JudgesStep, RemovesStep DEF HandlersOK
<1>2. ControlOK' BY <1>1, NumberedStep, StartupStays, MutexStep DEF ControlOK
<1>3. TypeOK' BY StepFacts
<1> QED BY <1>2, <1>3, CreatesStep, ParentsStep, StoredStep, LeavesStep DEF TaskIInv

\* The invariant of the service: what handlers that are interrupted at every await still know.
THEOREM TaskServiceInvariant == Spec => []TaskIInv
  BY TaskInit, TaskStep, PTL DEF Spec

\* The variables keep the shapes the code gives them.
THEOREM TasksTyped == Spec => []TypeOK
<1>1. TaskIInv => TypeOK BY DEF TaskIInv
<1> QED BY <1>1, TaskServiceInvariant, PTL

\* A leaf of the task tree is not removed before its report is stored with its ancestors, however
\* the handlers, the passes of the queue and the cascades interleave (taskService.ts:3922).
THEOREM LeafReportsSurvive == Spec => []LeavesReport
<1>1. TaskIInv => LeavesReport BY DEF TaskIInv
<1> QED BY <1>1, TaskServiceInvariant, PTL

\* The cleanup orphans no task unless a stream dies in the middle of create() or initialize() meets
\* interrupted tasks (taskService.ts:4638).
THEOREM CleanupOrphansNobody == Spec => [](Orderly => NoOrphans)
<1>1. TaskIInv => (Orderly => NoOrphans) BY DEF TaskIInv, Alive, NoOrphans
<1> QED BY <1>1, TaskServiceInvariant, PTL

\* A report is final: until a restart meets interrupted tasks, no handler that read the status before
\* an await overwrites the status of a reported task.
THEOREM ReportsAreFinal == Spec /\ []Orderly => ReportedStays
<1>1. ASSUME TaskIInv, Orderly, [Next]_vars
      PROVE  [\A t \in Tasks : status[t] = "reported" => status'[t] \in {"reported", "none"}]_vars
  <2>1. /\ TypeOK
        /\ \A t \in Tasks : StatusMoves(t)
    BY <1>1, StepFacts
  <2>2. ASSUME NEW t \in Tasks, status[t] = "reported" PROVE status'[t] \in {"reported", "none"}
    BY <1>1, <2>1, <2>2, StepFacts, TaskFacts DEF StatusMoves, Exists, TaskIInv, ControlOK, Numbered, TypeOK
  <2> QED BY <2>2
<1> QED BY <1>1, TaskServiceInvariant, PTL DEF Spec, ReportedStays

-----------------------------------------------------------------------------
(* The cleanup of reported tasks: what excuses that a task is still there *)

\* Nothing has happened to t but its creation.
Untouched(t) == t \notin streaming /\ t \notin queued /\ inbox[t] = <<>> /\ handler[t].at = "idle"

\* The report of t is in the configuration, or was.
Settled(t) == t \in 1 .. made /\ status[t] \in {"reported", "none"}

\* A task that is queued, or failed to start, has no session yet.
FreshOK ==
    \A t \in Tasks :
        /\ t > made => Untouched(t) /\ patch[t] = "none"
        /\ "interrupt" \notin past /\ status[t] \in {"queued", "interrupted"} => Untouched(t)

\* Without a hard interrupt no stream of an interrupted task ends.
SeenOK == "interrupt" \notin past => \A h \in Handlers : handler[h].seen # "interrupted"

\* What is stored, patched or cleaned up is final.
FinalOK == Orderly =>
    /\ \A h \in Handlers : handler[h].at = "persist" => Settled(handler[h].target)
    /\ \A t \in handler[Startup].clean : Settled(t)
    /\ \A t \in Tasks : patch[t] # "none" => Settled(t)

\* Somebody is going to look at the reported task t, or has to wait with its cleanup.
Delivering == {"finalize", "persist", "pass", "passing", "resume", "send"}
Excused(t) ==
    \/ t \in streaming \/ HasChildren(t) \/ patch[t] = "pending" \/ inbox[t] # <<>>
    \/ handler[t].at \in Delivering
    \/ \E h \in Handlers : handler[h].at \in {"clean", "remove"} /\ handler[h].target = t
    \/ handler[Startup].at # "idle" /\ t \in handler[Startup].clean
    \/ handler[Startup].at \in {"pass", "passing"} /\ handler[Startup].target = Root
CleansOK ==
    past \cap {"interrupt", "die"} = {} => \A t \in Tasks : status[t] = "reported" => Excused(t)

\* The state that a crash leads to.
Restarted == handler'[Startup].at = "pass" /\ handler'[Startup].target = Root

\* A handler leaves a reported task in order: it cleans up after the report, gives up what it cannot
\* remove, and initialize() leaves no task of its list out.
CleanupMoves(h, a, b) ==
    /\ h \in Tasks /\ a.at \in Delivering =>
           b.at \in Delivering \/ (b.at = "clean" /\ b.target = a.target) \/ a.seen = "interrupted"
    /\ a.at = "clean" =>
           \/ b = a
           \/ b.at = "remove" /\ b.target = a.target
           \/ ~Cleanable(a.target) /\ UNCHANGED <<disk, streaming>>
    /\ a.at = "remove" => b = a \/ status'[a.target] = "none"
    /\ h = Startup /\ a.at # "idle" =>
           \A t \in a.clean : \/ b.at # "idle" /\ t \in b.clean
                              \/ b.at = "clean" /\ b.target = t
                              \/ status'[t] # "reported"
    /\ h = Startup /\ a.at \in {"pass", "passing"} /\ a.target = Root =>
           \/ b.at \in {"pass", "passing"} /\ b.target = Root
           \/ b.at = "restart" /\ \A t \in Tasks : status'[t] = "reported" => t \in b.clean

\* What a handler knows of the status it has read, of its report and of what it cleans up.
Follows(h) ==
    LET a == handler[h]
        b == handler'[h]
    IN  /\ b.seen # "interrupted" \/ b.seen = a.seen
           \/ (h \in Tasks /\ status[h] = "interrupted" /\ inbox[h] # <<>>)
        /\ a.at # "persist" /\ b.at = "persist" =>
               b.target = a.target /\ status'[b.target] \in {"reported", "none"}
        /\ \A t \in b.clean : t \in a.clean \/ status'[t] = "reported"
        /\ Restarted \/ CleanupMoves(h, a, b)

\* A handler that stays as it is follows; so it is enough to look at the one that moves, ...
LEMMA OthersFollow ==
    ASSUME NEW g, \A h \in Handlers : h # g => handler'[h] = handler[h], g \in Handlers => Follows(g)
    PROVE  \A h \in Handlers : Follows(h)
<1>1. ASSUME NEW h \in Handlers, handler'[h] = handler[h] PROVE Follows(h)
  BY <1>1 DEF Follows, CleanupMoves
<1> QED BY <1>1

\* ... which keeps the rest of its record when it goes to another stage.
LEMMA StageFields ==
    ASSUME TypeOK, NEW g \in Handlers, NEW s, Stage(g, s)
    PROVE  /\ \A h \in Handlers : h # g => handler'[h] = handler[h]
           /\ handler'[g].at = s /\ handler'[g].target = handler[g].target
           /\ handler'[g].seen = handler[g].seen /\ handler'[g].clean = handler[g].clean
BY DEF Stage, TypeOK, HandlerType

\* A handler that ends knows nothing.
LEMMA DoneFields ==
    ASSUME TypeOK, NEW g \in Handlers, Done(g)
    PROVE  /\ \A h \in Handlers : h # g => handler'[h] = handler[h]
           /\ handler'[g] = Idle /\ Idle.at = "idle" /\ Idle.seen = "none" /\ Idle.clean = {}
BY DEF Done, TypeOK, Idle

\* One that cleans up.
LEMMA ToCleanFields ==
    ASSUME TypeOK, NEW g \in Handlers, NEW t, ToClean(g, t)
    PROVE  /\ \A h \in Handlers : h # g => handler'[h] = handler[h]
           /\ handler'[g].at = "clean" /\ handler'[g].target = t
           /\ handler'[g].seen = handler[g].seen /\ handler'[g].clean = handler[g].clean
BY DEF ToClean, TypeOK, HandlerType

\* A handler that ends without a cleanup.
LEMMA DoneFollows ==
    ASSUME TypeOK, NEW g \in Workspaces, Done(g), handler[g].at \notin Delivering \cup {"clean", "remove"}
    PROVE  \A h \in Handlers : Follows(h)
<1>0. g \in Handlers /\ g # Startup BY TaskFacts
<1>1. Follows(g) BY <1>0, DoneFields DEF Follows, CleanupMoves
<1> QED BY <1>0, <1>1, DoneFields, OthersFollow

\* A handler that is through with its report.
LEMMA FinalizedFollows ==
    ASSUME TypeOK, NEW g \in Handlers, handler[g].at \in {"finalize", "resume", "send"}, Finalized(g)
    PROVE  \A h \in Handlers : Follows(h)
<1>1. CASE g # Startup /\ handler[g].seen = "interrupted"
  <2>1. Done(g) BY <1>1 DEF Finalized
  <2>2. Follows(g) BY <1>1, <2>1, DoneFields DEF Follows, CleanupMoves
  <2> QED BY <2>1, <2>2, DoneFields, OthersFollow
<1>2. CASE g = Startup /\ Stage(g, "restart")
  <2>1. Follows(g) BY <1>2, StageFields, TaskFacts DEF Follows, CleanupMoves
  <2> QED BY <1>2, <2>1, StageFields, OthersFollow
<1>3. CASE g # Startup /\ Stage(g, "clean")
  <2>1. Follows(g) BY <1>3, StageFields, TaskFacts DEF Follows, CleanupMoves
  <2> QED BY <1>3, <2>1, StageFields, OthersFollow
<1> QED BY <1>1, <1>2, <1>3 DEF Finalized

\* A handler whose pass is over.
LEMMA PassOverFollows ==
    ASSUME TypeOK, NEW by \in {Nobody, Background} \cup Handlers, PassOver(by),
           by \in Handlers => handler[by].at \in {"pass", "passing"}
    PROVE  \A h \in Handlers : Follows(h)
<1>0. Startup \in Handlers /\ handler \in [Handlers -> HandlerType] BY TaskFacts DEF TypeOK
<1>1. CASE by \in Workspaces \/ (by = Startup /\ handler[by].target # Root)
  <2>1. by \in Handlers /\ Stage(by, "resume") BY <1>1, TaskFacts DEF PassOver, Stage
  <2>2. Follows(by)
    BY <1>1, <2>1, StageFields, TaskFacts DEF Follows, CleanupMoves, Delivering
  <2> QED BY <2>1, <2>2, StageFields, OthersFollow
<1>2. CASE by \notin Workspaces /\ by = Startup /\ handler[by].target = Root
  <2> DEFINE todo == {<<t, status'[t]>> : t \in {u \in Tasks :
                         /\ status'[u] \in {"running", "awaiting_report"}
                         /\ ~\E d \in Tasks : status'[d] \in Active /\ u \in Above[d]}}
             clean == {t \in Tasks : status'[t] = "reported"}
  <2>1. handler' = [handler EXCEPT ![by].at = "restart", ![by].todo = todo, ![by].clean = clean]
    BY <1>2 DEF PassOver
  <2>2. \A t : t \in clean <=> t \in Tasks /\ status'[t] = "reported"
    OBVIOUS
  <2> HIDE DEF todo, clean
  <2>3. handler'[by].at = "restart" /\ handler'[by].clean = clean /\ handler'[by].seen = handler[by].seen
    BY <1>0, <1>2, <2>1 DEF HandlerType
  <2>6. handler[by].clean \subseteq Tasks BY <1>0, <1>2 DEF HandlerType
  <2>4. Follows(by) BY <1>0, <1>2, <2>2, <2>3, <2>6, TaskFacts DEF Follows, CleanupMoves
  <2>5. \A h \in Handlers : h # by => handler'[h] = handler[h] BY <1>0, <2>1
  <2> QED BY <2>4, <2>5, OthersFollow
<1>3. CASE by \notin Workspaces /\ by # Startup
  <2>1. handler' = handler BY <1>3 DEF PassOver
  <2> QED BY <1>3, <2>1, OthersFollow, TaskFacts
<1> QED BY <1>1, <1>2, <1>3

\* Every handler follows in every step.
LEMMA HandlersFollow ==
    ASSUME TypeOK, ControlOK, [Next]_vars
    PROVE  \A h \in Handlers : Follows(h)
<1> DEFINE Follow == \A h \in Handlers : Follows(h)
<1>0. /\ Startup \in Handlers /\ Workspaces \subseteq Handlers /\ Startup \notin Workspaces
      /\ handler \in [Handlers -> HandlerType]
  BY TaskFacts DEF TypeOK
<1>1. ASSUME handler' = handler PROVE Follow BY <1>1, OthersFollow DEF Follows, CleanupMoves
<1>2. ASSUME NEW w \in Workspaces, CreateBegins(w) \/ CreateEnds(w) \/ FlushQueue(w) \/ StreamDies(w)
      PROVE  handler' = handler
  BY <1>2 DEF CreateBegins, CreateEnds, FlushQueue, StreamDies
<1>3. ASSUME NEW w \in Workspaces, StreamStep(w) PROVE handler' = handler
  BY <1>3 DEF StreamStep, Await, StreamEnds
<1>4. ASSUME NEW u, (u \in Workspaces /\ AwaitTimesOut(u)) \/ (u \in Tasks /\ (PatchDone(u) \/ UserResumes(u)))
      PROVE  handler' = handler
  BY <1>4 DEF AwaitTimesOut, PatchDone, UserResumes
<1>5. CASE UserSends \/ Interrupt \/ CascadeBegins \/ CascadeStops \/ CascadeMarks \/ UNCHANGED vars
  <2>1. handler' = handler
    BY <1>5 DEF UserSends, Interrupt, CascadeBegins, CascadeStops, CascadeMarks, vars
  <2> QED BY <1>1, <2>1
<1>6. CASE Crash
  <2>1. handler' = [h \in Handlers |-> IF h = Startup THEN [Idle EXCEPT !.at = "pass"] ELSE Idle]
    BY <1>6 DEF Crash
  <2>2. Restarted BY <1>0, <2>1 DEF Idle, Restarted
  <2>3. ASSUME NEW h \in Handlers
        PROVE handler'[h].at # "persist" /\ handler'[h].seen = "none" /\ handler'[h].clean = {}
    BY <2>1 DEF Idle
  <2> QED BY <2>2, <2>3 DEF Follows
<1>7. ASSUME NEW by \in {Background} \cup Handlers, PassBegins(by) PROVE Follow
  <2>1. CASE PassOver(by)
    <3>1. by \in Handlers => handler[by].at = "pass" BY <1>7, TaskFacts DEF PassBegins, Due
    <3> QED BY <2>1, <3>1, PassOverFollows
  <2>2. CASE handler' = handler BY <1>1, <2>2
  <2>3. CASE by # Background /\ handler' = [handler EXCEPT ![by].at = "passing"]
    <3>1. Stage(by, "passing") /\ by \in Handlers /\ handler[by].at = "pass"
      BY <1>7, <2>3 DEF PassBegins, Stage, Due
    <3>2. Follows(by) BY <3>1, StageFields DEF Follows, CleanupMoves, Delivering
    <3> QED BY <3>1, <3>2, StageFields, OthersFollow
  <2> QED BY <1>7, <2>1, <2>2, <2>3 DEF PassBegins
<1>8. CASE PassNext \/ PassBreaks
  <2>1. CASE handler' = handler BY <1>1, <2>1
  <2>2. CASE PassOver(pass.by)
    <3>1. pass.by \in {Nobody, Background} \cup Handlers BY DEF TypeOK
    <3>2. pass.by \in Handlers => handler[pass.by].at = "passing" BY DEF ControlOK, MutexOwners
    <3> QED BY <2>2, <3>1, <3>2, PassOverFollows
  <2> QED BY <1>8, <2>1, <2>2 DEF PassNext, PassBreaks
<1>9. ASSUME NEW w \in Workspaces, Take(w) PROVE Follow
  <2>0. handler[w].at = "idle" /\ w \in Handlers /\ w # Startup /\ inbox[w] # <<>> BY <1>9, TaskFacts DEF Take
  <2>1. CASE TakeRecheck(w)
    <3>1. ToClean(w, w) BY <2>1 DEF TakeRecheck
    <3>2. Follows(w) BY <2>0, <3>1, ToCleanFields DEF Follows, CleanupMoves, Delivering
    <3> QED BY <2>0, <3>1, <3>2, ToCleanFields, OthersFollow
  <2>2. CASE w = Root /\ TakeRoot
    <3>1. CASE handler' = handler BY <1>1, <3>1
    <3>2. CASE Stage(Root, "nudge")
      <4>1. Follows(w) BY <2>0, <2>2, <3>2, StageFields DEF Follows, CleanupMoves, Delivering
      <4> QED BY <2>0, <2>2, <3>2, <4>1, StageFields, OthersFollow
    <3> QED BY <2>2, <3>1, <3>2 DEF TakeRoot
  <2>3. CASE w \in Tasks /\ TakeTask(w)
    <3> DEFINE begun(s) == [Idle EXCEPT !.at = s, !.seen = status[w], !.report = Head(inbox[w]) = "report",
                               !.target = w, !.active = ActiveBelow(w) # {}]
    <3>1. CASE handler' = handler BY <1>1, <3>1
    <3>2. ASSUME NEW s \in {"finalize", "clean", "judge"}, handler' = [handler EXCEPT ![w] = begun(s)]
          PROVE  Follow
      <4>1. begun(s).at = s /\ begun(s).seen = status[w] /\ begun(s).clean = {} BY DEF Idle
      <4> HIDE DEF begun
      <4>2. handler'[w].at = s /\ handler'[w].seen = status[w] /\ handler'[w].clean = {}
        BY <1>0, <2>0, <3>2, <4>1
      <4>3. Follows(w) BY <2>0, <2>3, <4>2 DEF Follows, CleanupMoves, Delivering
      <4>4. \A h \in Handlers : h # w => handler'[h] = handler[h] BY <1>0, <3>2
      <4> QED BY <4>3, <4>4, OthersFollow
    <3>3. \/ handler' = handler
          \/ \E s \in {"finalize", "clean", "judge"} : handler' = [handler EXCEPT ![w] = begun(s)]
      BY <2>3 DEF TakeTask
    <3> HIDE DEF begun
    <3> QED BY <3>1, <3>2, <3>3
  <2> QED BY <1>9, <2>1, <2>2, <2>3 DEF Take
<1>10. CASE Nudge BY <1>0, <1>10, DoneFollows, TaskFacts DEF Nudge, Delivering
<1>11. ASSUME NEW t \in Tasks, Remind(t) PROVE Follow
  BY <1>0, <1>11, DoneFollows, TaskFacts DEF Remind, Delivering
<1>12. ASSUME NEW t \in Tasks, Judge(t) PROVE Follow
  <2>0. handler[t].at = "judge" /\ t \in Workspaces /\ t # Startup BY <1>12, TaskFacts DEF Judge
  <2>1. CASE Done(t) BY <2>0, <2>1, DoneFollows DEF Delivering
  <2>2. ASSUME NEW s \in {"finalize", "remind"}, Stage(t, s) PROVE Follow
    <3>1. Follows(t) BY <1>0, <2>0, <2>2, StageFields DEF Follows, CleanupMoves, Delivering
    <3> QED BY <1>0, <2>0, <2>2, <3>1, StageFields, OthersFollow
  <2> QED BY <1>12, <2>1, <2>2 DEF Judge
<1>13. ASSUME NEW h \in Handlers, Finalize(h) PROVE Follow
  <2>1. CASE Finalized(h) BY <1>13, <2>1, FinalizedFollows DEF Finalize
  <2>2. CASE Stage(h, "persist") /\ ~Finalized(h)
    <3>1. handler[h].at = "finalize" /\ handler[h].target \in Tasks BY <1>13, TargetsAreTasks DEF Finalize
    <3>2. status'[handler[h].target] \in {"reported", "none"}
      BY <1>13, <2>2, <3>1 DEF Finalize, SetStatus, Exists, TypeOK
    <3>3. Follows(h) BY <2>2, <3>1, <3>2, StageFields DEF Follows, CleanupMoves, Delivering
    <3> QED BY <2>2, <3>3, StageFields, OthersFollow
  <2> QED BY <1>13, <2>1, <2>2 DEF Finalize
<1>14. ASSUME NEW h \in Handlers, Persist(h) PROVE Follow
  <2> DEFINE had == AwaitedBy(handler[h].target) # {}
  <2>1. handler' = [handler EXCEPT ![h].at = "pass", ![h].had = had] BY <1>14 DEF Persist
  <2> HIDE DEF had
  <2>2. /\ handler'[h].at = "pass" /\ handler'[h].clean = handler[h].clean
        /\ handler'[h].seen = handler[h].seen
    BY <1>0, <2>1 DEF HandlerType
  <2>3. \A g \in Handlers : g # h => handler'[g] = handler[g] BY <1>0, <2>1
  <2>4. Follows(h) BY <1>14, <2>2 DEF Persist, Follows, CleanupMoves, Delivering
  <2> QED BY <2>3, <2>4, OthersFollow
<1>15. ASSUME NEW h \in Handlers, AfterPass(h) PROVE Follow
  <2>1. CASE Finalized(h) BY <1>15, <2>1, FinalizedFollows DEF AfterPass
  <2>2. CASE Stage(h, "send")
    <3>1. Follows(h) BY <1>15, <2>2, StageFields DEF AfterPass, Follows, CleanupMoves, Delivering
    <3> QED BY <2>2, <3>1, StageFields, OthersFollow
  <2> QED BY <1>15, <2>1, <2>2 DEF AfterPass
<1>16. ASSUME NEW h \in Handlers, ResumeParent(h) PROVE Follow
  BY <1>16, FinalizedFollows DEF ResumeParent
<1>17. ASSUME NEW h \in Handlers, Clean(h) PROVE Follow
  <2>0. handler[h].at = "clean" /\ UNCHANGED <<disk, streaming>> BY <1>17 DEF Clean, streams
  <2>1. CASE h # Startup /\ ~Cleanable(handler[h].target) /\ Done(h)
    <3>1. Follows(h) BY <2>0, <2>1, DoneFields DEF Follows, CleanupMoves, Delivering
    <3> QED BY <2>1, <3>1, DoneFields, OthersFollow
  <2>2. CASE h = Startup /\ ~Cleanable(handler[h].target) /\ Stage(h, "cleanup")
    <3>1. Follows(h) BY <2>0, <2>2, StageFields DEF Follows, CleanupMoves, Delivering
    <3> QED BY <2>2, <3>1, StageFields, OthersFollow
  <2>3. CASE Stage(h, "remove")
    <3>1. Follows(h) BY <2>0, <2>3, StageFields DEF Follows, CleanupMoves, Delivering
    <3> QED BY <2>3, <3>1, StageFields, OthersFollow
  <2> QED BY <1>17, <2>1, <2>2, <2>3 DEF Clean, NothingToClean
<1>18. ASSUME NEW h \in Handlers, Remove(h) PROVE Follow
  <2>0. handler[h].at = "remove" /\ ToClean(h, parent[handler[h].target]) BY <1>18 DEF Remove
  <2>1. status'[handler[h].target] = "none" BY <1>18, <2>0, TargetsAreTasks DEF Remove, SetStatus, TypeOK
  <2>2. Follows(h) BY <2>0, <2>1, ToCleanFields DEF Follows, CleanupMoves, Delivering
  <2> QED BY <2>0, <2>2, ToCleanFields, OthersFollow
<1>19. CASE StartupResumes
  <2> DEFINE e == NextToResume
  <2>1. PICK s \in {"finalize", "restart"} :
          handler' = [handler EXCEPT ![Startup] =
                         [handler[Startup] EXCEPT !.todo = handler[Startup].todo \ {e}, !.target = e[1], !.at = s]]
    BY <1>19 DEF StartupResumes
  <2> HIDE DEF e
  <2>2. /\ handler'[Startup].at = s /\ handler'[Startup].seen = handler[Startup].seen
        /\ handler'[Startup].clean = handler[Startup].clean
    BY <1>0, <2>1 DEF HandlerType
  <2>3. \A g \in Handlers : g # Startup => handler'[g] = handler[g] BY <1>0, <2>1
  <2>4. Follows(Startup) BY <1>0, <1>19, <2>2, TaskFacts DEF StartupResumes, Follows, CleanupMoves, Delivering
  <2> QED BY <2>3, <2>4, OthersFollow
<1>20. CASE StartupPatches
  <2>1. Stage(Startup, "cleanup") /\ handler[Startup].at = "restart" BY <1>20 DEF StartupPatches
  <2>2. Follows(Startup) BY <1>0, <2>1, StageFields, TaskFacts DEF Follows, CleanupMoves, Delivering
  <2> QED BY <1>0, <2>1, <2>2, StageFields, OthersFollow
<1>21. CASE StartupCleans
  <2>0. handler[Startup].at = "cleanup" BY <1>21 DEF StartupCleans
  <2>1. CASE handler[Startup].clean = {} /\ Done(Startup)
    <3>1. Follows(Startup) BY <1>0, <2>0, <2>1, DoneFields, TaskFacts DEF Follows, CleanupMoves, Delivering
    <3> QED BY <1>0, <2>1, <3>1, DoneFields, OthersFollow
  <2>2. ASSUME NEW t, handler' = [handler EXCEPT ![Startup] =
                   [handler[Startup] EXCEPT !.at = "clean", !.target = t, !.clean = handler[Startup].clean \ {t}]]
        PROVE  Follow
    <3>1. /\ handler'[Startup].at = "clean" /\ handler'[Startup].target = t
          /\ handler'[Startup].seen = handler[Startup].seen
          /\ handler'[Startup].clean = handler[Startup].clean \ {t}
      BY <1>0, <2>2 DEF HandlerType
    <3>2. Follows(Startup) BY <1>0, <2>0, <3>1, TaskFacts DEF Follows, CleanupMoves, Delivering
    <3>3. \A g \in Handlers : g # Startup => handler'[g] = handler[g] BY <1>0, <2>2
    <3> QED BY <3>2, <3>3, OthersFollow
  <2> QED BY <1>21, <2>1, <2>2 DEF StartupCleans, Done
<1> QED
  BY <1>1, <1>2, <1>3, <1>4, <1>5, <1>6, <1>7, <1>8, <1>9, <1>10, <1>11, <1>12, <1>13, <1>14, <1>15, <1>16, <1>17, <1>18, <1>19, <1>20, <1>21
     DEF Next, System, HandlerStep, Passes, Cascades, StartupStep, Disturbed

\* How what excuses a task comes and goes: a stream that ends is announced, a patch that is ready is
\* looked at, and who takes an event of a reported task cleans it up.  Patches are begun for final reports.
ExcusesMove(t) ==
    /\ t \in streaming =>
           \/ t \in streaming' \/ inbox'[t] # <<>> \/ Restarted \/ status'[t] = "none"
           \/ past' \cap {"interrupt", "die"} # {}
    /\ inbox[t] # <<>> =>
           \/ inbox'[t] # <<>> \/ Restarted
           \/ status[t] = "reported" => handler'[t].at = "clean" /\ handler'[t].target = t
    /\ patch[t] = "pending" => patch'[t] = "pending" \/ inbox'[t] # <<>>
    /\ patch'[t] # "none" =>
           \/ patch[t] # "none"
           \/ Exists(t) /\ \/ t \in handler[Startup].clean
                           \/ \E h \in Handlers : handler[h].at = "persist" /\ handler[h].target = t

\* An inbox to which an event is added is not empty.
LEMMA PushedInbox ==
    ASSUME TypeOK, NEW w \in Workspaces, NEW e \in {"end", "report", "recheck"}, Push(w, e)
    PROVE  inbox'[w] # <<>> /\ \A v \in Workspaces : v # w => inbox'[v] = inbox[v]
<1>1. inbox[w] \in Seq({"end", "report", "recheck"}) BY DEF TypeOK
<1>2. inbox'[w] = Append(inbox[w], e) BY DEF Push, TypeOK
<1>3. inbox'[w] # <<>> BY <1>1, <1>2
<1> QED BY <1>3 DEF Push, TypeOK

\* What the handler of another workspace takes leaves the events of t, or adds one.
LEMMA TakenInbox ==
    ASSUME TypeOK, NEW w \in Workspaces, Take(w), NEW t \in Workspaces, t # w
    PROVE  inbox'[t] = inbox[t] \/
           (t \in Tasks /\ status[t] = "reported" /\ inbox'[t] = Append(inbox[t], "recheck"))
<1>1. CASE w = Root /\ TakeRoot
  <2> DEFINE rest == [inbox EXCEPT ![Root] = Tail(@)]
             reported == {u \in Tasks : CompletedReport(u) /\ parent[u] = Root}
  <2>1. rest[t] = inbox[t] /\ inbox[t] \in Seq({"end", "report", "recheck"}) BY <1>1 DEF TypeOK
  <2>2. inbox' = rest \/
        inbox' = [v \in Workspaces |-> IF v \in reported THEN Append(rest[v], "recheck") ELSE rest[v]]
    BY <1>1 DEF TakeRoot
  <2>3. t \in reported => t \in Tasks /\ status[t] = "reported" BY DEF CompletedReport
  <2> HIDE DEF rest, reported
  <2> QED BY <2>1, <2>2, <2>3
<1>2. CASE TakeRecheck(w) BY <1>2 DEF TakeRecheck, TypeOK
<1>3. CASE w \in Tasks /\ TakeTask(w) BY <1>3 DEF TakeTask, TypeOK
<1> QED BY <1>1, <1>2, <1>3 DEF Take

\* Every step moves them so.
LEMMA ExcusesStep ==
    ASSUME TypeOK, ControlOK, [Next]_vars, NEW t \in Tasks
    PROVE  ExcusesMove(t)
<1>0. t \in Workspaces /\ t # Root BY TaskFacts
<1>1. ASSUME streaming \subseteq streaming', UNCHANGED <<inbox, patch>> PROVE ExcusesMove(t)
  BY <1>1 DEF ExcusesMove
<1>2. ASSUME NEW w \in Workspaces, CreateBegins(w) \/ CreateEnds(w) \/ FlushQueue(w)
      PROVE  streaming \subseteq streaming' /\ UNCHANGED <<inbox, patch>>
  BY <1>2 DEF CreateBegins, CreateEnds, FlushQueue, streams, disk
<1>3. ASSUME NEW w \in Workspaces, Await(w)
      PROVE  streaming \subseteq streaming' /\ UNCHANGED <<inbox, patch>>
  BY <1>3 DEF Await, streams, disk
<1>4. ASSUME NEW w \in Workspaces, NEW report \in BOOLEAN, StreamEnds(w, report) PROVE ExcusesMove(t)
  <2>1. PICK e \in {"end", "report"} : Push(w, e) BY <1>4 DEF StreamEnds
  <2>2. streaming' = streaming \ {w} /\ patch' = patch BY <1>4 DEF StreamEnds, disk
  <2>3. CASE t = w BY <2>1, <2>2, <2>3, PushedInbox DEF ExcusesMove
  <2>4. CASE t # w
    <3>1. inbox'[t] = inbox[t] BY <1>0, <2>1, <2>4, PushedInbox
    <3> QED BY <2>2, <2>4, <3>1 DEF ExcusesMove
  <2> QED BY <2>3, <2>4
<1>5. ASSUME NEW w \in Workspaces, StreamDies(w) PROVE ExcusesMove(t)
  BY <1>5 DEF StreamDies, Happens, disk, ExcusesMove
<1>6. ASSUME NEW u, (u \in Workspaces /\ AwaitTimesOut(u)) \/ (u \in Tasks /\ UserResumes(u))
      PROVE  streaming \subseteq streaming' /\ UNCHANGED <<inbox, patch>>
  BY <1>6, SendStreams DEF AwaitTimesOut, UserResumes, Send, streams, disk
<1>7. CASE UserSends \/ Nudge
  <2>1. streaming \subseteq streaming' /\ UNCHANGED <<inbox, patch>>
    BY <1>7, SendStreams DEF UserSends, Nudge
  <2> QED BY <1>1, <2>1
<1>8. ASSUME NEW by \in {Background} \cup Handlers, PassBegins(by)
      PROVE  streaming \subseteq streaming' /\ UNCHANGED <<inbox, patch>>
  BY <1>8 DEF PassBegins, streams
<1>9. CASE PassNext \/ PassBreaks \/ CascadeBegins \/ CascadeMarks \/ UNCHANGED vars
  <2>1. streaming \subseteq streaming' /\ UNCHANGED <<inbox, patch>>
    BY <1>9 DEF PassNext, PassBreaks, CascadeBegins, CascadeMarks, vars, streams, disk
  <2> QED BY <1>1, <2>1
<1>10. ASSUME NEW w \in Workspaces, Take(w) PROVE ExcusesMove(t)
  <2>0. UNCHANGED <<streaming, patch>> /\ inbox[w] # <<>> /\ w \in Handlers
    BY <1>10, TaskFacts DEF Take, streams, disk
  <2>1. CASE t # w
    <3>3. Append(inbox[t], "recheck") # <<>>
      <4>1. inbox[t] \in Seq({"end", "report", "recheck"}) BY <1>0 DEF TypeOK
      <4> QED BY <4>1
    <3>1. inbox[t] # <<>> => inbox'[t] # <<>> BY <1>0, <1>10, <2>1, <3>3, TakenInbox
    <3>2. patch[t] = "pending" => patch'[t] = "pending" BY <2>0
    <3> QED BY <2>0, <3>1, <3>2 DEF ExcusesMove
  <2>2. CASE t = w /\ TakeRecheck(w)
    <3>1. ToClean(w, w) BY <2>2 DEF TakeRecheck
    <3>2. handler'[t].at = "clean" /\ handler'[t].target = t BY <2>0, <2>2, <3>1, ToCleanFields
    <3> QED BY <2>0, <3>2 DEF ExcusesMove
  <2>3. CASE t = w /\ TakeTask(w)
    <3> DEFINE begun(s) == [Idle EXCEPT !.at = s, !.seen = status[w], !.report = Head(inbox[w]) = "report",
                               !.target = w, !.active = ActiveBelow(w) # {}]
    <3>1. status[w] = "reported" => handler' = [handler EXCEPT ![w] = begun("clean")]
      BY <2>3 DEF TakeTask
    <3>2. begun("clean").at = "clean" /\ begun("clean").target = w BY DEF Idle
    <3> HIDE DEF begun
    <3>3. status[t] = "reported" => handler'[t].at = "clean" /\ handler'[t].target = t
      BY <2>0, <2>3, <3>1, <3>2 DEF TypeOK
    <3> QED BY <2>0, <3>3 DEF ExcusesMove
  <2> QED BY <1>0, <1>10, <2>1, <2>2, <2>3 DEF Take
<1>11. ASSUME NEW u \in Tasks, Judge(u) \/ Remind(u)
      PROVE  streaming \subseteq streaming' /\ UNCHANGED <<inbox, patch>>
  BY <1>11, SendStreams DEF Judge, Remind, streams
<1>12. ASSUME NEW h \in Handlers, Finalize(h) \/ AfterPass(h) \/ ResumeParent(h) \/ Clean(h)
      PROVE  streaming \subseteq streaming' /\ UNCHANGED <<inbox, patch>>
  BY <1>12, SendStreams DEF Finalize, AfterPass, ResumeParent, Clean, streams, disk
<1>13. ASSUME NEW h \in Handlers, Persist(h) PROVE ExcusesMove(t)
  <2>1. UNCHANGED <<streaming, inbox>> BY <1>13 DEF Persist, streams
  <2>2. CASE patch' = patch BY <1>1, <2>1, <2>2
  <2>3. CASE Exists(handler[h].target) /\ patch' = [patch EXCEPT ![handler[h].target] = "pending"]
    BY <1>13, <2>1, <2>3 DEF Persist, ExcusesMove, TypeOK
  <2> QED BY <1>13, <2>2, <2>3 DEF Persist
<1>14. ASSUME NEW h \in Handlers, Remove(h) PROVE ExcusesMove(t)
  <2>1. UNCHANGED <<inbox, patch>> BY <1>14 DEF Remove
  <2>2. t \in streaming => t \in streaming' \/ status'[t] = "none"
    BY <1>14 DEF Remove, SetStatus, TypeOK
  <2> QED BY <2>1, <2>2 DEF ExcusesMove
<1>15. ASSUME NEW u \in Tasks, PatchDone(u) PROVE ExcusesMove(t)
  <2>1. streaming' = streaming /\ Push(u, "recheck") /\ patch' = [patch EXCEPT ![u] = "ready"] /\ patch[u] = "pending"
    BY <1>15 DEF PatchDone, streams
  <2>2. inbox'[u] # <<>> /\ (t # u => inbox'[t] = inbox[t]) BY <1>0, <2>1, PushedInbox, TaskFacts
  <2> QED BY <2>1, <2>2 DEF ExcusesMove, TypeOK
<1>16. CASE Interrupt BY <1>16 DEF Interrupt, Happens, disk, ExcusesMove
<1>17. CASE CascadeStops
  <2>1. "interrupt" \in past' BY <1>17 DEF CascadeStops, user, ControlOK, InterruptsTraced
  <2> QED BY <1>17, <2>1 DEF CascadeStops, disk, ExcusesMove
<1>18. CASE Crash
  <2>1. handler' = [h \in Handlers |-> IF h = Startup THEN [Idle EXCEPT !.at = "pass"] ELSE Idle]
    BY <1>18 DEF Crash
  <2>2. Restarted BY <2>1, TaskFacts DEF Idle, Restarted
  <2> QED BY <1>18, <2>2 DEF Crash, disk, ExcusesMove
<1>19. CASE StartupResumes \/ StartupCleans
  <2>1. streaming \subseteq streaming' /\ UNCHANGED <<inbox, patch>>
    BY <1>19, SendStreams DEF StartupResumes, StartupCleans, streams, disk
  <2> QED BY <1>1, <2>1
<1>20. CASE StartupPatches
  <2>1. UNCHANGED <<streaming, inbox>> BY <1>20 DEF StartupPatches, streams
  <2>2. CASE patch' = patch BY <1>1, <2>1, <2>2
  <2>3. ASSUME NEW u \in handler[Startup].clean, Exists(u), patch' = [patch EXCEPT ![u] = "pending"]
        PROVE  ExcusesMove(t)
    BY <2>1, <2>3 DEF ExcusesMove, TypeOK
  <2> QED BY <1>20, <2>2, <2>3 DEF StartupPatches
<1> QED
  BY <1>1, <1>2, <1>3, <1>4, <1>5, <1>6, <1>7, <1>8, <1>9, <1>10, <1>11, <1>12, <1>13, <1>14, <1>15, <1>16, <1>17, <1>18, <1>19, <1>20
     DEF Next, System, HandlerStep, Passes, Cascades, StartupStep, StreamStep, Disturbed

\* A task that is idle, without events, stays so.
LEMMA IdleStays ==
    ASSUME TypeOK, ControlOK, [Next]_vars, NEW t \in Tasks, handler[t].at = "idle", inbox[t] = <<>>
    PROVE  handler'[t].at = "idle"
<1>0. t \in Handlers /\ t \in Workspaces /\ t # Startup /\ t # Root /\ handler \in [Handlers -> HandlerType]
  BY TaskFacts DEF TypeOK
<1>1. ASSUME NEW g \in Handlers, handler[g].at # "idle", \A h \in Handlers : h # g => handler'[h] = handler[h]
      PROVE  handler'[t].at = "idle"
  BY <1>0, <1>1
<1>2. ASSUME NEW g \in Handlers, handler[g].at # "idle", (\E s : Stage(g, s)) \/ Done(g) \/ (\E u : ToClean(g, u))
      PROVE  handler'[t].at = "idle"
  BY <1>1, <1>2, StageFields, DoneFields, ToCleanFields
<1>3. ASSUME NEW g \in Handlers, handler[g].at # "idle", Finalized(g) PROVE handler'[t].at = "idle"
  BY <1>2, <1>3 DEF Finalized
<1>4. ASSUME NEW by \in {Nobody, Background} \cup Handlers, by \in Handlers => handler[by].at # "idle", PassOver(by)
      PROVE  handler'[t].at = "idle"
  <2>1. CASE by \in Workspaces \/ (by = Startup /\ handler[by].target # Root)
    <3>1. by \in Handlers /\ Stage(by, "resume") BY <1>4, <2>1, TaskFacts DEF PassOver, Stage
    <3> QED BY <1>2, <1>4, <3>1
  <2>2. CASE by \notin Workspaces /\ by = Startup /\ handler[by].target = Root
    <3>1. handler'[t] = handler[t] BY <1>0, <1>4, <2>2 DEF PassOver
    <3> QED BY <3>1
  <2>3. CASE by \notin Workspaces /\ by # Startup
    <3>1. handler' = handler BY <1>4, <2>3 DEF PassOver
    <3> QED BY <3>1
  <2> QED BY <2>1, <2>2, <2>3
<1>5. CASE handler' = handler BY <1>5
<1>6. ASSUME NEW by \in {Background} \cup Handlers, PassBegins(by) PROVE handler'[t].at = "idle"
  <2>1. by \in Handlers => handler[by].at = "pass" BY <1>6, TaskFacts DEF PassBegins, Due
  <2>2. CASE PassOver(by) BY <1>4, <2>1, <2>2
  <2>3. CASE by # Background /\ handler' = [handler EXCEPT ![by].at = "passing"]
    <3>1. by \in Handlers /\ Stage(by, "passing") BY <1>6, <2>3 DEF Stage
    <3> QED BY <1>2, <2>1, <3>1
  <2> QED BY <1>5, <1>6, <2>2, <2>3 DEF PassBegins
<1>7. CASE PassNext \/ PassBreaks
  <2>1. pass.by \in {Nobody, Background} \cup Handlers BY DEF TypeOK
  <2>2. pass.by \in Handlers => handler[pass.by].at = "passing" BY DEF ControlOK, MutexOwners
  <2> QED BY <1>4, <1>5, <1>7, <2>1, <2>2 DEF PassNext, PassBreaks
<1>8. ASSUME NEW w \in Workspaces, Take(w) PROVE handler'[t].at = "idle"
  <2>0. w # t /\ w \in Handlers BY <1>8, TaskFacts DEF Take
  <2>1. CASE TakeRecheck(w) BY <1>0, <2>0, <2>1, ToCleanFields DEF TakeRecheck
  <2>2. CASE w = Root /\ TakeRoot BY <1>0, <1>5, <2>0, <2>2, StageFields DEF TakeRoot
  <2>3. CASE w \in Tasks /\ TakeTask(w)
    <3>1. handler'[t] = handler[t] BY <1>0, <2>0, <2>3 DEF TakeTask
    <3> QED BY <3>1
  <2> QED BY <1>8, <2>1, <2>2, <2>3 DEF Take
<1>9. ASSUME NEW h \in Handlers, HandlerStep(h) PROVE handler'[t].at = "idle"
  <2>1. CASE Finalize(h) BY <1>2, <1>3, <2>1 DEF Finalize
  <2>2. CASE Persist(h)
    <3>1. \A g \in Handlers : g # h => handler'[g] = handler[g] BY <1>0, <2>2 DEF Persist
    <3> QED BY <1>1, <2>2, <3>1 DEF Persist
  <2>3. CASE AfterPass(h) BY <1>2, <1>3, <2>3 DEF AfterPass
  <2>4. CASE ResumeParent(h) BY <1>3, <2>4 DEF ResumeParent
  <2>5. CASE Clean(h) BY <1>2, <2>5 DEF Clean, NothingToClean
  <2>6. CASE Remove(h) BY <1>2, <2>6 DEF Remove
  <2>7. CASE Judge(h) BY <1>2, <2>7 DEF Judge
  <2>8. CASE Remind(h) BY <1>2, <2>8 DEF Remind
  <2> QED BY <1>8, <1>9, <2>1, <2>2, <2>3, <2>4, <2>5, <2>6, <2>7, <2>8 DEF HandlerStep
<1>10. CASE Nudge BY <1>2, <1>10, TaskFacts DEF Nudge
<1>11. CASE StartupStep
  <2>1. \A h \in Handlers : h # Startup => handler'[h] = handler[h]
    BY <1>0, <1>11 DEF StartupStep, StartupResumes, StartupPatches, StartupCleans, Stage
  <2> QED BY <1>0, <2>1
<1>12. CASE Disturbed
  <2>1. CASE Crash BY <1>0, <2>1 DEF Crash, Idle
  <2> QED BY <1>5, <1>12, <2>1 DEF Disturbed, AwaitTimesOut, UserResumes, StreamDies, UserSends, Interrupt
<1>13. CASE \E w \in Workspaces : CreateBegins(w) \/ CreateEnds(w) \/ StreamStep(w) \/ FlushQueue(w)
  BY <1>5, <1>13 DEF CreateBegins, CreateEnds, StreamStep, Await, StreamEnds, FlushQueue
<1>14. CASE Cascades \/ (\E u \in Tasks : PatchDone(u)) \/ UNCHANGED vars
  BY <1>5, <1>14 DEF Cascades, CascadeBegins, CascadeStops, CascadeMarks, PatchDone, vars
<1> QED BY <1>6, <1>7, <1>9, <1>10, <1>11, <1>12, <1>13, <1>14 DEF Next, System, Passes

\* A send to another workspace, or to a task that cannot be sent anything, does not touch t.
LEMMA SendTouches ==
    ASSUME TypeOK, NEW w \in Workspaces, Send(w), NEW t \in Tasks, t \notin streaming, t \notin queued
    PROVE  \/ t \notin streaming' /\ t \notin queued'
           \/ w = t /\ t \notin queued' /\ Exists(t) /\ status[t] # "queued"
              /\ status'[t] = IF status[t] = "interrupted" THEN "running" ELSE status[t]
  BY DEF TypeOK, Send, SendToIdle, SendToBusy, SendRefused, SetStatus, streams

\* A task without a session gets one with its first stream.
LEMMA UntouchedStep ==
    ASSUME TypeOK, ControlOK, [Next]_vars, NEW t \in Tasks, Untouched(t), patch[t] # "pending",
           status[t] \in {"none", "queued", "interrupted"}
    PROVE  Untouched(t)' \/ status'[t] = "running"
<1>0. t \in Workspaces /\ t # Root BY TaskFacts
<1>1. t \notin streaming /\ t \notin queued /\ inbox[t] = <<>> BY DEF Untouched
<1>2. handler'[t].at = "idle" BY IdleStays DEF Untouched
<1> DEFINE Goal == (t \notin streaming' /\ t \notin queued' /\ inbox'[t] = <<>>) \/ status'[t] = "running"
<1> SUFFICES Goal BY <1>2 DEF Untouched
<1>3. ASSUME streaming' \subseteq streaming, queued' \subseteq queued, inbox' = inbox PROVE Goal
  BY <1>1, <1>3
<1>4. ASSUME NEW w \in Workspaces, Send(w), inbox' = inbox PROVE Goal
  BY <1>1, <1>4, SendTouches DEF Exists
<1> HIDE DEF Goal
<1>5. ASSUME NEW w \in Workspaces, CreateBegins(w) PROVE Goal
  BY <1>3, <1>5 DEF CreateBegins, streams
<1>6. ASSUME NEW w \in Workspaces, CreateEnds(w) PROVE Goal
  <2>1. queued' = queued /\ inbox' = inbox BY <1>6 DEF CreateEnds
  <2>2. CASE streaming' = streaming BY <1>3, <2>1, <2>2
  <2>3. CASE SetStatus(made', "running") /\ streaming' = streaming \cup {made'}
    BY <1>1, <2>1, <2>3 DEF Goal, SetStatus, TypeOK
  <2> QED BY <1>6, <2>2, <2>3 DEF CreateEnds
<1>7. ASSUME NEW w \in Workspaces, StreamStep(w) PROVE Goal
  <2>1. CASE Await(w) BY <1>3, <2>1 DEF Await, streams
  <2>2. ASSUME NEW report \in BOOLEAN, StreamEnds(w, report) PROVE Goal
    <3>1. t # w /\ streaming' \subseteq streaming /\ queued' = queued BY <1>1, <2>2 DEF StreamEnds, CanCall
    <3>2. inbox'[t] = inbox[t] BY <1>0, <2>2, <3>1 DEF StreamEnds, Push, TypeOK
    <3> QED BY <1>1, <3>1, <3>2 DEF Goal
  <2> QED BY <1>7, <2>1, <2>2 DEF StreamStep
<1>8. ASSUME NEW w \in Workspaces, FlushQueue(w) PROVE Goal
  <2>1. t # w BY <1>1, <1>8 DEF FlushQueue
  <2> QED BY <1>1, <1>8, <2>1 DEF Goal, FlushQueue
<1>9. CASE PassNext
  <2> DEFINE u == CHOOSE v \in pass.todo : \A x \in pass.todo : v <= x
  <2>1. queued' = queued /\ inbox' = inbox BY <1>9 DEF PassNext
  <2>2. CASE streaming' = streaming BY <1>3, <2>1, <2>2
  <2>3. CASE SetStatus(u, "running") /\ streaming' = streaming \cup {u}
    <3>1. u \in Tasks
      <4>1. pass.todo \subseteq Tasks /\ pass.todo # {} BY <1>9 DEF PassNext, TypeOK
      <4> QED BY <4>1, OldestIsMember
    <3> HIDE DEF u
    <3>2. t \in streaming' => t = u BY <1>1, <2>3
    <3>3. status'[u] = "running" BY <2>3, <3>1 DEF SetStatus, TypeOK
    <3> QED BY <1>1, <2>1, <3>2, <3>3 DEF Goal
  <2> QED BY <1>9, <2>2, <2>3 DEF PassNext
<1>10. ASSUME NEW w \in Workspaces, Take(w) PROVE Goal
  <2>1. t # w BY <1>1, <1>10 DEF Take
  <2>2. inbox'[t] = inbox[t] BY <1>0, <1>10, <2>1, TakenInbox
  <2> QED BY <1>1, <1>10, <2>2 DEF Goal, Take, streams
<1>11. ASSUME NEW h \in Handlers, HandlerStep(h) PROVE Goal
  <2>1. CASE Finalize(h) \/ Persist(h) \/ AfterPass(h) \/ Clean(h) \/ Judge(h)
    BY <1>3, <2>1 DEF Finalize, Persist, AfterPass, Clean, Judge, streams, disk
  <2>2. CASE ResumeParent(h)
    <3>1. parent[handler[h].target] \in Workspaces BY <2>2, TargetsAreTasks DEF ResumeParent, TypeOK
    <3> QED BY <1>4, <2>2, <3>1 DEF ResumeParent
  <2>3. CASE Remove(h) BY <1>3, <2>3 DEF Remove
  <2>4. CASE h \in Tasks /\ Remind(h) BY <1>4, <2>4, TaskFacts DEF Remind
  <2> QED BY <1>10, <1>11, <2>1, <2>2, <2>3, <2>4 DEF HandlerStep
<1>12. CASE Nudge BY <1>4, <1>12, TaskFacts DEF Nudge
<1>13. CASE StartupStep
  <2>1. CASE StartupResumes
    <3>1. NextToResume \in Tasks \X Statuses
      BY <2>1, NextToResumeIsMember, TaskFacts DEF StartupResumes, TypeOK, HandlerType
    <3>2. NextToResume[1] \in Workspaces BY <3>1, TaskFacts
    <3> QED BY <1>4, <2>1, <3>2 DEF StartupResumes
  <2> QED BY <1>3, <1>13, <2>1 DEF StartupStep, StartupPatches, StartupCleans, streams
<1>14. CASE Disturbed
  <2>1. ASSUME NEW u \in Tasks, UserResumes(u) PROVE Goal
    BY <1>4, <2>1, TaskFacts DEF UserResumes, Send
  <2>2. CASE UserSends BY <1>4, <2>2, TaskFacts DEF UserSends
  <2>3. CASE Crash BY <1>0, <2>3 DEF Goal, Crash
  <2>4. ASSUME NEW u \in Workspaces, AwaitTimesOut(u) PROVE Goal BY <1>3, <2>4 DEF AwaitTimesOut, streams
  <2>5. ASSUME NEW w \in Workspaces, StreamDies(w) PROVE Goal BY <1>3, <2>5 DEF StreamDies
  <2>6. CASE Interrupt BY <1>3, <2>6 DEF Interrupt
  <2> QED BY <1>14, <2>1, <2>2, <2>3, <2>4, <2>5, <2>6 DEF Disturbed
<1>15. CASE Cascades
  BY <1>3, <1>15 DEF Cascades, CascadeBegins, CascadeStops, CascadeMarks, streams
<1>16. ASSUME NEW u \in Tasks, PatchDone(u) PROVE Goal
  <2>1. u # t BY <1>16 DEF PatchDone
  <2>2. inbox'[t] = inbox[t] BY <1>0, <1>16, <2>1 DEF PatchDone, Push, TypeOK
  <2> QED BY <1>1, <1>16, <2>2 DEF Goal, PatchDone, streams
<1>17. CASE PassBreaks \/ UNCHANGED vars BY <1>3, <1>17 DEF PassBreaks, vars, streams
<1>18. ASSUME NEW by \in {Background} \cup Handlers, PassBegins(by) PROVE Goal
  BY <1>3, <1>18 DEF PassBegins, streams
<1> QED
  BY <1>5, <1>6, <1>7, <1>8, <1>9, <1>11, <1>12, <1>13, <1>14, <1>15, <1>16, <1>17, <1>18
     DEF Next, System, Passes

\* The inductive invariant of the cleanup.
CleanIInv == TaskIInv /\ FreshOK /\ SeenOK /\ FinalOK /\ CleansOK

\* What the parts of it have to go by.
LEMMA CleanFacts ==
    ASSUME CleanIInv, [Next]_vars
    PROVE  /\ TypeOK /\ TypeOK' /\ ControlOK /\ ControlOK' /\ TreeMoves
           /\ \A t \in Tasks : StatusMoves(t) /\ ExcusesMove(t)
           /\ \A h \in Handlers : HandlerMoves(h) /\ Follows(h)
           /\ past \subseteq past' /\ (Orderly' => Orderly)
           /\ made \in Nat /\ made' \in Nat /\ made <= made'
           /\ \A t \in 1 .. made : t \in Tasks /\ parent'[t] = parent[t]
<1>1. TaskIInv /\ TaskIInv' BY TaskStep DEF CleanIInv
<1>2. TypeOK /\ TypeOK' /\ ControlOK /\ ControlOK' BY <1>1 DEF TaskIInv
<1>3. TreeMoves /\ (Orderly' => Orderly)
  BY <1>1, StepFacts
<1>4. \A t \in Tasks : StatusMoves(t) /\ ExcusesMove(t) BY <1>1, <1>2, StepFacts, ExcusesStep
<1>5. \A h \in Handlers : HandlerMoves(h) /\ Follows(h) BY <1>1, <1>2, StepFacts, HandlersFollow
<1>6. made \in Nat /\ made' \in Nat /\ made <= made' /\ \A t \in 1 .. made : t \in Tasks /\ parent'[t] = parent[t]
  <2>1. made' \in Nat BY <1>2 DEF TypeOK
  <2> QED BY <1>2, <1>3, <2>1, MadeFacts, AncestryStays DEF ControlOK
<1> QED BY <1>2, <1>3, <1>4, <1>5, <1>6 DEF TreeMoves

\* FreshOK.
LEMMA FreshStep ==
    ASSUME CleanIInv, [Next]_vars
    PROVE  FreshOK'
<1> SUFFICES ASSUME NEW t \in Tasks
             PROVE  /\ t > made' => Untouched(t)' /\ patch'[t] = "none"
                    /\ "interrupt" \notin past' /\ status'[t] \in {"queued", "interrupted"} => Untouched(t)'
  BY DEF FreshOK
<1>0. /\ TypeOK /\ ControlOK /\ Numbered /\ Numbered' /\ StatusMoves(t) /\ ExcusesMove(t)
      /\ past \subseteq past' /\ made \in Nat /\ made' \in Nat /\ made <= made' /\ t \in Nat
  BY CleanFacts, TaskFacts DEF ControlOK
<1>1. t > made => Untouched(t) /\ patch[t] = "none" /\ status[t] = "none"
  BY <1>0 DEF CleanIInv, FreshOK, Numbered
<1>2. CASE t > made'
  <2>1. t > made BY <1>0, <1>2
  <2>2. status'[t] = "none" BY <1>0, <1>2 DEF Numbered
  <2>3. Untouched(t)' BY <1>0, <1>1, <2>1, <2>2, UntouchedStep
  <2>4. patch'[t] = "none" BY <1>0, <1>1, <2>1 DEF ExcusesMove, Exists
  <2> QED BY <1>0, <1>2, <2>2, <2>3, <2>4
<1>3. ASSUME "interrupt" \notin past', status'[t] \in {"queued", "interrupted"} PROVE Untouched(t)'
  <2>1. t > made \/ status[t] \in {"queued", "interrupted"}
    BY <1>0, <1>3 DEF StatusMoves
  <2>2. CASE t > made BY <1>0, <1>1, <1>3, <2>2, UntouchedStep
  <2>3. CASE status[t] \in {"queued", "interrupted"}
    <3>1. "interrupt" \notin past BY <1>0, <1>3
    <3>2. Untouched(t) BY <2>3, <3>1 DEF CleanIInv, FreshOK
    <3>3. patch[t] # "pending" BY <2>3, <3>1 DEF CleanIInv, FinalOK, Orderly, Settled
    <3> QED BY <1>0, <1>3, <2>3, <3>2, <3>3, UntouchedStep
  <2> QED BY <2>1, <2>2, <2>3
<1> QED BY <1>2, <1>3

\* SeenOK.
LEMMA SeenStep ==
    ASSUME CleanIInv, [Next]_vars
    PROVE  SeenOK'
<1> SUFFICES ASSUME "interrupt" \notin past', NEW h \in Handlers PROVE handler'[h].seen # "interrupted"
  BY DEF SeenOK
<1>1. Follows(h) /\ past \subseteq past' BY CleanFacts
<1>2. handler[h].seen # "interrupted" BY <1>1 DEF CleanIInv, SeenOK
<1>3. h \in Tasks /\ status[h] = "interrupted" => inbox[h] = <<>>
  BY <1>1 DEF CleanIInv, FreshOK, Untouched
<1> QED BY <1>1, <1>2, <1>3 DEF Follows

\* What is settled stays so.
LEMMA SettledStays ==
    ASSUME CleanIInv, [Next]_vars, Orderly', NEW t, Settled(t)
    PROVE  Settled(t)'
<1>1. /\ TypeOK /\ t \in Tasks /\ t \in Nat /\ StatusMoves(t) /\ Orderly
      /\ made \in Nat /\ made' \in Nat /\ made <= made'
  BY CleanFacts, TaskFacts DEF Settled
<1>2. status'[t] \in {"reported", "none"} BY <1>1 DEF StatusMoves, Settled, Exists
<1> QED BY <1>1, <1>2 DEF Settled

\* FinalOK.
LEMMA FinalStep ==
    ASSUME CleanIInv, [Next]_vars
    PROVE  FinalOK'
<1> SUFFICES ASSUME Orderly'
             PROVE  /\ \A h \in Handlers : handler'[h].at = "persist" => Settled(handler[h].target)'
                    /\ \A t \in handler'[Startup].clean : Settled(t)'
                    /\ \A t \in Tasks : patch'[t] # "none" => Settled(t)'
  BY DEF FinalOK, Settled
<1>0. Orderly /\ FinalOK /\ FreshOK' /\ TypeOK' /\ made' \in Nat /\ Numbered' /\ StartupOK' /\ HandlersOK'
  BY CleanFacts, FreshStep DEF CleanIInv, ControlOK
<1>1. ASSUME NEW h \in Handlers, handler'[h].at = "persist" PROVE Settled(handler[h].target)'
  <2>0. HandlerMoves(h) /\ Follows(h) BY CleanFacts
  <2>1. CASE handler[h].at = "persist"
    <3>1. handler'[h].target = handler[h].target
      BY <1>1, <2>0, <2>1 DEF HandlerMoves, RecordMoves, GoesOn
    <3>2. Settled(handler[h].target) BY <1>0, <2>1 DEF FinalOK
    <3>3. PICK u : u = handler[h].target OBVIOUS
    <3>4. Settled(u)' BY <3>2, <3>3, SettledStays
    <3> QED BY <3>1, <3>3, <3>4 DEF Settled
  <2>2. CASE handler[h].at # "persist"
    <3>1. status'[handler'[h].target] \in {"reported", "none"} BY <1>1, <2>0, <2>2 DEF Follows
    <3>2. handler'[h].target \in 1 .. made'
      <4>1. CASE h = Startup BY <1>0, <1>1, <4>1 DEF StartupOK
      <4>2. CASE h \in Workspaces
        <5>1. h \in Tasks /\ handler'[h].target = h BY <1>0, <1>1, <4>2 DEF HandlersOK, OwnTask
        <5>2. ~(h > made') BY <1>0, <1>1, <5>1 DEF FreshOK, Untouched
        <5> QED BY <1>0, <5>1, <5>2, TaskFacts DEF Tasks
      <4> QED BY <4>1, <4>2, TaskFacts
    <3> QED BY <3>1, <3>2 DEF Settled
  <2> QED BY <2>1, <2>2
<1>2. ASSUME NEW t \in handler'[Startup].clean PROVE Settled(t)'
  <2>0. Follows(Startup) BY CleanFacts, TaskFacts
  <2>1. CASE t \in handler[Startup].clean
    <3>1. Settled(t) BY <1>0, <2>1 DEF FinalOK
    <3> QED BY <3>1, SettledStays
  <2>2. CASE status'[t] = "reported"
    <3>1. t \in Tasks BY <1>0, <1>2, TaskFacts DEF TypeOK, HandlerType
    <3>2. ~(t > made') BY <1>0, <2>2, <3>1 DEF Numbered
    <3> QED BY <1>0, <2>2, <3>1, <3>2, TaskFacts DEF Settled, Tasks
  <2> QED BY <1>2, <2>0, <2>1, <2>2 DEF Follows
<1>3. ASSUME NEW t \in Tasks, patch'[t] # "none" PROVE Settled(t)'
  <2>1. ExcusesMove(t) BY CleanFacts
  <2>2. Settled(t) BY <1>0, <1>3, <2>1 DEF ExcusesMove, FinalOK
  <2> QED BY <2>2, SettledStays
<1> QED BY <1>1, <1>2, <1>3

\* CleansOK: whatever excuses a reported task is followed by another excuse.
LEMMA CleansStep ==
    ASSUME CleanIInv, [Next]_vars
    PROVE  CleansOK'
<1> SUFFICES ASSUME past' \cap {"interrupt", "die"} = {}, NEW t \in Tasks, status'[t] = "reported"
             PROVE  Excused(t)'
  BY DEF CleansOK
<1>0. /\ TypeOK /\ TypeOK' /\ Numbered /\ StartupOK /\ HandlersOK /\ StatusMoves(t) /\ ExcusesMove(t)
      /\ past \cap {"interrupt", "die"} = {} /\ Orderly
      /\ t \in Handlers /\ t \in Workspaces /\ Startup \in Handlers
  BY CleanFacts, TaskFacts DEF ControlOK, Orderly
<1>1. CASE Restarted BY <1>1 DEF Restarted, Excused
<1>2. CASE status[t] # "reported"
  <2>1. Exists(t) /\ \E h \in Handlers : /\ handler[h].at = "finalize" /\ handler[h].target = t
                                         /\ handler'[h].at = "persist"
    BY <1>0, <1>2 DEF StatusMoves
  <2>2. PICK h \in Handlers : handler[h].at = "finalize" /\ handler[h].target = t /\ handler'[h].at = "persist"
    BY <2>1
  <2>3. h = t BY <1>0, <2>1, <2>2, TaskFacts DEF StartupOK, HandlersOK, OwnTask
  <2> QED BY <2>2, <2>3 DEF Excused, Delivering
<1>3. CASE status[t] = "reported" /\ ~Restarted
  <2>0. Excused(t) BY <1>0, <1>3 DEF CleanIInv, CleansOK
  <2>1. CASE t \in streaming BY <1>0, <1>3, <2>1 DEF ExcusesMove, Excused
  <2>2. CASE HasChildren(t)
    <3>1. PICK c \in Tasks : Exists(c) /\ parent[c] = t BY <2>2 DEF HasChildren
    <3>2. c \in 1 .. made /\ parent'[c] = t
      <4>1. c \in Nat /\ ~(c > made) BY <1>0, <3>1, TaskFacts DEF Numbered, Exists
      <4>2. c \in 1 .. made BY <4>1, CleanFacts DEF Tasks
      <4> QED BY <3>1, <4>2, CleanFacts
    <3>3. CASE status'[c] # "none"
      <4>1. HasChildren(t)' BY <3>2, <3>3 DEF HasChildren, Exists
      <4> QED BY <4>1 DEF Excused
    <3>4. CASE status'[c] = "none"
      <4>1. StatusMoves(c) BY CleanFacts
      <4>2. \E h \in Handlers : handler'[h].at = "clean" /\ handler'[h].target = t
        BY <1>0, <3>1, <3>4, <4>1 DEF StatusMoves, Exists
      <4> QED BY <4>2 DEF Excused
    <3> QED BY <3>3, <3>4
  <2>3. CASE patch[t] = "pending" BY <1>0, <2>3 DEF ExcusesMove, Excused
  <2>4. CASE inbox[t] # <<>> BY <1>0, <1>3, <2>4 DEF ExcusesMove, Excused
  <2>5. CASE handler[t].at \in Delivering
    <3>1. Follows(t) BY <1>0, CleanFacts
    <3>2. handler[t].target = t BY <1>0, <2>5 DEF HandlersOK, OwnTask, Delivering
    <3>3. handler[t].seen # "interrupted" BY <1>0 DEF CleanIInv, SeenOK
    <3> QED BY <1>0, <1>3, <2>5, <3>1, <3>2, <3>3 DEF Follows, CleanupMoves, Excused
  <2>6. ASSUME NEW h \in Handlers, handler[h].at \in {"clean", "remove"}, handler[h].target = t PROVE Excused(t)'
    <3>1. Follows(h) BY CleanFacts
    <3>2. CASE handler'[h].at \in {"clean", "remove"} /\ handler'[h].target = t BY <3>2 DEF Excused
    <3>3. CASE handler[h].at = "clean" /\ ~Cleanable(t) /\ UNCHANGED <<disk, streaming>>
      <4>1. t \in streaming \/ HasChildren(t) \/ patch[t] = "pending"
        BY <1>3, <3>3 DEF Cleanable, CompletedReport
      <4>2. UNCHANGED <<status, parent, patch>> BY <3>3 DEF disk
      <4> QED BY <3>3, <4>1, <4>2 DEF Excused, HasChildren, Exists
    <3> QED BY <1>3, <2>6, <3>1, <3>2, <3>3 DEF Follows, CleanupMoves
  <2>7. CASE handler[Startup].at # "idle" /\ t \in handler[Startup].clean
    <3>1. Follows(Startup) BY <1>0, CleanFacts
    <3> QED BY <1>0, <1>3, <2>7, <3>1 DEF Follows, CleanupMoves, Excused
  <2>8. CASE handler[Startup].at \in {"pass", "passing"} /\ handler[Startup].target = Root
    <3>1. Follows(Startup) BY <1>0, CleanFacts
    <3> QED BY <1>0, <1>3, <2>8, <3>1 DEF Follows, CleanupMoves, Excused
  <2> QED BY <2>0, <2>1, <2>2, <2>3, <2>4, <2>5, <2>6, <2>7, <2>8 DEF Excused
<1> QED BY <1>1, <1>2, <1>3

\* The invariant of the cleanup.
LEMMA CleanInvariant == Spec => []CleanIInv
<1>1. Init => CleanIInv
  <2> SUFFICES ASSUME Init PROVE CleanIInv
    OBVIOUS
  <2>1. \A h \in Handlers : handler[h].at = "idle" /\ handler[h].seen = "none" /\ handler[h].clean = {}
    BY DEF Init, Idle
  <2>2. /\ streaming = {Root} /\ queued = {} /\ \A w \in Workspaces : inbox[w] = <<>>
        /\ \A t \in Tasks : status[t] = "none" /\ patch[t] = "none"
    BY DEF Init
  <2>3. FreshOK /\ SeenOK /\ FinalOK /\ CleansOK
    BY <2>1, <2>2, TaskFacts DEF FreshOK, Untouched, SeenOK, FinalOK, CleansOK
  <2> QED BY <2>3, TaskInit DEF CleanIInv
<1>2. CleanIInv /\ [Next]_vars => CleanIInv'
  <2> SUFFICES ASSUME CleanIInv, [Next]_vars PROVE CleanIInv'
    OBVIOUS
  <2>1. TaskIInv' BY TaskStep DEF CleanIInv
  <2> QED BY <2>1, FreshStep, SeenStep, FinalStep, CleansStep DEF CleanIInv
<1> QED BY <1>1, <1>2, PTL DEF Spec

\* A reported task is not forgotten: whatever it waits for - its stream, its children, its patch, a
\* handler between two awaits, a restart - is followed by another look at it, unless a hard interrupt
\* or a stream that dies comes between (taskService.ts:4638).
THEOREM ReportedAreCleanedUp == Spec => []CleanedUp
<1>1. CleanIInv => CleanedUp
  <2> SUFFICES ASSUME CleanIInv, Stalled, past \cap {"interrupt", "die"} = {}, NEW t \in Tasks, Cleanable(t)
               PROVE  FALSE
    BY DEF CleanedUp
  <2>1. status[t] = "reported" /\ t \notin streaming /\ ~HasChildren(t) /\ patch[t] # "pending"
    BY DEF Cleanable, CompletedReport
  <2>2. Excused(t) BY <2>1 DEF CleanIInv, CleansOK
  <2>3. \A h \in Handlers : handler[h].at = "idle" BY DEF Stalled
  <2>4. inbox[t] = <<>> BY TaskFacts DEF Stalled
  <2> QED BY <2>1, <2>2, <2>3, <2>4, TaskFacts DEF Excused, Delivering
<1> QED BY <1>1, CleanInvariant, PTL

-----------------------------------------------------------------------------
(* The queue: where every task is while nothing is out of order *)

\* Where a task is between its start and its report: at work, in a stream that ended, or judged.
AtWork(t) == t \in streaming /\ inbox[t] = <<>> /\ handler[t].at = "idle"
Ended(t) == t \notin streaming /\ handler[t].at = "idle" /\ \E e \in {"end", "report"} : inbox[t] = <<e>>
Judged(t) == /\ t \notin streaming /\ inbox[t] = <<>> /\ ~handler[t].active
             /\ handler[t].at \in {"judge", "remind", "finalize"}
             /\ handler[t].at = "remind" => status[t] = "awaiting_report"
Started(t) == status[t] \in {"running", "awaiting_report"}
Phase(t) ==
    /\ t \notin queued
    /\ Started(t) => AtWork(t) \/ Ended(t) \/ Judged(t)
    /\ ~Started(t) => /\ t \notin streaming /\ handler[t].at \notin {"judge", "remind", "finalize"}
                      /\ \A i \in DOMAIN inbox[t] : inbox[t][i] = "recheck"

ParentsWork ==
    /\ \A t \in Tasks : status[t] \in Active /\ parent[t] \in Tasks =>
                            status[parent[t]] = "running" /\ parent[t] \in streaming
    /\ \A w \in making \cap Tasks : status[w] = "running" /\ w \in streaming
WaitsOK ==
    /\ \A p \in waiting : status[p[2]] \in Active \/ handler[p[2]].at = "persist"
    /\ \A p \in waiting : p[1] \in Tasks => status[p[1]] = "running" /\ p[1] \in streaming
PassOK == pass.by # Nobody => making = {} /\ \A t \in Tasks : status[t] = "queued" => t \in pass.todo
PassDue == kick \/ pass.by # Nobody \/ \E h \in Handlers : handler[h].at \in {"persist", "pass"}
QueueOK == (\E t \in Tasks : status[t] = "queued") => PassDue \/ Counted # {} \/ SlotUnused
Calm == (\A t \in Tasks : Phase(t)) /\ ParentsWork /\ WaitsOK /\ PassOK /\ QueueOK
CalmOK == ~OutOfOrder => Calm

\* The inductive invariant of the queue.
QueueIInv == CleanIInv /\ CalmOK

\* The parent of a task is one of its ancestors, ...
LEMMA ParentIsAbove ==
    ASSUME TypeOK, NEW t \in Tasks
    PROVE  parent[t] \in Above[t]
  BY DEF TypeOK, Above, Chain

\* ... and while nothing is out of order, all the ancestors of an active task are at work.
LEMMA AncestorsWork ==
    ASSUME TypeOK, ParentsWork, NEW c \in Tasks, status[c] \in Active, NEW w \in Above[c], w \in Tasks
    PROVE  status[w] = "running" /\ w \in streaming
<1> DEFINE working == {v \in Workspaces : v \in Tasks => status[v] = "running" /\ v \in streaming}
<1>1. parent[c] \in working BY DEF TypeOK, ParentsWork
<1>2. ASSUME NEW u \in working \cap Tasks PROVE parent[u] \in working
  BY <1>2 DEF TypeOK, ParentsWork, Active
<1>3. Chain(c, working) BY <1>1, <1>2 DEF Chain
<1>4. w \in working
  <2>1. \A ws \in SUBSET Workspaces : Chain(c, ws) => w \in ws BY DEF Above
  <2>2. working \in SUBSET Workspaces OBVIOUS
  <2> QED BY <1>3, <2>1, <2>2
<1> QED BY <1>4

\* So nothing is active below a task without a stream.
LEMMA NothingBelow ==
    ASSUME TypeOK, ParentsWork, NEW t \in Tasks, t \notin streaming
    PROVE  ActiveBelow(t) = {}
<1> SUFFICES ASSUME NEW c \in ActiveBelow(t) PROVE FALSE
  OBVIOUS
<1>1. c \in Tasks /\ t \in Above[c] /\ status[c] \in Active BY DEF ActiveBelow, Below
<1> QED BY <1>1, AncestorsWork

\* What holds before a step after which nothing is out of order.
LEMMA CalmFacts ==
    ASSUME QueueIInv, [Next]_vars, ~OutOfOrder'
    PROVE  /\ Calm /\ ~OutOfOrder /\ ParentsExist
           /\ \A t \in Tasks : status[t] # "interrupted" /\ (patch[t] # "none" => ~Started(t))
           /\ handler[Startup].at = "idle" /\ cascade.at = "idle"
           /\ \A h \in Handlers :
                  handler[h].at = "remove" => status[handler[h].target] \in {"reported", "none"}
<1>1. past \subseteq past' /\ ControlOK BY CleanFacts DEF QueueIInv
<1>2. ~OutOfOrder BY <1>1 DEF OutOfOrder
<1>3. \A e \in {"early", "stray", "die", "fail", "interrupt", "crash", "late"} : e \notin past
  BY <1>2 DEF OutOfOrder
<1>4. Orderly /\ Alive /\ past \cap {"interrupt", "fail"} = {} BY <1>3 DEF Orderly, Alive
<1>5. ParentsExist BY <1>4 DEF QueueIInv, CleanIInv, TaskIInv
<1>6. \A t \in Tasks : status[t] # "interrupted" BY <1>1, <1>4 DEF ControlOK, InterruptsTraced
<1>7. \A t \in Tasks : patch[t] # "none" => ~Started(t)
  BY <1>4 DEF QueueIInv, CleanIInv, FinalOK, Settled, Started
<1>8. handler[Startup].at = "idle" /\ cascade.at = "idle"
  BY <1>1, <1>3 DEF ControlOK, StartupOK, InterruptsTraced
<1>9. \A h \in Handlers : handler[h].at = "remove" => status[handler[h].target] \in {"reported", "none"}
  BY <1>1, <1>4 DEF ControlOK, HandlersOK, RemovesReported
<1> QED BY <1>2, <1>5, <1>6, <1>7, <1>8, <1>9 DEF QueueIInv, CalmOK

-----------------------------------------------------------------------------
(* What a step may do to a task while nothing is out of order *)

\* Its stream, queue and status stay.
SessionStays(t) ==
    /\ status'[t] = status[t]
    /\ t \in streaming' <=> t \in streaming
    /\ t \in queued' <=> t \in queued
\* Its handler is not about a stream that ended.
Beside(t) == handler'[t].at \notin {"judge", "remind", "finalize"}
EventsStay(t) ==
    \/ inbox'[t] = inbox[t]
    \/ ~Started(t) /\ inbox'[t] = Append(inbox[t], "recheck")
    \/ ~Started(t) /\ inbox[t] # <<>> /\ inbox'[t] = Tail(inbox[t])

\* Nothing but the delivery of its report and its cleanup; ...
Rests(t) ==
    /\ SessionStays(t) /\ EventsStay(t)
    /\ handler'[t] = handler[t] \/ (~Started(t) /\ Beside(t))
\* it is queued, or it starts; ...
IsQueued(t) ==
    /\ made' = t /\ t = made + 1 /\ status'[t] = "queued"
    /\ t \in streaming' <=> t \in streaming
    /\ UNCHANGED <<queued, inbox, handler>> /\ kick' = TRUE /\ pass' = NoPass
Starts(t) ==
    /\ (made' = t /\ t = made + 1) \/ status[t] = "queued"
    /\ status'[t] = "running" /\ t \in streaming'
    /\ UNCHANGED <<queued, inbox>> /\ handler'[t] = handler[t]
\* its stream ends; ...
Ends(t) ==
    /\ t \in streaming /\ t \notin streaming' /\ t \notin making /\ ~Blocked(t) /\ ActiveBelow(t) = {}
    /\ \E e \in {"end", "report"} : inbox'[t] = Append(inbox[t], e)
    /\ UNCHANGED <<status, queued, handler>>
\* the end is handled: judged, and followed by a reminder or by the report; ...
IsTaken(t) ==
    /\ Ended(t) /\ SessionStays(t) /\ inbox'[t] = Tail(inbox[t])
    /\ handler'[t].at = "judge" /\ ~handler'[t].active
IsJudged(t) ==
    /\ handler[t].at = "judge" /\ handler'[t].active = handler[t].active
    /\ UNCHANGED <<streaming, queued, inbox>>
    /\ \/ handler'[t].at = "finalize" /\ status' = status
       \/ handler'[t].at = "remind" /\ status'[t] = "awaiting_report"
GoesOnWorking(t) ==
    /\ handler[t].at = "remind" /\ handler'[t].at = "idle"
    /\ status'[t] = "awaiting_report" /\ t \in streaming' /\ UNCHANGED inbox
    /\ t \in queued' <=> t \in queued
Reports(t) ==
    /\ handler[t].at = "finalize" /\ handler'[t].at = "persist" /\ status'[t] = "reported"
    /\ UNCHANGED <<streaming, queued, inbox>>
\* or it is removed.
IsRemoved(t) ==
    /\ status[t] \in {"reported", "none"} /\ status'[t] = "none" /\ Beside(t) /\ UNCHANGED inbox
    /\ t \notin streaming' /\ t \notin queued'

CalmMoves(t) ==
    \/ Rests(t) \/ IsQueued(t) \/ Starts(t) \/ Ends(t) \/ IsTaken(t) \/ IsJudged(t)
    \/ GoesOnWorking(t) \/ Reports(t) \/ IsRemoved(t)

\* A step of another handler leaves the one of t as it is.
LEMMA OtherHandlers ==
    ASSUME TypeOK, NEW g \in Handlers, NEW t, t \in Handlers, t # g,
           (\E s : Stage(g, s)) \/ Done(g) \/ (\E u : ToClean(g, u)) \/ Finalized(g)
    PROVE  handler'[t] = handler[t]
  BY StageFields, DoneFields, ToCleanFields DEF Finalized

\* A pass that is over sends the handler on that waited for it, and no other.
LEMMA PassOverOthers ==
    ASSUME TypeOK, NEW by \in {Nobody, Background} \cup Handlers, PassOver(by), NEW t \in Tasks
    PROVE  handler'[t] = handler[t] \/ (by = t /\ handler'[t].at = "resume")
<1>0. t \in Handlers /\ t \in Workspaces /\ t # Startup BY TaskFacts
<1>1. CASE by \in Workspaces \/ (by = Startup /\ handler[by].target # Root)
  <2>1. by \in Handlers /\ Stage(by, "resume") BY <1>1, TaskFacts DEF PassOver, Stage
  <2> QED BY <1>0, <2>1, StageFields
<1>2. CASE by \notin Workspaces /\ by = Startup /\ handler[by].target = Root
  BY <1>0, <1>2 DEF PassOver, TypeOK
<1>3. CASE by \notin Workspaces /\ by # Startup
  BY <1>3 DEF PassOver
<1> QED BY <1>1, <1>2, <1>3

\* A send to the root workspace leaves the tasks alone.
LEMMA RootSend ==
    ASSUME Send(Root), NEW t \in Tasks
    PROVE  SessionStays(t)
  BY TaskFacts DEF Send, SendToIdle, SendToBusy, SendRefused, SessionStays, streams

\* Every step moves every task so.
LEMMA CalmStep ==
    ASSUME QueueIInv, [Next]_vars, ~OutOfOrder', NEW t \in Tasks
    PROVE  CalmMoves(t)
<1>0. /\ TypeOK /\ ControlOK /\ HandlersOK /\ Calm /\ Phase(t) /\ ParentsWork
      /\ t \in Workspaces /\ t \in Handlers /\ t # Root /\ t # Startup
      /\ status \in [Tasks -> Statuses] /\ inbox \in [Workspaces -> Seq({"end", "report", "recheck"})]
      /\ handler \in [Handlers -> HandlerType]
      /\ made \in Nat
  BY CleanFacts, CalmFacts, TaskFacts DEF QueueIInv, Calm, ControlOK, TypeOK
<1>1. \A e \in {"early", "stray", "die", "fail", "interrupt", "crash", "late"} : e \notin past'
  BY DEF OutOfOrder
<1>2. /\ status[t] # "interrupted" /\ (patch[t] # "none" => ~Started(t))
      /\ handler[Startup].at = "idle" /\ cascade.at = "idle"
  BY CalmFacts
<1>3. handler[t].at \in {"persist", "pass", "passing", "resume", "send", "clean", "remove"} => ~Started(t)
  <2>1. Started(t) => handler[t].at \in {"idle", "judge", "remind", "finalize"}
    BY <1>0 DEF Phase, AtWork, Ended, Judged
  <2> QED BY <2>1
<1>4. ASSUME SessionStays(t), inbox'[t] = inbox[t], handler'[t] = handler[t] PROVE CalmMoves(t)
  BY <1>4 DEF CalmMoves, Rests, EventsStay
<1>5. ASSUME SessionStays(t), inbox'[t] = inbox[t], ~Started(t), Beside(t) PROVE CalmMoves(t)
  BY <1>5 DEF CalmMoves, Rests, EventsStay
<1>6. UNCHANGED <<status, streams>> => SessionStays(t) BY DEF SessionStays, streams
<1>7. ASSUME NEW w \in Workspaces, CreateBegins(w) PROVE CalmMoves(t)
  BY <1>4, <1>6, <1>7 DEF CreateBegins, disk
<1>8. ASSUME NEW w \in Workspaces, CreateEnds(w) PROVE CalmMoves(t)
  <2>1. /\ made' = made + 1 /\ UNCHANGED <<queued, inbox, handler>> /\ pass' = NoPass
        /\ \/ SetStatus(made', "queued") /\ kick' = TRUE /\ streaming' = streaming
           \/ SetStatus(made', "running") /\ streaming' = streaming \cup {made'}
    BY <1>1, <1>8 DEF CreateEnds, Happens, marks
  <2>2. CASE t = made' /\ SetStatus(made', "queued") /\ kick' = TRUE /\ streaming' = streaming
    BY <1>0, <2>1, <2>2 DEF SetStatus, CalmMoves, IsQueued
  <2>3. CASE t = made' /\ SetStatus(made', "running") /\ streaming' = streaming \cup {made'}
    BY <1>0, <2>1, <2>3 DEF SetStatus, CalmMoves, Starts
  <2>4. CASE t # made'
    <3>1. SessionStays(t) BY <1>0, <2>1, <2>4 DEF SetStatus, SessionStays
    <3> QED BY <1>4, <2>1, <3>1
  <2> QED BY <2>1, <2>2, <2>3, <2>4
<1>9. ASSUME NEW w \in Workspaces, StreamStep(w) PROVE CalmMoves(t)
  <2>1. CASE Await(w)
    BY <1>4, <1>6, <2>1 DEF Await, disk
  <2>2. ASSUME NEW report \in BOOLEAN, StreamEnds(w, report) PROVE CalmMoves(t)
    <3>1. /\ w \in streaming /\ w \notin making /\ ~Blocked(w) /\ streaming' = streaming \ {w}
          /\ UNCHANGED <<status, queued, handler>>
          /\ w \in Tasks => ActiveBelow(w) = {}
      BY <1>1, <2>2 DEF StreamEnds, CanCall, Happens, disk
    <3>2. PICK e \in {"end", "report"} : inbox' = [inbox EXCEPT ![w] = Append(@, e)]
      BY <2>2 DEF StreamEnds, Push
    <3>3. CASE t = w BY <1>0, <3>1, <3>2, <3>3 DEF CalmMoves, Ends
    <3>4. CASE t # w
      <4>1. SessionStays(t) /\ inbox'[t] = inbox[t] BY <1>0, <3>1, <3>2, <3>4 DEF SessionStays
      <4> QED BY <1>4, <3>1, <4>1
    <3> QED BY <3>3, <3>4
  <2> QED BY <1>9, <2>1, <2>2 DEF StreamStep
<1>10. ASSUME NEW w \in Workspaces, FlushQueue(w) PROVE CalmMoves(t)
  <2>1. t # w BY <1>0, <1>10 DEF FlushQueue, Phase
  <2>2. SessionStays(t) BY <1>10, <2>1 DEF FlushQueue, SessionStays, disk
  <2> QED BY <1>4, <1>10, <2>2 DEF FlushQueue
<1>11. ASSUME Send(Root), UNCHANGED <<inbox, handler>> PROVE CalmMoves(t)
  BY <1>4, <1>11, RootSend
<1>12. CASE Disturbed
  <2>1. ASSUME NEW u \in Workspaces, AwaitTimesOut(u) PROVE CalmMoves(t)
    BY <1>4, <1>6, <2>1 DEF AwaitTimesOut, disk
  <2>2. ASSUME NEW u \in Tasks, UserResumes(u) PROVE FALSE
    BY <2>2, CalmFacts DEF UserResumes
  <2>3. ASSUME NEW w \in Workspaces, StreamDies(w) PROVE FALSE BY <1>1, <2>3 DEF StreamDies, Happens
  <2>4. CASE UserSends BY <1>11, <2>4 DEF UserSends
  <2>5. ASSUME Interrupt \/ Crash PROVE FALSE BY <1>1, <2>5 DEF Interrupt, Crash, Happens
  <2> QED BY <1>12, <2>1, <2>2, <2>3, <2>4, <2>5 DEF Disturbed
<1>13. ASSUME NEW by \in {Nobody, Background} \cup Handlers, PassOver(by),
              by \in Handlers => handler[by].at \in {"pass", "passing"}
       PROVE  handler'[t] = handler[t] \/ (~Started(t) /\ Beside(t) /\ handler[t].at \in {"pass", "passing"})
  <2>1. handler'[t] = handler[t] \/ (by = t /\ handler'[t].at = "resume") BY <1>0, <1>13, PassOverOthers
  <2> QED BY <1>0, <1>3, <1>13, <2>1 DEF Beside
<1>14. ASSUME NEW by \in {Background} \cup Handlers, PassBegins(by) PROVE CalmMoves(t)
  <2>1. UNCHANGED <<status, streams, inbox>> BY <1>14 DEF PassBegins
  <2>2. by \in Handlers => handler[by].at = "pass" BY <1>14, TaskFacts DEF PassBegins, Due
  <2>3. CASE PassOver(by) BY <1>4, <1>5, <1>6, <1>13, <2>1, <2>2, <2>3
  <2>4. CASE handler' = handler BY <1>4, <1>6, <2>1, <2>4
  <2>5. CASE by # Background /\ handler' = [handler EXCEPT ![by].at = "passing"]
    <3>1. handler'[t] = handler[t] \/ (by = t /\ handler'[t].at = "passing")
      BY <1>0, <2>5 DEF HandlerType
    <3>2. by = t => ~Started(t) BY <1>0, <1>3, <2>2
    <3> QED BY <1>4, <1>5, <1>6, <2>1, <3>1, <3>2 DEF Beside
  <2> QED BY <1>14, <2>3, <2>4, <2>5 DEF PassBegins
<1>15. pass.by \in {Nobody, Background} \cup Handlers /\ (pass.by \in Handlers => handler[pass.by].at = "passing")
  BY <1>0 DEF TypeOK, ControlOK, MutexOwners
<1>16. CASE PassBreaks
  <2>1. UNCHANGED <<status, streams, inbox>> /\ PassOver(pass.by) BY <1>16 DEF PassBreaks
  <2> QED BY <1>4, <1>5, <1>6, <1>13, <1>15, <2>1
<1>17. CASE PassNext
  <2> DEFINE u == CHOOSE v \in pass.todo : \A x \in pass.todo : v <= x
  <2>1. UNCHANGED <<queued, inbox>> /\ (PassOver(pass.by) \/ handler' = handler) BY <1>17 DEF PassNext
  <2>2. \/ UNCHANGED <<status, streaming>>
        \/ status[u] = "queued" /\ SetStatus(u, "running") /\ streaming' = streaming \cup {u}
    BY <1>1, <1>17 DEF PassNext, Happens
  <2> HIDE DEF u
  <2>3. handler'[t] = handler[t] \/ (~Started(t) /\ Beside(t) /\ handler[t].at \in {"pass", "passing"})
    BY <1>13, <1>15, <2>1
  <2>4. CASE t # u \/ UNCHANGED <<status, streaming>>
    <3>1. SessionStays(t) BY <1>0, <2>1, <2>2, <2>4 DEF SetStatus, SessionStays
    <3> QED BY <1>4, <1>5, <2>1, <2>3, <3>1
  <2>5. CASE t = u /\ status[u] = "queued" /\ SetStatus(u, "running") /\ streaming' = streaming \cup {u}
    <3>1. handler[t].at = "idle"
      BY <1>2, <2>5, CalmFacts, CleanFacts DEF QueueIInv, CleanIInv, FreshOK, Untouched, OutOfOrder
    <3> QED BY <1>0, <2>1, <2>3, <2>5, <3>1 DEF SetStatus, CalmMoves, Starts
  <2> QED BY <2>2, <2>4, <2>5
<1>18. ASSUME NEW w \in Workspaces, Take(w) PROVE CalmMoves(t)
  <2>1. SessionStays(t) /\ w \in Handlers /\ handler[w].at = "idle" /\ inbox[w] # <<>>
    BY <1>6, <1>18, TaskFacts DEF Take, disk
  <2>2. CASE t # w
    <3>1. handler'[t] = handler[t]
      <4>1. CASE TakeRecheck(w) BY <1>0, <2>1, <2>2, <4>1, OtherHandlers DEF TakeRecheck
      <4>2. CASE w = Root /\ TakeRoot BY <1>0, <2>1, <2>2, <4>2, OtherHandlers DEF TakeRoot
      <4>3. CASE w \in Tasks /\ TakeTask(w) BY <1>0, <2>1, <2>2, <4>3 DEF TakeTask
      <4> QED BY <1>18, <4>1, <4>2, <4>3 DEF Take
    <3>2. EventsStay(t) BY <1>0, <1>18, <2>2, TakenInbox DEF EventsStay, Started
    <3> QED BY <2>1, <3>1, <3>2 DEF CalmMoves, Rests
  <2>3. CASE t = w /\ ~Started(t)
    <3>1. Head(inbox[t]) = "recheck"
      <4>1. \A i \in DOMAIN inbox[t] : inbox[t][i] = "recheck" BY <1>0, <2>3 DEF Phase
      <4> QED BY <1>0, <2>1, <2>3, <4>1
    <3>2. ToClean(t, t) /\ inbox'[t] = Tail(inbox[t])
      BY <1>0, <1>18, <2>3, <3>1 DEF Take, TakeRecheck, TakeTask
    <3>3. Beside(t) BY <1>0, <3>2, ToCleanFields DEF Beside
    <3> QED BY <2>1, <2>3, <3>2, <3>3 DEF CalmMoves, Rests, EventsStay
  <2>4. CASE t = w /\ Started(t)
    <3>1. Ended(t) BY <1>0, <2>1, <2>4 DEF Phase, AtWork, Judged
    <3>2. t \notin streaming /\ ActiveBelow(t) = {} BY <1>0, <3>1, NothingBelow DEF Ended
    <3>3. Head(inbox[t]) \in {"end", "report"} BY <3>1 DEF Ended
    <3>4. TakeTask(t) BY <1>0, <1>18, <2>4, <3>3 DEF Take, TakeRecheck
    <3> DEFINE r == [Idle EXCEPT !.at = "judge", !.seen = status[t], !.report = Head(inbox[t]) = "report",
                                 !.target = t, !.active = ActiveBelow(t) # {}]
    <3>5. inbox'[t] = Tail(inbox[t]) /\ handler' = [handler EXCEPT ![t] = r]
      BY <1>0, <2>4, <3>4 DEF TakeTask, Started
    <3>6. r.at = "judge" /\ r.active = FALSE BY <3>2 DEF Idle
    <3> HIDE DEF r
    <3>7. handler'[t].at = "judge" /\ ~handler'[t].active BY <1>0, <3>5, <3>6
    <3> QED BY <2>1, <3>1, <3>5, <3>7 DEF CalmMoves, IsTaken
  <2> QED BY <2>2, <2>3, <2>4
<1>19. ASSUME NEW u \in Tasks, Judge(u) PROVE CalmMoves(t)
  <2>0. UNCHANGED <<streams, inbox>> /\ u \in Handlers BY <1>19, TaskFacts DEF Judge
  <2>1. CASE t # u
    <3>1. SessionStays(t) BY <1>19, <1>0, <2>0, <2>1 DEF Judge, SetStatus, SessionStays, streams
    <3>2. handler'[t] = handler[t] BY <1>0, <1>19, <2>0, <2>1, OtherHandlers DEF Judge
    <3> QED BY <1>4, <2>0, <3>1, <3>2
  <2>2. CASE t = u
    <3>1. handler[t].at = "judge" /\ Started(t) /\ ~handler[t].active
      BY <1>0, <1>19, <2>2 DEF Judge, Phase, AtWork, Ended, Judged
    <3>2. \/ Stage(t, "finalize") /\ status' = status
          \/ Stage(t, "remind") /\ SetStatus(t, "awaiting_report")
      BY <1>19, <2>2, <3>1 DEF Judge, Started, Exists
    <3>3. \A s : Stage(t, s) => handler'[t].at = s /\ handler'[t].active = handler[t].active
      BY <1>0 DEF Stage, HandlerType
    <3>4. SetStatus(t, "awaiting_report") => status'[t] = "awaiting_report" BY <1>0 DEF SetStatus
    <3> QED BY <2>0, <3>1, <3>2, <3>3, <3>4 DEF CalmMoves, IsJudged, streams
  <2> QED BY <2>1, <2>2
<1>20. ASSUME NEW u \in Tasks, Remind(u) PROVE CalmMoves(t)
  <2>0. inbox' = inbox /\ u \in Handlers /\ Send(u) /\ Done(u) /\ handler[u].at = "remind"
    BY <1>20, TaskFacts DEF Remind
  <2>1. CASE t # u
    <3>1. SessionStays(t)
      BY <1>0, <2>0, <2>1 DEF Send, SendToIdle, SendToBusy, SendRefused, SetStatus, SessionStays, streams
    <3>2. handler'[t] = handler[t] BY <1>0, <2>0, <2>1, OtherHandlers
    <3> QED BY <1>4, <2>0, <3>1, <3>2
  <2>2. CASE t = u
    <3>1. t \notin streaming /\ status[t] = "awaiting_report"
      BY <1>0, <2>0, <2>2 DEF Phase, AtWork, Ended, Judged
    <3>2. streaming' = streaming \cup {t} /\ UNCHANGED <<status, queued>>
      BY <1>0, <2>0, <2>2, <3>1 DEF Send, SendToIdle, SendToBusy, SendRefused, Refuses, Exists
    <3>3. handler'[t].at = "idle" BY <1>0, <2>0, <2>2, DoneFields
    <3> QED BY <2>0, <2>2, <3>1, <3>2, <3>3 DEF CalmMoves, GoesOnWorking
  <2> QED BY <2>1, <2>2
<1>21. CASE Nudge
  <2>1. inbox' = inbox /\ Done(Root) /\ SessionStays(t) BY <1>21, RootSend DEF Nudge
  <2>2. handler'[t] = handler[t] BY <1>0, <2>1, OtherHandlers, TaskFacts
  <2> QED BY <1>4, <2>1, <2>2
<1>22. ASSUME NEW h \in Handlers, Finalize(h) PROVE CalmMoves(t)
  <2>0. handler[h].at = "finalize" /\ UNCHANGED <<streams, inbox>> BY <1>22 DEF Finalize
  <2>1. h \in Tasks /\ handler[h].target = h BY <1>0, <1>2, <2>0, TaskFacts DEF HandlersOK, OwnTask
  <2>2. CASE t # h
    <3>1. SessionStays(t) BY <1>0, <1>22, <2>0, <2>1, <2>2 DEF Finalize, SetStatus, SessionStays, streams
    <3>2. handler'[t] = handler[t] BY <1>0, <1>22, <2>2, OtherHandlers DEF Finalize
    <3> QED BY <1>4, <2>0, <3>1, <3>2
  <2>3. CASE t = h
    <3>1. Started(t) BY <1>0, <2>0, <2>3 DEF Phase
    <3>2. SetStatus(t, "reported") /\ Stage(t, "persist")
      BY <1>22, <2>1, <2>3, <3>1 DEF Finalize, Started, Exists
    <3>3. status'[t] = "reported" /\ handler'[t].at = "persist" BY <1>0, <3>2, StageFields DEF SetStatus
    <3> QED BY <2>0, <2>3, <3>3 DEF CalmMoves, Reports, streams
  <2> QED BY <2>2, <2>3
<1>23. ASSUME NEW h \in Handlers, handler[h].at \in {"persist", "resume", "send", "clean", "remove"},
              SessionStays(t), inbox' = inbox, h # t => handler'[t] = handler[t], h = t => Beside(t)
       PROVE  CalmMoves(t)
  <2>1. h = t => ~Started(t) BY <1>3, <1>23
  <2> QED BY <1>4, <1>5, <1>23, <2>1
<1>24. ASSUME NEW h \in Handlers, Finalized(h), handler[h].at \in {"resume", "send"}
       PROVE  (h # t => handler'[t] = handler[t]) /\ (h = t => Beside(t))
  BY <1>0, <1>24, OtherHandlers, StageFields, DoneFields DEF Finalized, Beside
<1>25. ASSUME NEW h \in Handlers, Persist(h) PROVE CalmMoves(t)
  <2> DEFINE had == AwaitedBy(handler[h].target) # {}
  <2>1. handler' = [handler EXCEPT ![h].at = "pass", ![h].had = had] BY <1>25 DEF Persist
  <2> HIDE DEF had
  <2>2. (h # t => handler'[t] = handler[t]) /\ (h = t => Beside(t)) BY <1>0, <2>1 DEF Beside, HandlerType
  <2> QED BY <1>6, <1>23, <1>25, <2>2 DEF Persist
<1>26. ASSUME NEW h \in Handlers, AfterPass(h) PROVE CalmMoves(t)
  <2>1. CASE Finalized(h) BY <1>6, <1>23, <1>24, <1>26, <2>1 DEF AfterPass, disk
  <2>2. CASE Stage(h, "send")
    <3>1. (h # t => handler'[t] = handler[t]) /\ (h = t => Beside(t))
      BY <1>0, <2>2, OtherHandlers, StageFields DEF Beside
    <3> QED BY <1>6, <1>23, <1>26, <3>1 DEF AfterPass, disk
  <2> QED BY <1>26, <2>1, <2>2 DEF AfterPass
<1>27. ASSUME NEW h \in Handlers, ResumeParent(h) PROVE CalmMoves(t)
  <2>1. parent[handler[h].target] \in Workspaces BY <1>0, <1>27, TargetsAreTasks DEF ResumeParent, TypeOK
  <2>2. parent[handler[h].target] = Root BY <1>1, <1>27, <2>1, TaskFacts DEF ResumeParent
  <2>3. SessionStays(t) BY <1>27, <2>2, RootSend DEF ResumeParent
  <2> QED BY <1>23, <1>24, <1>27, <2>3 DEF ResumeParent
<1>28. ASSUME NEW h \in Handlers, Clean(h) PROVE CalmMoves(t)
  <2>1. \/ Done(h) \/ \E s \in {"remove", "cleanup"} : Stage(h, s) BY <1>28 DEF Clean, NothingToClean
  <2>2. (h # t => handler'[t] = handler[t]) /\ (h = t => Beside(t))
    BY <1>0, <2>1, OtherHandlers, StageFields, DoneFields DEF Beside
  <2> QED BY <1>6, <1>23, <1>28, <2>2 DEF Clean, disk
<1>29. ASSUME NEW h \in Handlers, Remove(h) PROVE CalmMoves(t)
  <2> DEFINE u == handler[h].target
  <2>0. /\ handler[h].at = "remove" /\ inbox' = inbox /\ SetStatus(u, "none")
        /\ streaming' = streaming \ {u} /\ queued' = queued \ {u} /\ ToClean(h, parent[u])
    BY <1>29 DEF Remove
  <2>1. status[u] \in {"reported", "none"} BY <2>0, CalmFacts
  <2> HIDE DEF u
  <2>2. (h # t => handler'[t] = handler[t]) /\ (h = t => Beside(t))
    BY <1>0, <2>0, OtherHandlers, ToCleanFields DEF Beside
  <2>3. CASE t # u
    <3>1. SessionStays(t) BY <1>0, <2>0, <2>3 DEF SetStatus, SessionStays
    <3> QED BY <1>23, <2>0, <2>2, <3>1
  <2>4. CASE t = u
    <3>1. ~Started(t) BY <2>1, <2>4 DEF Started
    <3>2. Beside(t) BY <1>0, <2>2, <3>1 DEF Beside, Phase
    <3> QED BY <1>0, <2>0, <2>1, <2>4, <3>2 DEF SetStatus, CalmMoves, IsRemoved
  <2> QED BY <2>3, <2>4
<1>30. ASSUME NEW u \in Tasks, PatchDone(u) PROVE CalmMoves(t)
  <2>1. UNCHANGED <<status, streams, handler>> /\ inbox' = [inbox EXCEPT ![u] = Append(@, "recheck")] /\ patch[u] = "pending"
    BY <1>30 DEF PatchDone, Push
  <2>2. CASE t # u
    <3>1. inbox'[t] = inbox[t] BY <1>0, <2>1, <2>2
    <3> QED BY <1>4, <1>6, <2>1, <3>1
  <2>3. CASE t = u
    <3>1. ~Started(t) /\ inbox'[t] = Append(inbox[t], "recheck") BY <1>0, <1>2, <2>1, <2>3
    <3> QED BY <1>6, <2>1, <3>1 DEF CalmMoves, Rests, EventsStay
  <2> QED BY <2>2, <2>3
<1>31. ASSUME Cascades \/ StartupStep PROVE FALSE
  BY <1>2, <1>31 DEF Cascades, CascadeBegins, CascadeStops, CascadeMarks, StartupStep, StartupResumes,
                     StartupPatches, StartupCleans
<1>32. CASE UNCHANGED vars BY <1>4, <1>6, <1>32 DEF vars, disk
<1> QED
  BY <1>7, <1>8, <1>9, <1>10, <1>12, <1>14, <1>16, <1>17, <1>18, <1>19, <1>20, <1>21, <1>22, <1>25, <1>26, <1>27, <1>28, <1>29, <1>30, <1>31, <1>32
     DEF Next, System, HandlerStep, Passes

-----------------------------------------------------------------------------
(* The parts of the invariant of the queue *)

\* Where a task is.
LEMMA PhaseStep ==
    ASSUME QueueIInv, [Next]_vars, ~OutOfOrder', NEW t \in Tasks
    PROVE  Phase(t)'
<1>0. /\ CalmMoves(t) /\ Phase(t) /\ "interrupt" \notin past /\ t \in Nat /\ made \in Nat
      /\ t \in Workspaces /\ inbox \in [Workspaces -> Seq({"end", "report", "recheck"})]
  BY CalmStep, CalmFacts, CleanFacts, TaskFacts DEF QueueIInv, Calm, OutOfOrder, TypeOK
<1>1. t = made + 1 \/ status[t] = "queued" => Untouched(t)
  BY <1>0 DEF QueueIInv, CleanIInv, FreshOK
<1>2. CASE Rests(t)
  <2>1. CASE Started(t)
    <3>1. inbox'[t] = inbox[t] /\ handler'[t] = handler[t] BY <1>2, <2>1 DEF Rests, EventsStay
    <3> QED BY <1>0, <1>2, <2>1, <3>1 DEF Rests, SessionStays, Phase, AtWork, Ended, Judged, Started
  <2>2. CASE ~Started(t)
    <3>1. \A i \in DOMAIN inbox'[t] : inbox'[t][i] = "recheck"
      <4>0. inbox[t] \in Seq({"end", "report", "recheck"}) /\ \A i \in DOMAIN inbox[t] : inbox[t][i] = "recheck"
        BY <1>0, <2>2 DEF Phase
      <4>1. CASE inbox'[t] = inbox[t] BY <4>0, <4>1
      <4>2. CASE inbox'[t] = Append(inbox[t], "recheck") BY <4>0, <4>2
      <4>3. CASE inbox[t] # <<>> /\ inbox'[t] = Tail(inbox[t]) BY <4>0, <4>3
      <4> QED BY <1>2, <4>1, <4>2, <4>3 DEF Rests, EventsStay
    <3>2. handler'[t].at \notin {"judge", "remind", "finalize"}
      BY <1>0, <1>2, <2>2 DEF Rests, Beside, Phase
    <3> QED BY <1>0, <1>2, <2>2, <3>1, <3>2 DEF Rests, SessionStays, Phase, Started
  <2> QED BY <2>1, <2>2
<1>3. CASE IsQueued(t) BY <1>0, <1>1, <1>3 DEF IsQueued, Untouched, Phase, Started
<1>4. CASE Starts(t) BY <1>0, <1>1, <1>4 DEF Starts, Untouched, Phase, Started, AtWork
<1>5. CASE Ends(t)
  <2>1. Started(t) /\ AtWork(t) BY <1>0, <1>5 DEF Ends, Phase, Ended, Judged
  <2>2. \E e \in {"end", "report"} : inbox'[t] = <<e>> BY <1>5, <2>1 DEF Ends, AtWork
  <2> QED BY <1>0, <1>5, <2>1, <2>2 DEF Ends, AtWork, Phase, Ended, Started
<1>6. CASE IsTaken(t)
  <2>1. inbox'[t] = <<>> BY <1>6 DEF IsTaken, Ended
  <2>2. Started(t)
    <3>1. ~Started(t) => \A i \in DOMAIN inbox[t] : inbox[t][i] = "recheck" BY <1>0 DEF Phase
    <3>2. PICK e \in {"end", "report"} : inbox[t] = <<e>> BY <1>6 DEF IsTaken, Ended
    <3>3. 1 \in DOMAIN inbox[t] /\ inbox[t][1] # "recheck" BY <3>2
    <3> QED BY <3>1, <3>3
  <2> QED BY <1>0, <1>6, <2>1, <2>2 DEF IsTaken, SessionStays, Ended, Phase, Judged, Started
<1>7. CASE IsJudged(t)
  <2>1. Started(t) /\ Judged(t) BY <1>0, <1>7 DEF IsJudged, Phase, AtWork, Ended
  <2> QED BY <1>0, <1>7, <2>1 DEF IsJudged, Phase, Judged, Started
<1>8. CASE GoesOnWorking(t)
  <2>1. Judged(t) BY <1>0, <1>8 DEF GoesOnWorking, Phase, AtWork, Ended
  <2> QED BY <1>0, <1>8, <2>1 DEF GoesOnWorking, Phase, Judged, AtWork, Started
<1>9. CASE Reports(t)
  <2>1. Judged(t) BY <1>0, <1>9 DEF Reports, Phase, AtWork, Ended
  <2> QED BY <1>0, <1>9, <2>1 DEF Reports, Phase, Judged, Started
<1>10. CASE IsRemoved(t) BY <1>0, <1>10 DEF IsRemoved, Phase, Started, Beside
<1> QED BY <1>0, <1>2, <1>3, <1>4, <1>5, <1>6, <1>7, <1>8, <1>9, <1>10 DEF CalmMoves

\* How the status of a task changes while nothing is out of order: what is active stays so until it
\* reports, what is at work for others goes on, and what is queued was so before or is new.
LEMMA CalmStatus ==
    ASSUME QueueIInv, [Next]_vars, ~OutOfOrder', NEW t \in Tasks
    PROVE  /\ status[t] \in Active => status'[t] \in Active \/ handler'[t].at = "persist"
           /\ Started(t) => Started(t)' \/ handler'[t].at = "persist"
           /\ status'[t] = "running" => status[t] # "awaiting_report"
           /\ status[t] = "running" /\ t \in streaming /\ (t \in making \/ Blocked(t) \/ ActiveBelow(t) # {}) =>
                  status'[t] = "running" /\ t \in streaming'
           /\ status'[t] = "queued" => status[t] = "queued" \/ (kick' /\ pass' = NoPass)
           /\ status'[t] \in Active => t = made + 1 \/ status[t] \in Active
<1>0. /\ CalmMoves(t) /\ Phase(t) /\ made \in Nat /\ t \in Nat
      /\ status \in [Tasks -> Statuses]
  BY CalmStep, CalmFacts, CleanFacts, TaskFacts DEF QueueIInv, Calm, TypeOK
<1>1. ASSUME t = made + 1 PROVE status[t] = "none" /\ t \notin streaming
  <2>1. t > made BY <1>0, <1>1
  <2>2. FreshOK /\ Numbered BY CleanFacts DEF QueueIInv, CleanIInv, ControlOK
  <2> QED BY <2>1, <2>2 DEF FreshOK, Untouched, Numbered
<1>2. CASE Rests(t) BY <1>0, <1>2 DEF Rests, SessionStays, Started, Active
<1>3. CASE IsQueued(t) BY <1>0, <1>1, <1>3 DEF IsQueued, Started, Active
<1>4. CASE Starts(t) BY <1>0, <1>1, <1>4 DEF Starts, Started, Active
<1>5. CASE Ends(t) BY <1>0, <1>5 DEF Ends, Started, Active
<1>6. CASE IsTaken(t) BY <1>0, <1>6 DEF IsTaken, SessionStays, Started, Active
<1>7. CASE IsJudged(t)
  <2>1. Started(t) /\ Judged(t) BY <1>0, <1>7 DEF IsJudged, Phase, AtWork, Ended
  <2> QED BY <1>7, <2>1 DEF IsJudged, Judged, Started, Active
<1>8. CASE GoesOnWorking(t)
  <2>1. Started(t) /\ Judged(t) BY <1>0, <1>8 DEF GoesOnWorking, Phase, AtWork, Ended
  <2> QED BY <1>8, <2>1 DEF GoesOnWorking, Judged, Started, Active
<1>9. CASE Reports(t)
  <2>1. Judged(t) BY <1>0, <1>9 DEF Reports, Phase, AtWork, Ended
  <2> QED BY <1>9, <2>1 DEF Reports, Judged, Started, Active
<1>10. CASE IsRemoved(t) BY <1>10 DEF IsRemoved, Started, Active
<1> QED BY <1>0, <1>2, <1>3, <1>4, <1>5, <1>6, <1>7, <1>8, <1>9, <1>10 DEF CalmMoves

\* Whose child is active goes on.
LEMMA ParentsWorkStep ==
    ASSUME QueueIInv, [Next]_vars, ~OutOfOrder'
    PROVE  ParentsWork'
<1>0. TypeOK /\ Calm /\ ParentsWork /\ TreeMoves /\ Numbered /\ made \in Nat /\ status \in [Tasks -> Statuses]
  BY CalmFacts, CleanFacts DEF QueueIInv, Calm, ControlOK, TypeOK
<1>1. ASSUME NEW w \in Tasks, status[w] = "running", w \in streaming, w \in making \/ ActiveBelow(w) # {}
      PROVE  status'[w] = "running" /\ w \in streaming'
  BY <1>1, CalmStatus
<1>2. ASSUME NEW t \in Tasks, status'[t] \in Active, parent'[t] \in Tasks
      PROVE  status'[parent'[t]] = "running" /\ parent'[t] \in streaming'
  <2>1. CASE t = made + 1 /\ made' = made + 1
    <3>1. parent'[t] \in making
      BY <1>0, <2>1 DEF TreeMoves, TypeOK
    <3>2. status[parent'[t]] = "running" /\ parent'[t] \in streaming BY <1>0, <1>2, <3>1 DEF ParentsWork
    <3>3. PICK p \in Tasks : p = parent'[t] BY <1>2
    <3> QED BY <1>1, <3>1, <3>2, <3>3
  <2>2. CASE ~(t = made + 1 /\ made' = made + 1)
    <3>1. parent'[t] = parent[t] BY <1>0, <2>2 DEF TreeMoves, TypeOK
    <3>2. status[t] \in Active
      <4>1. CASE t = made + 1
        <5>1. made' = made \/ made' = made + 1 BY <1>0 DEF TreeMoves
        <5>2. t > made' BY <1>0, <2>2, <4>1, <5>1
        <5>3. status'[t] = "none" BY <1>0, <5>2, CleanFacts DEF QueueIInv, ControlOK, Numbered
        <5> QED BY <1>2, <5>3 DEF Active
      <4> QED BY <1>2, <4>1, CalmStatus
    <3>3. PICK p \in Tasks : p = parent[t] BY <1>2, <3>1
    <3>4. status[p] = "running" /\ p \in streaming BY <1>0, <3>2, <3>3 DEF ParentsWork
    <3>5. t \in ActiveBelow(p)
      BY <1>0, <3>2, <3>3, ParentIsAbove DEF ActiveBelow, Below, Exists, Active
    <3> QED BY <1>1, <3>1, <3>3, <3>4, <3>5
  <2> QED BY <2>1, <2>2
<1>3. ASSUME NEW w \in making' \cap Tasks PROVE status'[w] = "running" /\ w \in streaming'
  <2>1. CASE w \in making
    <3>1. status[w] = "running" /\ w \in streaming BY <1>0, <1>3, <2>1 DEF ParentsWork
    <3> QED BY <1>1, <1>3, <2>1, <3>1
  <2>2. ASSUME NEW v \in Workspaces, CreateBegins(v) PROVE status'[w] = "running" /\ w \in streaming'
    <3>1. w = v /\ w \in streaming /\ UNCHANGED <<status, streaming>> /\ status[w] # "awaiting_report"
      <4>1. "stray" \notin past' BY DEF OutOfOrder
      <4> QED BY <1>3, <2>2, <4>1 DEF CreateBegins, CanCall, Happens, disk, streams
    <3>2. Phase(w) BY <1>0, <1>3 DEF Calm
    <3>3. Started(w) BY <3>1, <3>2 DEF Phase
    <3> QED BY <3>1, <3>3 DEF Started
  <2> QED BY <1>0, <1>3, <2>1, <2>2 DEF TreeMoves
<1> QED BY <1>2, <1>3 DEF ParentsWork

\* The handler that stores a report, and the one that is to run the queue, stay so until they do that.
LEMMA StoresStay ==
    ASSUME TypeOK, ControlOK, [Next]_vars, "crash" \notin past', NEW t \in Tasks,
           handler[t].at \in {"persist", "pass"}
    PROVE  handler'[t] = handler[t] \/ Persist(t) \/ PassBegins(t)
<1> DEFINE Goal == handler'[t] = handler[t] \/ Persist(t) \/ PassBegins(t)
<1> SUFFICES Goal OBVIOUS
<1>0. /\ t \in Handlers /\ t \in Workspaces /\ t # Startup /\ t # Root
      /\ handler \in [Handlers -> HandlerType]
  BY TaskFacts DEF TypeOK
<1>1. ASSUME NEW g \in Handlers, g # t, (\E s : Stage(g, s)) \/ Done(g) \/ (\E u : ToClean(g, u)) \/ Finalized(g)
      PROVE  Goal
  BY <1>0, <1>1, OtherHandlers
<1>2. CASE handler' = handler BY <1>2
<1>3. ASSUME NEW by \in {Nobody, Background} \cup Handlers, PassOver(by), by # t PROVE Goal
  BY <1>0, <1>3, PassOverOthers
<1> HIDE DEF Goal
<1>4. ASSUME NEW by \in {Background} \cup Handlers, PassBegins(by) PROVE Goal
  <2>1. CASE by = t BY <1>4, <2>1 DEF Goal
  <2>2. CASE by # t /\ PassOver(by) BY <1>3, <2>2
  <2>3. CASE by # t /\ by # Background /\ handler' = [handler EXCEPT ![by].at = "passing"]
    <3>1. handler'[t] = handler[t] BY <1>0, <2>3
    <3> QED BY <3>1 DEF Goal
  <2> QED BY <1>2, <1>4, <2>1, <2>2, <2>3 DEF PassBegins
<1>5. CASE PassNext \/ PassBreaks
  <2>1. pass.by \in {Nobody, Background} \cup Handlers /\ pass.by # t
    BY <1>0 DEF TypeOK, ControlOK, MutexOwners
  <2> QED BY <1>2, <1>3, <1>5, <2>1 DEF PassNext, PassBreaks
<1>6. ASSUME NEW w \in Workspaces, Take(w) PROVE Goal
  <2>0. w # t /\ w \in Handlers BY <1>6, TaskFacts DEF Take
  <2>1. CASE TakeRecheck(w) BY <1>1, <2>0, <2>1 DEF TakeRecheck
  <2>2. CASE w = Root /\ TakeRoot BY <1>1, <1>2, <2>0, <2>2 DEF TakeRoot
  <2>3. CASE w \in Tasks /\ TakeTask(w)
    <3>1. handler'[t] = handler[t] BY <1>0, <2>0, <2>3 DEF TakeTask
    <3> QED BY <3>1 DEF Goal
  <2> QED BY <1>6, <2>1, <2>2, <2>3 DEF Take
<1>7. ASSUME NEW h \in Handlers, HandlerStep(h) PROVE Goal
  <2>1. CASE Finalize(h) BY <1>1, <2>1 DEF Finalize
  <2>2. CASE Persist(h)
    <3>1. h # t => handler'[t] = handler[t] BY <1>0, <2>2 DEF Persist
    <3> QED BY <2>2, <3>1 DEF Goal
  <2>3. CASE AfterPass(h) BY <1>1, <2>3 DEF AfterPass
  <2>4. CASE ResumeParent(h) BY <1>1, <2>4 DEF ResumeParent
  <2>5. CASE Clean(h) BY <1>1, <2>5 DEF Clean, NothingToClean
  <2>6. CASE Remove(h) BY <1>1, <2>6 DEF Remove
  <2>7. CASE Judge(h) BY <1>1, <2>7 DEF Judge
  <2>8. CASE Remind(h) BY <1>1, <2>8 DEF Remind
  <2> QED BY <1>6, <1>7, <2>1, <2>2, <2>3, <2>4, <2>5, <2>6, <2>7, <2>8 DEF HandlerStep
<1>8. CASE Nudge BY <1>0, <1>1, <1>8, TaskFacts DEF Nudge
<1>9. CASE StartupStep
  <2>1. \A h \in Handlers : h # Startup => handler'[h] = handler[h]
    BY <1>0, <1>9 DEF StartupStep, StartupResumes, StartupPatches, StartupCleans, Stage
  <2> QED BY <1>0, <2>1 DEF Goal
<1>10. CASE Disturbed
  <2>1. ~Crash BY DEF Crash, Happens
  <2> QED BY <1>2, <1>10, <2>1 DEF Disturbed, AwaitTimesOut, UserResumes, StreamDies, UserSends, Interrupt
<1>11. CASE \E w \in Workspaces : CreateBegins(w) \/ CreateEnds(w) \/ StreamStep(w) \/ FlushQueue(w)
  BY <1>2, <1>11 DEF CreateBegins, CreateEnds, StreamStep, Await, StreamEnds, FlushQueue
<1>12. CASE Cascades \/ (\E u \in Tasks : PatchDone(u)) \/ UNCHANGED vars
  BY <1>2, <1>12 DEF Cascades, CascadeBegins, CascadeStops, CascadeMarks, PatchDone, vars
<1> QED BY <1>4, <1>5, <1>7, <1>8, <1>9, <1>10, <1>11, <1>12 DEF Next, System, Passes

\* A wait begins with a call of the stream, and lasts as long as the report is stored.
WaitMoves(p) ==
    /\ p \in waiting' => p \in waiting \/ (Await(p[1]) /\ p[2] \in Awaitable(p[1]))
    /\ p \in waiting' /\ handler[p[2]].at = "persist" => handler'[p[2]].at = "persist"

\* Every step moves the waits so.
LEMMA WaitStep ==
    ASSUME QueueIInv, [Next]_vars, ~OutOfOrder', NEW p \in Workspaces \X Tasks
    PROVE  WaitMoves(p)
<1>0. /\ TypeOK /\ ControlOK /\ HandlersOK
      /\ p[1] \in Workspaces /\ p[2] \in Tasks /\ p[2] \in Workspaces /\ p[2] # Startup
  BY CleanFacts, TaskFacts DEF QueueIInv, ControlOK
<1>1. "crash" \notin past' BY DEF OutOfOrder
<1> DEFINE Comes == p \in waiting' => p \in waiting \/ (Await(p[1]) /\ p[2] \in Awaitable(p[1]))
<1>2. p \in waiting' /\ handler[p[2]].at = "persist" => handler'[p[2]].at = "persist"
  <2> SUFFICES ASSUME handler[p[2]].at = "persist" PROVE p \notin waiting' \/ handler'[p[2]].at = "persist"
    OBVIOUS
  <2>1. handler[p[2]].target = p[2]
    <3>1. PICK t \in Tasks : t = p[2] BY <1>0
    <3>2. t \in Handlers BY TaskFacts
    <3> QED BY <1>0, <3>1, <3>2 DEF HandlersOK, OwnTask
  <2>2. ~PassBegins(p[2]) BY <1>0, TaskFacts DEF PassBegins, Due
  <2>3. handler'[p[2]] = handler[p[2]] \/ Persist(p[2]) BY <1>0, <1>1, <2>2, StoresStay
  <2> QED BY <2>1, <2>3 DEF Persist, WithoutWaitsFor, AwaitedBy
<1> SUFFICES Comes BY <1>2 DEF WaitMoves
<1>3. waiting' \subseteq waiting => Comes OBVIOUS
<1>4. ASSUME NEW w, Send(w) PROVE Comes
  BY <1>4 DEF Send, SendToIdle, SendToBusy, SendRefused, WithoutWaitsOf
<1> HIDE DEF Comes
<1>5. ASSUME NEW h \in Handlers, HandlerStep(h) PROVE Comes
  <2>1. CASE Finalize(h) \/ Persist(h) \/ AfterPass(h) \/ Clean(h) \/ Remove(h)
    BY <1>3, <2>1 DEF Finalize, Persist, AfterPass, Clean, Remove, WithoutWaitsOf, WithoutWaitsFor
  <2>2. CASE ResumeParent(h) BY <1>4, <2>2 DEF ResumeParent
  <2>3. CASE h \in Workspaces /\ Take(h)
    BY <1>3, <2>3 DEF Take, TakeRecheck, TakeRoot, TakeTask, WithoutWaitsFor
  <2>4. CASE h \in Tasks /\ Judge(h) BY <1>3, <2>4 DEF Judge
  <2>5. CASE h \in Tasks /\ Remind(h) BY <1>4, <2>5 DEF Remind
  <2> QED BY <1>5, <2>1, <2>2, <2>3, <2>4, <2>5 DEF HandlerStep
<1>6. CASE Nudge BY <1>4, <1>6 DEF Nudge
<1>7. CASE Passes
  BY <1>3, <1>7 DEF Passes, PassBegins, PassNext, PassBreaks, WithoutWaitsFor
<1>8. CASE Cascades
  BY <1>3, <1>8 DEF Cascades, CascadeBegins, CascadeStops, CascadeMarks, WithoutWaitsOf, WithoutWaitsFor
<1>9. CASE StartupStep
  BY <1>3, <1>4, <1>9 DEF StartupStep, StartupResumes, StartupPatches, StartupCleans
<1>10. ASSUME NEW w \in Workspaces, CreateBegins(w) \/ CreateEnds(w) \/ FlushQueue(w) PROVE Comes
  BY <1>3, <1>10 DEF CreateBegins, CreateEnds, FlushQueue
<1>11. ASSUME NEW w \in Workspaces, StreamStep(w) PROVE Comes
  <2>1. CASE Await(w)
    <3>1. PICK ts \in SUBSET Awaitable(w) : waiting' = waiting \cup ({w} \X ts) BY <2>1 DEF Await
    <3>2. p \in {w} \X ts => p[1] = w /\ p[2] \in ts OBVIOUS
    <3> QED BY <2>1, <3>1, <3>2 DEF Comes
  <2>2. ASSUME NEW report \in BOOLEAN, StreamEnds(w, report) PROVE Comes
    BY <1>3, <2>2 DEF StreamEnds
  <2> QED BY <1>11, <2>1, <2>2 DEF StreamStep
<1>12. CASE Disturbed
  <2>1. ASSUME NEW w \in Workspaces, AwaitTimesOut(w) \/ StreamDies(w) PROVE Comes
    BY <1>3, <2>1 DEF AwaitTimesOut, StreamDies, WithoutWaitsOf
  <2>2. ASSUME NEW u \in Tasks, UserResumes(u) PROVE Comes BY <1>3, <2>2 DEF UserResumes, SendToIdle
  <2>3. CASE UserSends BY <1>4, <2>3 DEF UserSends
  <2>4. CASE Interrupt \/ Crash BY <1>3, <2>4 DEF Interrupt, Crash, WithoutWaitsOf
  <2> QED BY <1>12, <2>1, <2>2, <2>3, <2>4 DEF Disturbed
<1>13. ASSUME NEW u \in Tasks, PatchDone(u) PROVE Comes BY <1>3, <1>13 DEF PatchDone
<1>14. CASE UNCHANGED vars BY <1>3, <1>14 DEF vars
<1> QED
  BY <1>5, <1>6, <1>7, <1>8, <1>9, <1>10, <1>11, <1>12, <1>13, <1>14 DEF Next, System

\* Who is waited for is still to report, and a task that waits is at work.
LEMMA WaitsStep ==
    ASSUME QueueIInv, [Next]_vars, ~OutOfOrder'
    PROVE  WaitsOK'
<1>0. /\ TypeOK /\ TypeOK' /\ Calm /\ ParentsWork /\ WaitsOK
      /\ \A t \in Tasks : status[t] # "interrupted" /\ Phase(t)
  BY CalmFacts, CleanFacts DEF QueueIInv, Calm
<1> SUFFICES ASSUME NEW p \in waiting'
             PROVE  /\ status'[p[2]] \in Active \/ handler'[p[2]].at = "persist"
                    /\ p[1] \in Tasks => status'[p[1]] = "running" /\ p[1] \in streaming'
  BY DEF WaitsOK
<1>1. p \in Workspaces \X Tasks /\ p[1] \in Workspaces /\ p[2] \in Tasks BY <1>0 DEF TypeOK
<1>2. WaitMoves(p) BY <1>1, WaitStep
<1>3. CASE p \in waiting
  <2>1. status[p[2]] \in Active \/ handler[p[2]].at = "persist" BY <1>0, <1>3 DEF WaitsOK
  <2>2. status'[p[2]] \in Active \/ handler'[p[2]].at = "persist"
    BY <1>1, <1>2, <2>1, CalmStatus DEF WaitMoves
  <2>3. Blocked(p[1]) BY <1>3 DEF Blocked
  <2>4. p[1] \in Tasks => status[p[1]] = "running" /\ p[1] \in streaming BY <1>0, <1>3 DEF WaitsOK
  <2>5. p[1] \in Tasks => status'[p[1]] = "running" /\ p[1] \in streaming'
    BY <2>3, <2>4, CalmStatus
  <2> QED BY <2>2, <2>5
<1>4. CASE Await(p[1]) /\ p[2] \in Awaitable(p[1])
  <2>1. /\ UNCHANGED <<status, streaming>> /\ p[1] \in streaming
        /\ status[p[2]] \in Active /\ p[1] \in Above[p[2]]
    BY <1>0, <1>1, <1>4 DEF Await, CanCall, Awaitable, Below, disk, streams
  <2>2. p[1] \in Tasks => status[p[1]] = "running" BY <1>0, <1>1, <2>1, AncestorsWork
  <2> QED BY <2>1, <2>2
<1> QED BY <1>2, <1>3, <1>4 DEF WaitMoves

\* How the queue is run: a pass goes on until it has started what was queued or no slot is left.
LEMMA PassMoves ==
    ASSUME QueueIInv, [Next]_vars, ~OutOfOrder'
    PROVE  /\ PassOK'
           /\ pass.by # Nobody =>
                  \/ pass'.by # Nobody
                  \/ Full /\ UNCHANGED <<status, parent, streaming, waiting>>
                  \/ \A t \in Tasks : status'[t] # "queued"
           /\ kick => kick' \/ PassBegins(Background)
<1> DEFINE Open == pass.by # Nobody =>
                       \/ pass'.by # Nobody
                       \/ Full /\ UNCHANGED <<status, parent, streaming, waiting>>
                       \/ \A t \in Tasks : status'[t] # "queued"
           Kept == kick => kick' \/ PassBegins(Background)
<1>0. TypeOK /\ ControlOK /\ PassOK /\ ParentsExist /\ status \in [Tasks -> Statuses]
  BY CleanFacts, CalmFacts DEF QueueIInv, Calm, TypeOK
<1>1. \A e \in {"early", "stray", "die", "fail", "interrupt", "crash", "late"} : e \notin past'
  BY DEF OutOfOrder
<1>2. handler[Startup].at = "idle" /\ cascade.at = "idle" /\ \A t \in Tasks : status[t] # "interrupted"
  BY CalmFacts
<1>3. \A t \in Tasks : status'[t] = "queued" => status[t] = "queued" \/ pass' = NoPass
  BY CalmStatus
<1> SUFFICES PassOK' /\ Open /\ Kept OBVIOUS
<1>4. NoPass.by = Nobody BY DEF NoPass
<1>5. UNCHANGED <<pass, making>> => PassOK' /\ Open BY <1>0, <1>3, <1>4 DEF PassOK
<1>6. pass' = NoPass => PassOK' BY <1>4 DEF PassOK
<1>7. pass = NoPass => Open BY <1>4
<1>8. kick' = kick => Kept OBVIOUS
<1> HIDE DEF Open, Kept
<1>9. UNCHANGED <<kick, mutexed>> => PassOK' /\ Open /\ Kept BY <1>5, <1>8 DEF mutexed
<1>10. ASSUME NEW w \in Workspaces, CreateBegins(w) PROVE PassOK' /\ Open /\ Kept
  <2>1. pass = NoPass /\ pass'.by = Nobody /\ kick' = kick BY <1>10 DEF CreateBegins, MutexFree, NoPass
  <2>2. PassOK' BY <2>1 DEF PassOK
  <2> QED BY <1>7, <1>8, <2>1, <2>2
<1>11. ASSUME NEW w \in Workspaces, CreateEnds(w) PROVE PassOK' /\ Open /\ Kept
  <2>1. pass' = NoPass /\ making # {} /\ (kick => kick') BY <1>11 DEF CreateEnds
  <2>2. pass.by = Nobody BY <1>0, <2>1 DEF PassOK
  <2> QED BY <1>6, <2>1, <2>2 DEF Open, Kept
<1>12. ASSUME NEW by \in {Background} \cup Handlers, PassBegins(by) PROVE PassOK' /\ Open /\ Kept
  <2> DEFINE candidates == {t \in Tasks : status[t] = "queued"}
  <2>1. /\ pass = NoPass /\ making = {} /\ making' = {} /\ status' = status
        /\ kick' = (kick /\ by # Background)
        /\ pass' = pass \/ pass' = [by |-> by, todo |-> candidates]
    BY <1>12 DEF PassBegins, MutexFree
  <2>2. PassOK' BY <1>4, <2>1 DEF PassOK
  <2>3. Kept BY <1>12, <2>1 DEF Kept
  <2> QED BY <1>7, <2>1, <2>2, <2>3
<1>13. CASE PassBreaks
  <2>1. /\ pass' = NoPass /\ Full /\ kick' = kick /\ UNCHANGED <<status, parent, streaming, waiting>>
    BY <1>13 DEF PassBreaks, streams
  <2> QED BY <1>6, <1>8, <2>1 DEF Open
<1>14. CASE PassNext
  <2> DEFINE u == CHOOSE v \in pass.todo : \A x \in pass.todo : v <= x
             rest == pass.todo \ {u}
  <2>1. /\ pass.by # Nobody /\ kick' = kick /\ making' = making /\ parent' = parent
        /\ \/ rest = {} /\ pass' = NoPass
           \/ pass' = [pass EXCEPT !.todo = rest]
        /\ \/ (status[u] # "queued" \/ ~Exists(parent[u])) /\ status' = status
           \/ SetStatus(u, "running")
    BY <1>1, <1>14 DEF PassNext, Happens
  <2>2. u \in Tasks
    <3>1. pass.todo \subseteq Tasks /\ pass.todo # {} BY <1>0, <1>14 DEF PassNext, TypeOK
    <3> QED BY <3>1, OldestIsMember
  <2>3. making = {} /\ \A t \in Tasks : status[t] = "queued" => t \in pass.todo
    BY <1>0, <2>1 DEF PassOK
  <2> HIDE DEF u
  <2>4. ASSUME NEW t \in Tasks, status'[t] = "queued" PROVE t \in rest
    <3>1. status[t] = "queued" /\ t # u
      BY <1>0, <2>1, <2>2, <2>4 DEF SetStatus, ParentsExist, Exists
    <3> QED BY <2>3, <3>1
  <2>5. CASE rest = {} /\ pass' = NoPass BY <1>6, <1>8, <2>1, <2>4, <2>5 DEF Open
  <2>6. CASE pass' = [pass EXCEPT !.todo = rest]
    <3>1. pass'.by # Nobody /\ pass'.todo = rest BY <1>0, <2>1, <2>6 DEF TypeOK
    <3>2. PassOK' BY <2>1, <2>3, <2>4, <3>1 DEF PassOK
    <3> QED BY <1>8, <2>1, <3>1, <3>2 DEF Open
  <2> QED BY <2>1, <2>5, <2>6
<1>15. ASSUME NEW h \in Handlers, HandlerStep(h) PROVE UNCHANGED <<kick, mutexed>>
  BY <1>15 DEF HandlerStep, Finalize, Persist, AfterPass, ResumeParent, Clean, Remove, Take, Judge, Remind
<1>16. CASE Nudge BY <1>9, <1>16 DEF Nudge
<1>17. ASSUME Cascades \/ StartupStep PROVE FALSE
  BY <1>2, <1>17 DEF Cascades, CascadeBegins, CascadeStops, CascadeMarks, StartupStep, StartupResumes,
                     StartupPatches, StartupCleans
<1>18. ASSUME NEW w \in Workspaces, StreamStep(w) \/ FlushQueue(w) PROVE PassOK' /\ Open /\ Kept
  <2>1. UNCHANGED <<pass, making>>
    BY <1>18 DEF StreamStep, Await, StreamEnds, FlushQueue, mutexed
  <2>2. kick => kick'
    <3>1. CASE Await(w) BY <3>1 DEF Await
    <3>2. ASSUME NEW report \in BOOLEAN, StreamEnds(w, report) PROVE kick' = kick BY <3>2 DEF StreamEnds
    <3>3. CASE FlushQueue(w) BY <3>3 DEF FlushQueue
    <3> QED BY <1>18, <3>1, <3>2, <3>3 DEF StreamStep
  <2> QED BY <1>5, <2>1, <2>2 DEF Kept
<1>19. CASE Disturbed
  <2>1. ASSUME NEW w \in Workspaces, AwaitTimesOut(w) PROVE UNCHANGED <<kick, mutexed>> BY <2>1 DEF AwaitTimesOut
  <2>2. ASSUME NEW t \in Tasks, UserResumes(t) PROVE FALSE BY <1>2, <2>2 DEF UserResumes
  <2>3. ASSUME NEW w \in Workspaces, StreamDies(w) PROVE FALSE BY <1>1, <2>3 DEF StreamDies, Happens
  <2>4. CASE UserSends BY <1>9, <2>4 DEF UserSends
  <2>5. ASSUME Interrupt \/ Crash PROVE FALSE BY <1>1, <2>5 DEF Interrupt, Crash, Happens
  <2> QED BY <1>9, <1>19, <2>1, <2>2, <2>3, <2>4, <2>5 DEF Disturbed
<1>20. ASSUME NEW t \in Tasks, PatchDone(t) PROVE UNCHANGED <<kick, mutexed>> BY <1>20 DEF PatchDone
<1>21. CASE UNCHANGED vars BY <1>9, <1>21 DEF vars
<1> QED
  BY <1>9, <1>10, <1>11, <1>12, <1>13, <1>14, <1>15, <1>16, <1>17, <1>18, <1>19, <1>20, <1>21
     DEF Next, System, Passes

\* A queue that is to be run is run, and then either nothing is queued or every slot is taken.
LEMMA DueMoves ==
    ASSUME QueueIInv, [Next]_vars, ~OutOfOrder', PassDue
    PROVE  \/ PassDue'
           \/ Full /\ UNCHANGED <<status, parent, streaming, waiting>>
           \/ \A t \in Tasks : status'[t] # "queued"
<1>0. /\ TypeOK /\ ControlOK /\ HandlersOK /\ handler[Startup].at = "idle" /\ "crash" \notin past'
      /\ handler \in [Handlers -> HandlerType]
  BY CleanFacts, CalmFacts DEF QueueIInv, ControlOK, OutOfOrder, TypeOK
<1>1. ASSUME NEW by \in {Background} \cup Handlers, PassBegins(by)
      PROVE  \/ PassDue'
             \/ Full /\ UNCHANGED <<status, parent, streaming, waiting>>
             \/ \A t \in Tasks : status'[t] # "queued"
  <2>1. UNCHANGED <<status, parent, streaming, waiting>> BY <1>1 DEF PassBegins, streams
  <2>2. CASE Full \/ {t \in Tasks : status[t] = "queued"} = {} BY <2>1, <2>2
  <2>3. CASE ~(Full \/ {t \in Tasks : status[t] = "queued"} = {})
    <3>1. pass'.by = by BY <1>1, <2>3 DEF PassBegins
    <3>2. by # Nobody BY TaskFacts DEF Background, Nobody
    <3> QED BY <3>1, <3>2 DEF PassDue
  <2> QED BY <2>2, <2>3
<1>2. CASE kick BY <1>1, <1>2, PassMoves DEF PassDue
<1>3. CASE pass.by # Nobody BY <1>3, PassMoves DEF PassDue
<1>4. ASSUME NEW h \in Handlers, handler[h].at \in {"persist", "pass"}
      PROVE  \/ PassDue'
             \/ Full /\ UNCHANGED <<status, parent, streaming, waiting>>
             \/ \A t \in Tasks : status'[t] # "queued"
  <2>1. h \in Tasks BY <1>0, <1>4, TaskFacts DEF HandlersOK, OwnTask
  <2>2. CASE handler'[h] = handler[h] BY <1>4, <2>2 DEF PassDue
  <2>3. CASE Persist(h)
    <3> DEFINE had == AwaitedBy(handler[h].target) # {}
    <3>1. handler' = [handler EXCEPT ![h].at = "pass", ![h].had = had] BY <2>3 DEF Persist
    <3> HIDE DEF had
    <3>2. handler'[h].at = "pass" BY <1>0, <3>1 DEF HandlerType
    <3> QED BY <3>2 DEF PassDue
  <2> QED BY <1>0, <1>1, <1>4, <2>1, <2>2, <2>3, StoresStay
<1> QED BY <1>2, <1>3, <1>4 DEF PassDue

\* A started task that does not wait counts, ...
LEMMA StartedCounts ==
    ASSUME NEW t \in Tasks, Phase(t), t \in Counted \/ (Started(t) /\ ~(status[t] = "running" /\ Blocked(t)))
    PROVE  t \in Counted /\ Started(t) /\ ~(status[t] = "running" /\ Blocked(t))
  BY DEF Counted, Phase, Started, Exists

\* ... after a step too.
LEMMA StartedCountsPrime ==
    ASSUME NEW t \in Tasks, Started(t)', ~(status'[t] = "running" /\ Blocked(t)')
    PROVE  t \in Counted'
  BY DEF Counted, Started, Exists

\* Without a free slot some task counts.
LEMMA FullCounts == Full => Counted # {}
<1>1. Cardinality({}) = 0 BY FS_EmptySet
<1> QED BY <1>1, SizesAssumption DEF Full

\* The queue has somebody to run it, somebody to wait for, or is forgotten by an await.
LEMMA QueueStep ==
    ASSUME QueueIInv, [Next]_vars, ~OutOfOrder'
    PROVE  QueueOK'
<1> SUFFICES ASSUME NEW q \in Tasks, status'[q] = "queued", ~PassDue'
             PROVE  Counted' # {} \/ SlotUnused'
  BY DEF QueueOK
<1>0. /\ TypeOK /\ TypeOK' /\ Calm /\ WaitsOK /\ QueueOK /\ ParentsWork
      /\ \A t \in Tasks : status[t] # "interrupted" /\ t \in Nat /\ t \in Handlers /\ Phase(t)
  BY CalmFacts, CleanFacts, TaskFacts DEF QueueIInv, Calm
<1>1. /\ ~kick' /\ pass'.by = Nobody /\ \A h \in Handlers : handler'[h].at \notin {"persist", "pass"}
  BY DEF PassDue
<1>2. \A p \in waiting' : p[1] \in Workspaces /\ p[2] \in Tasks /\ WaitMoves(p)
  BY <1>0, WaitStep DEF TypeOK
<1>3. \A t \in Tasks : Started(t) => Started(t)' BY <1>0, <1>1, CalmStatus
<1>4. PassDue \/ Counted # {} \/ SlotUnused
  <2>1. status[q] = "queued" BY <1>1, CalmStatus
  <2> QED BY <1>0, <2>1 DEF QueueOK
<1>5. CASE PassDue
  <2>1. Full /\ UNCHANGED <<status, parent, streaming, waiting>> BY <1>5, DueMoves
  <2>2. Counted' = Counted BY <2>1 DEF Counted, Blocked, Exists
  <2> QED BY <2>1, <2>2, FullCounts
<1>6. ASSUME NEW t \in Counted PROVE Counted' # {} \/ SlotUnused'
  <2>1. t \in Tasks /\ Started(t) /\ ~(status[t] = "running" /\ Blocked(t))
    BY <1>0, <1>6, StartedCounts DEF Counted
  <2>2. CASE ~(status'[t] = "running" /\ Blocked(t)') BY <1>3, <2>1, <2>2, StartedCountsPrime
  <2>3. CASE status'[t] = "running" /\ Blocked(t)'
    <3>1. ~Blocked(t)
      <4>1. status[t] # "awaiting_report" BY <2>1, <2>3, CalmStatus
      <4> QED BY <2>1, <4>1 DEF Started
    <3>2. PICK p \in waiting' : p[1] = t BY <2>3 DEF Blocked
    <3>3. Await(t) BY <1>2, <3>1, <3>2 DEF Blocked, WaitMoves
    <3>4. PICK ts \in SUBSET Awaitable(t) :
             /\ waiting' = waiting \cup ({t} \X ts)
             /\ kick' = (kick \/ \E u \in ts : status[u] = "queued")
      BY <3>3 DEF Await
    <3>5. ASSUME NEW o \in waiting', o[1] = t PROVE status'[o[2]] \in {"running", "awaiting_report"}
      <4>1. o \notin waiting BY <3>1, <3>5 DEF Blocked
      <4>2. o[2] \in ts BY <3>4, <4>1
      <4>3. status[o[2]] \in Active \/ status[o[2]] = "interrupted" BY <3>4, <4>2 DEF Awaitable
      <4>4. status[o[2]] # "queued" BY <1>1, <3>4, <4>2
      <4>5. status' = status BY <3>3 DEF Await, disk
      <4>6. o[2] \in Tasks BY <1>2
      <4> QED BY <1>0, <4>3, <4>4, <4>5, <4>6 DEF Active
    <3> QED BY <2>1, <2>3, <3>5 DEF SlotUnused
  <2> QED BY <2>2, <2>3
<1>7. ASSUME NEW w \in Tasks, Blocked(w), \A p \in waiting : p[1] = w => Started(p[2])
      PROVE  Counted' # {} \/ SlotUnused'
  <2>1. status[w] = "running"
    <3>1. PICK p \in waiting : p[1] = w BY <1>7 DEF Blocked
    <3> QED BY <1>0, <1>7, <3>1 DEF WaitsOK
  <2>2. Started(w)' BY <1>3, <2>1 DEF Started
  <2>3. CASE Blocked(w)'
    <3>1. ~Await(w) BY <1>7 DEF Await, CanCall
    <3>2. ASSUME NEW p \in waiting', p[1] = w PROVE status'[p[2]] \in {"running", "awaiting_report"}
      <4>1. p \in waiting BY <1>2, <3>1, <3>2 DEF WaitMoves
      <4>2. Started(p[2]) /\ p[2] \in Tasks BY <1>2, <1>7, <3>2, <4>1
      <4> QED BY <1>3, <4>2 DEF Started
    <3> QED BY <2>3, <3>2 DEF SlotUnused
  <2>4. CASE ~Blocked(w)' BY <2>2, <2>4, StartedCountsPrime
  <2> QED BY <2>3, <2>4
<1> QED BY <1>4, <1>5, <1>6, <1>7 DEF SlotUnused, Started

\* The invariant of the queue.
LEMMA QueueInvariant == Spec => []QueueIInv
<1>1. Init => CalmOK
  <2> SUFFICES ASSUME Init PROVE Calm
    BY DEF CalmOK
  <2>1. /\ streaming = {Root} /\ queued = {} /\ waiting = {} /\ making = {} /\ pass = NoPass
        /\ (\A w \in Workspaces : inbox[w] = <<>>) /\ \A t \in Tasks : status[t] = "none"
        /\ \A h \in Handlers : handler[h].at = "idle"
    BY DEF Init, Idle
  <2>2. ASSUME NEW t \in Tasks PROVE Phase(t)
    <3>1. t \in Workspaces /\ t \in Handlers /\ t # Root BY TaskFacts
    <3>2. status[t] = "none" /\ inbox[t] = <<>> /\ handler[t].at = "idle" BY <2>1, <3>1
    <3>3. t \notin streaming /\ t \notin queued /\ ~Started(t) BY <2>1, <3>1, <3>2 DEF Started
    <3> QED BY <3>2, <3>3 DEF Phase
  <2> QED BY <2>1, <2>2 DEF Calm, ParentsWork, WaitsOK, PassOK, QueueOK, NoPass, Active
<1>2. QueueIInv /\ [Next]_vars => CalmOK'
  <2> SUFFICES ASSUME QueueIInv, [Next]_vars, ~OutOfOrder' PROVE Calm'
    BY DEF CalmOK
  <2> QED BY PhaseStep, ParentsWorkStep, WaitsStep, PassMoves, QueueStep DEF Calm
<1>3. []CleanIInv /\ [][Next]_vars /\ CalmOK => []CalmOK
  BY <1>2, PTL DEF QueueIInv
<1> QED BY <1>1, <1>3, CleanInvariant, PTL DEF Spec, QueueIInv

\* While nothing is out of order, nobody waits for everybody else: whoever is waited for waits or
\* queues itself, and the queue is stuck at most when some task waits only for tasks that have started,
\* and gave up its slot without a look at the queue (taskService.ts:2041-2074, 2405).
THEOREM NobodyStuck == Spec => []NothingStuck
<1>1. QueueIInv => NothingStuck
  <2> SUFFICES ASSUME QueueIInv, Stalled, ~OutOfOrder
               PROVE  /\ \A p \in waiting : status[p[2]] = "queued" \/ Blocked(p[2])
                      /\ (\E t \in Tasks : status[t] = "queued") => SlotUnused
    BY DEF NothingStuck
  <2>0. Calm /\ TypeOK /\ ParentsWork /\ WaitsOK /\ QueueOK
    BY DEF QueueIInv, CalmOK, Calm, CleanIInv, TaskIInv
  <2>1. /\ pass.by = Nobody /\ ~kick /\ \A h \in Handlers : handler[h].at = "idle"
        /\ \A w \in Workspaces : inbox[w] = <<>> /\ (w \in streaming => Blocked(w))
    BY DEF Stalled, MutexFree, NoPass
  <2>2. ASSUME NEW t \in Tasks, Started(t) PROVE Blocked(t) /\ t \in streaming
    <3>1. Phase(t) /\ t \in Workspaces /\ t \in Handlers BY <2>0, TaskFacts DEF Calm
    <3>2. t \in streaming BY <2>1, <2>2, <3>1 DEF Phase, AtWork, Ended, Judged
    <3> QED BY <2>1, <3>1, <3>2
  <2>3. ASSUME NEW p \in waiting PROVE status[p[2]] = "queued" \/ Blocked(p[2])
    <3>1. p[2] \in Tasks /\ p[2] \in Handlers BY <2>0, TaskFacts DEF TypeOK
    <3>2. status[p[2]] \in Active BY <2>0, <2>1, <3>1 DEF WaitsOK
    <3> QED BY <2>2, <3>1, <3>2 DEF Active, Started
  <2>4. Counted = {}
    <3> SUFFICES ASSUME NEW t \in Counted PROVE FALSE
      OBVIOUS
    <3>1. t \in Tasks /\ Phase(t) BY <2>0 DEF Counted, Calm
    <3>2. Started(t) /\ ~(status[t] = "running" /\ Blocked(t)) BY <3>1, StartedCounts
    <3>3. PICK p \in waiting : p[1] = t BY <2>2, <3>1, <3>2 DEF Blocked
    <3>4. status[t] = "running" BY <2>0, <3>1, <3>3 DEF WaitsOK
    <3> QED BY <3>2, <3>3, <3>4 DEF Blocked
  <2>5. ~PassDue BY <2>1 DEF PassDue
  <2> QED BY <2>0, <2>3, <2>4, <2>5 DEF QueueOK
<1> QED BY <1>1, QueueInvariant, PTL
=============================================================================
