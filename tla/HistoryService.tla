---------------------------- MODULE HistoryService ----------------------------
(***************************************************************************)
(* src/node/services/historyService.ts: chat.jsonl (rows), partial.json    *)
(* and the in-memory sequence counter of one workspace, driven by the      *)
(* callers that write them: the session's turn (commit what an earlier     *)
(* stream left, append a placeholder, stream into it, end, abort or fail), *)
(* compaction, reports of subagents, truncation by the user, forks of the  *)
(* workspace, stops that find no stream, and crashes.  Every operation     *)
(* under the workspace's file lock is one step; commitPartial, which takes *)
(* the lock only for its writes, is four.                                  *)
(***************************************************************************)
EXTENDS Naturals, Sequences, FiniteSets, SequencesExt

CONSTANTS
    Messages,    \* message ids, each created once
    Forks,       \* workspace forks, each of which may commit the partial once
    Stops,       \* stops beside the turn, each with an abort event of its own
    MaxParts,    \* bound on the parts of a message
    MaxCrashes,  \* bound on crashes
    NoMessage,
    Unset        \* sequenceCounters has no entry for the workspace

ASSUME HistoryAssumption ==
    /\ NoMessage \notin Messages
    /\ "turn" \notin Forks \cup Stops
    /\ Forks \cap Stops = {}
    /\ MaxParts \in Nat \ {0}
    /\ MaxCrashes \in Nat
    /\ Unset \notin Nat

VARIABLES
    rows,     \* chat.jsonl
    partial,  \* partial.json
    counter,  \* sequenceCounters.get(workspaceId)
    turn,     \* what the session's turn does next
    stream,   \* the message being streamed, as StreamManager holds it
    commits,  \* progress of each caller's commitPartial
    unused,   \* message ids not created yet
    crashes,
    disturbed \* ghost: a commit was disturbed (Disturbs)

vars == <<rows, partial, counter, turn, stream, commits, unused, crashes, disturbed>>

Callers == {"turn"} \cup Forks \cup Stops
Turn == {"idle", "commit", "placeholder", "starting", "live", "flushed", "update", "compact", "summary",
         "abort", "abandon", "failed", "discard"}
Idle == [id |-> NoMessage, seq |-> 0, parts |-> 0]
NoCommit == [pc |-> "idle", read |-> Idle, known |-> FALSE, parts |-> 0]

Init ==
    /\ rows = <<>>
    /\ partial = Idle
    /\ counter = Unset
    /\ turn = "idle"
    /\ stream = Idle
    /\ commits = [c \in Callers |-> NoCommit]
    /\ unused = Messages
    /\ crashes = 0
    /\ disturbed = FALSE

----------------------------------------------------------------------------
(* Rows and sequence numbers *)

Row(m, seq, parts) == [id |-> m, seq |-> seq, parts |-> parts, boundary |-> FALSE]

\* Mutant: after a restart the rows are counted.
NextSequenceByCount == IF counter # Unset THEN counter ELSE Len(rows)

\* getNextHistorySequence: without a counter, one more than the last row's number.
NextSequence ==
    IF counter # Unset THEN counter
    ELSE IF rows = <<>> THEN 0
    ELSE Last(rows).seq + 1

\* One more than the largest number of the rows kept.
AfterLargest(kept) == Max({0} \cup {kept[i].seq + 1 : i \in DOMAIN kept})

\* Where the latest compaction boundary starts: row 1 when there is none.
LatestBoundary == Max({1} \cup {i \in DOMAIN rows : rows[i].boundary})

Numbered(seq) == {i \in DOMAIN rows : rows[i].seq = seq}

\* updateHistory: the first row with the message's number becomes the message; a
\* compaction boundary stays one.
UpdateRow(m, boundary) ==
    LET i == Min(Numbered(m.seq))
    IN  rows' = [rows EXCEPT ![i] = [id |-> m.id, seq |-> m.seq, parts |-> m.parts,
                                     boundary |-> rows[i].boundary \/ boundary]]

\* appendToHistory of a message without a number.
AppendNew(m, parts) ==
    /\ rows' = Append(rows, Row(m, NextSequence, parts))
    /\ counter' = NextSequence + 1
    /\ unused' = unused \ {m}

----------------------------------------------------------------------------
(* commitPartial *)

Commit(c, next) == commits' = [commits EXCEPT ![c] = next]

\* commitPartial returns to its caller.  The turn goes on to its placeholder unless
\* the commit failed; an abort handler deletes the partial in either case.
Return(c, ok) ==
    /\ Commit(c, [NoCommit EXCEPT !.pc = IF c = "turn" THEN "idle" ELSE IF c \in Stops THEN "delete" ELSE "done"])
    /\ \/ c # "turn" /\ UNCHANGED turn
       \/ c = "turn" /\ turn = "abort" /\ turn' = "abandon"
       \/ c = "turn" /\ turn = "commit" /\ turn' = IF ok THEN "placeholder" ELSE "idle"

MayCommit(c) ==
    \/ c = "turn" /\ commits[c].pc = "idle" /\ turn \in {"commit", "abort"}
    \/ c \in Forks /\ commits[c].pc = "idle" /\ turn \in {"live", "flushed", "update"}
    \/ c \in Stops /\ commits[c].pc = "read"

\* readPartial, without the lock; with no partial there is nothing to do.
CommitRead(c) ==
    /\ MayCommit(c)
    /\ IF partial = Idle
       THEN Return(c, TRUE)
       ELSE Commit(c, [NoCommit EXCEPT !.pc = "look", !.read = partial]) /\ UNCHANGED turn
    /\ UNCHANGED <<rows, partial, counter, stream, unused, crashes>>

\* getHistoryFromLatestBoundary, without the lock: the row with the partial's number.
CommitLook(c) ==
    /\ commits[c].pc = "look"
    /\ LET found == {i \in Numbered(commits[c].read.seq) : i >= LatestBoundary}
       IN  Commit(c, [commits[c] EXCEPT
               !.pc = "write",
               !.known = found # {},
               !.parts = IF found = {} THEN 0 ELSE rows[Min(found)].parts])
    /\ UNCHANGED <<rows, partial, counter, turn, stream, unused, crashes>>

\* Mutant: a message that is in chat.jsonl is left as it is.
ShouldCommitNew(x) == ~x.known /\ x.read.parts > 0

\* Not in history, or there with fewer parts; and something worth keeping.
ShouldCommit(x) == (~x.known \/ x.read.parts > x.parts) /\ x.read.parts > 0

\* updateHistory or appendToHistory of the partial as it was read.
CommitWrite(c) ==
    LET x == commits[c]
        numbered == Numbered(x.read.seq)
    IN  /\ x.pc = "write"
        /\ \/ /\ ShouldCommit(x) /\ x.known /\ numbered # {}
              /\ UpdateRow(x.read, FALSE)
              /\ Commit(c, [x EXCEPT !.pc = "drop"])
              /\ UNCHANGED <<counter, turn>>
           \/ /\ ShouldCommit(x) /\ x.known /\ numbered = {}
              /\ Return(c, FALSE)
              /\ UNCHANGED <<rows, counter>>
           \/ /\ ShouldCommit(x) /\ ~x.known
              /\ rows' = Append(rows, Row(x.read.id, x.read.seq, x.read.parts))
              /\ counter' = IF counter # Unset /\ counter > x.read.seq THEN counter
                            ELSE x.read.seq + 1
              /\ Commit(c, [x EXCEPT !.pc = "drop"])
              /\ UNCHANGED turn
           \/ /\ ~ShouldCommit(x)
              /\ Commit(c, [x EXCEPT !.pc = "drop"])
              /\ UNCHANGED <<rows, counter, turn>>
        /\ UNCHANGED <<partial, stream, unused, crashes>>

\* Mutant: the committed partial stays on disk.
CommitKeepsPartial(c) ==
    /\ commits[c].pc = "drop"
    /\ Return(c, TRUE)
    /\ UNCHANGED <<rows, partial, counter, stream, unused, crashes>>

\* deletePartial, whatever partial.json holds by now.
CommitDrop(c) ==
    /\ commits[c].pc = "drop"
    /\ partial' = Idle
    /\ Return(c, TRUE)
    /\ UNCHANGED <<rows, counter, stream, unused, crashes>>

\* A stop that finds no stream, or one that has ended, emits stream-abort all the same, and
\* AIService's handler runs for it beside whatever the turn does, awaited by nobody: it
\* deletes the partial, or looks whether there is one to commit.
AbortBeside(c) ==
    /\ commits[c].pc = "idle"
    /\ turn \notin {"live", "flushed"}
    /\ \/ Commit(c, [NoCommit EXCEPT !.pc = "delete"])
       \/ Commit(c, [NoCommit EXCEPT !.pc = IF partial = Idle THEN "done" ELSE "read"])
    /\ UNCHANGED <<rows, partial, counter, turn, stream, unused, crashes>>

\* The handler's deletePartial.
AbortDeletes(c) ==
    /\ commits[c].pc = "delete"
    /\ partial' = Idle
    /\ Commit(c, [NoCommit EXCEPT !.pc = "done"])
    /\ UNCHANGED <<rows, counter, turn, stream, unused, crashes>>

CommitStep(c) == CommitRead(c) \/ CommitLook(c) \/ CommitWrite(c) \/ CommitDrop(c)

----------------------------------------------------------------------------
(* The session's turn and its stream *)

\* A message without a number: the user's, a snapshot, or a subagent's report, which
\* TaskService appends whatever the session is doing.
AppendMessage(m) ==
    /\ m \in unused
    /\ AppendNew(m, 1)
    /\ UNCHANGED <<partial, turn, stream, commits, crashes>>

\* streamWithHistory, for a message just sent, a resume or a retry.
BeginTurn ==
    /\ turn = "idle"
    /\ turn' = "commit"
    /\ UNCHANGED <<rows, partial, counter, stream, commits, unused, crashes>>

\* The turn fails before its stream is registered, or the workspace's history is
\* empty; a placeholder appended by then stays.
StartupFails ==
    /\ turn \in {"placeholder", "starting"}
    /\ turn' = "idle"
    /\ stream' = Idle
    /\ UNCHANGED <<rows, partial, counter, commits, unused, crashes>>

\* aiService.streamMessage appends the assistant's placeholder and starts the stream.
Placeholder(m) ==
    /\ turn = "placeholder"
    /\ rows # <<>>
    /\ m \in unused
    /\ stream' = [id |-> m, seq |-> NextSequence, parts |-> 0]
    /\ AppendNew(m, 0)
    /\ turn' = "starting"
    /\ UNCHANGED <<partial, commits, crashes>>

StartStream ==
    /\ turn = "starting"
    /\ turn' = "live"
    /\ UNCHANGED <<rows, partial, counter, stream, commits, unused, crashes>>

\* deleteMessage: the rows of other messages stay in their order; the counter never goes back.
DeleteMessage(m) ==
    LET kept == {i \in DOMAIN rows : rows[i].id # m}
    IN  IF kept = DOMAIN rows
        THEN UNCHANGED <<rows, counter>>
        ELSE /\ \E e \in [1 .. Cardinality(kept) -> kept] :
                    /\ \A i, j \in DOMAIN e : i < j => e[i] < e[j]
                    /\ rows' = [i \in DOMAIN e |-> rows[e[i]]]
             /\ counter' = IF counter # Unset /\ counter >= AfterLargest(rows') THEN counter
                           ELSE AfterLargest(rows')

\* Interrupted before the stream was registered: deleteAbortedPlaceholder.
StartAborted ==
    /\ turn = "starting"
    /\ DeleteMessage(stream.id)
    /\ stream' = Idle
    /\ turn' = "idle"
    /\ UNCHANGED <<partial, commits, unused, crashes>>

Produce ==
    /\ turn = "live"
    /\ stream.parts < MaxParts
    /\ stream' = [stream EXCEPT !.parts = @ + 1]
    /\ UNCHANGED <<rows, partial, counter, turn, commits, unused, crashes>>

\* writePartial, throttled by the stream.
WritePartial ==
    /\ turn = "live"
    /\ partial' = stream
    /\ UNCHANGED <<rows, counter, turn, stream, commits, unused, crashes>>

\* interruptStream with abandonPartial deletes the partial before it stops the stream.
DeleteBeforeStop ==
    /\ turn = "live"
    /\ partial' = Idle
    /\ UNCHANGED <<rows, counter, turn, stream, commits, unused, crashes>>

\* The final flush, on a normal end and on an abort.
FinalFlush ==
    /\ turn = "live"
    /\ partial' = stream
    /\ turn' = "flushed"
    /\ UNCHANGED <<rows, counter, stream, commits, unused, crashes>>

\* A normal end deletes partial.json and then writes the final message.
EndDelete ==
    /\ turn = "flushed"
    /\ stream.parts > 0
    /\ partial' = Idle
    /\ turn' = "update"
    /\ UNCHANGED <<rows, counter, stream, commits, unused, crashes>>

\* A compaction stream goes on to compactionHandler.
EndUpdate ==
    /\ turn = "update"
    /\ IF Numbered(stream.seq) # {} THEN UpdateRow(stream, FALSE) ELSE UNCHANGED rows
    /\ \/ turn' = "idle" /\ stream' = Idle
       \/ turn' = "compact" /\ UNCHANGED stream
    /\ UNCHANGED <<partial, counter, commits, unused, crashes>>

\* performCompaction deletes partial.json, then makes the streamed row the summary.
CompactDelete ==
    /\ turn = "compact"
    /\ partial' = Idle
    /\ turn' = "summary"
    /\ UNCHANGED <<rows, counter, stream, commits, unused, crashes>>

CompactUpdate ==
    /\ turn = "summary"
    /\ IF Numbered(stream.seq) # {} THEN UpdateRow(stream, TRUE) ELSE UNCHANGED rows
    /\ turn' = "idle"
    /\ stream' = Idle
    /\ UNCHANGED <<partial, counter, commits, unused, crashes>>

\* The stream is stopped: the handler of its stream-abort commits the partial, or drops it
\* when it was to be abandoned, and the session waits for the event it then forwards.
Abort ==
    /\ turn = "flushed"
    /\ turn' \in {"abort", "abandon"}
    /\ UNCHANGED <<rows, partial, counter, stream, commits, unused, crashes>>

AbandonPartial ==
    /\ turn = "abandon"
    /\ partial' = Idle
    /\ turn' = "idle"
    /\ stream' = Idle
    /\ UNCHANGED <<rows, counter, commits, unused, crashes>>

\* persistStreamError leaves the output and the error in partial.json.
StreamFails ==
    /\ turn = "live" \/ (turn = "flushed" /\ stream.parts = 0)
    /\ partial' = stream
    /\ turn' = "failed"
    /\ UNCHANGED <<rows, counter, stream, commits, unused, crashes>>

\* No immediate retry: the partial waits for the next turn's commit.
FailureStands ==
    /\ turn = "failed"
    /\ turn' = "idle"
    /\ stream' = Idle
    /\ UNCHANGED <<rows, partial, counter, commits, unused, crashes>>

\* Mutant: only the row is cleared before an immediate retry.
DiscardNothing ==
    /\ turn = "failed"
    /\ turn' = "discard"
    /\ UNCHANGED <<rows, partial, counter, stream, commits, unused, crashes>>

\* clearFailedAssistantMessage before an immediate retry: the partial, then the row.
DiscardPartial ==
    /\ turn = "failed"
    /\ partial' = Idle
    /\ turn' = "discard"
    /\ UNCHANGED <<rows, counter, stream, commits, unused, crashes>>

DiscardMessage ==
    /\ turn = "discard"
    /\ DeleteMessage(stream.id)
    /\ stream' = Idle
    /\ turn' = "commit"
    /\ UNCHANGED <<partial, commits, unused, crashes>>

----------------------------------------------------------------------------
(* Truncation, only while no turn is active, and crashes *)

Keep(kept) ==
    /\ rows' = kept
    /\ counter' = AfterLargest(kept)
    /\ UNCHANGED <<partial, turn, stream, commits, unused, crashes>>

\* An edited message and everything after it, within the latest compaction epoch.
TruncateAfterMessage(i) ==
    /\ turn = "idle"
    /\ i >= LatestBoundary
    /\ Keep(SubSeq(rows, 1, i - 1))

\* /truncate removes the oldest rows, /clear all of them.
TruncateHistory(i) ==
    /\ turn = "idle"
    /\ Keep(SubSeq(rows, i + 1, Len(rows)))

\* Mutant: a commit survives the process it runs in.
CrashKeepsCommits ==
    /\ crashes < MaxCrashes
    /\ crashes' = crashes + 1
    /\ counter' = Unset
    /\ turn' = "idle"
    /\ stream' = Idle
    /\ UNCHANGED <<rows, partial, commits, unused>>

\* The process dies and starts again.
Crash ==
    /\ crashes < MaxCrashes
    /\ crashes' = crashes + 1
    /\ counter' = Unset
    /\ turn' = "idle"
    /\ stream' = Idle
    /\ commits' = [c \in Callers |->
           [NoCommit EXCEPT !.pc = IF c = "turn" \/ commits[c].pc = "idle" THEN "idle" ELSE "done"]]
    /\ UNCHANGED <<rows, partial, unused>>

----------------------------------------------------------------------------
Step ==
    \/ \E c \in Callers : CommitStep(c)
    \/ \E c \in Stops : AbortBeside(c) \/ AbortDeletes(c)
    \/ \E m \in Messages : AppendMessage(m) \/ Placeholder(m)
    \/ BeginTurn \/ StartupFails \/ StartStream \/ StartAborted \/ Produce \/ WritePartial
    \/ DeleteBeforeStop \/ FinalFlush \/ EndDelete \/ EndUpdate \/ CompactDelete \/ CompactUpdate
    \/ Abort \/ AbandonPartial \/ StreamFails \/ FailureStands \/ DiscardPartial \/ DiscardMessage
    \/ \E i \in DOMAIN rows : TruncateAfterMessage(i) \/ TruncateHistory(i)
    \/ Crash

History == {rows[i].id : i \in DOMAIN rows}

\* Caller c has read a partial that it has not dropped yet, or owes the commit of what its
\* stream has flushed.
Owes(c) == commits[c].pc \in {"look", "write", "drop"} \/ (c = "turn" /\ turn \in {"flushed", "abort"})

\* The step is somebody else's than c's.
Waits(c) == commits'[c] = commits[c] /\ (c = "turn" => turn' = turn)

\* partial.json changes under a caller that relies on it, or loses its row to a truncation.
Disturbs ==
    \/ partial' # partial /\ \E c \in Callers : Owes(c) /\ Waits(c)
    \/ turn = "idle" /\ partial' # Idle /\ partial'.id \in History \ History'

Next == Step /\ disturbed' = (disturbed \/ Disturbs)

Spec == Init /\ [][Next]_vars

----------------------------------------------------------------------------
Draft == [id : Messages \cup {NoMessage}, seq : Nat, parts : 0..MaxParts]

TypeOK ==
    /\ rows \in Seq([id : Messages, seq : Nat, parts : 0..MaxParts, boundary : BOOLEAN])
    /\ partial \in Draft
    /\ counter \in Nat \cup {Unset}
    /\ turn \in Turn
    /\ stream \in Draft
    /\ commits \in [Callers -> [pc : {"idle", "read", "look", "write", "drop", "delete", "done"},
                                read : Draft, known : BOOLEAN, parts : 0..MaxParts]]
    /\ unused \subseteq Messages
    /\ crashes \in 0..MaxCrashes
    /\ disturbed \in BOOLEAN

\* The turn's commitPartial runs only where the turn waits for it.
TurnWaitsForCommit == commits["turn"].pc # "idle" => turn \in {"commit", "abort"}

HistoryInv == TypeOK /\ TurnWaitsForCommit

\* Once a turn's commitPartial has returned, and until its own stream flushes, there
\* is no partial.json: no output of an earlier stream is left to be committed, or
\* overwritten, under the new one.
PartialIsCurrent ==
    /\ turn \in {"placeholder", "starting"} => partial = Idle
    /\ turn \in {"live", "flushed"} => partial = Idle \/ partial.id = stream.id

\* getNextHistorySequence (986-988): "sequence numbers are monotonically increasing, so
\* the last message always holds the max"; no two rows share one.
SequencesIncrease == \A i, j \in DOMAIN rows : i < j => rows[i].seq < rows[j].seq

\* That is so until a commit is disturbed.
IncreaseUndisturbed == ~disturbed => SequencesIncrease

\* What an interrupted stream produced is in chat.jsonl when its abort is reported, until
\* a commit is disturbed.
AbortedOutputCommitted ==
    [][~disturbed /\ turn = "abort" /\ turn' = "abandon" =>
         \E i \in DOMAIN rows : rows[i].id = stream.id /\ rows[i].parts = stream.parts]_vars

\* updateHistory never writes a message over another one, until a commit is disturbed.
RowKeepsItsMessage ==
    [][~disturbed /\ Len(rows) = Len(rows') => \A i \in DOMAIN rows : rows[i].id = rows'[i].id]_vars

\* "All history is permanently removed" (docs/workspaces/compaction/manual.mdx:110): a
\* message that has left chat.jsonl does not come back.
RemovedStaysRemoved ==
    [][\A m \in Messages \ (unused \cup History) : m \notin History']_vars

\* That is so until a commit is disturbed, or a partial has lost its row.
RemovedUndisturbed ==
    [][~disturbed => \A m \in Messages \ (unused \cup History) : m \notin History']_vars

\* commitPartial (904): "If the partial has already been finalized in history, it is not
\* committed again", so no row is replaced by an earlier state of its message.
RowNeverShrinks ==
    [][\A i \in DOMAIN rows, j \in DOMAIN rows' :
         rows[i].id = rows'[j].id => rows[i].parts <= rows'[j].parts]_vars

\* What chat.jsonl and partial.json together hold of message m.
OnDisk(m) ==
    Max({0} \cup {rows[i].parts : i \in {j \in DOMAIN rows : rows[j].id = m}}
            \cup {n \in {partial.parts} : partial.id = m})

\* The final flush "provides crash resilience before AIService writes to chat.jsonl"
\* (streamManager.ts:2054): a crash after it loses nothing of the message.
CrashKeepsOutput ==
    [][crashes' > crashes /\ turn \in {"flushed", "update"} => OnDisk(stream.id) = stream.parts]_vars
=============================================================================
