--------------------------- MODULE BackgroundProcess ---------------------------
(***************************************************************************)
(* node/services/backgroundProcessManager.ts for one process spawned by    *)
(* backgroundProcessExecutor.ts: it writes output.log, several tool calls  *)
(* read what is new with getOutput(), and terminate() kills it.  Bytes are *)
(* their positions in the log, of which some end a line, some belong to a  *)
(* character of two bytes and the others are characters.  A read of the    *)
(* log, which goes to its end, is one step, and so is a getProcess() that  *)
(* finds the exit code.  Lines that a filter rejects count as taken: the   *)
(* code discards them for good.                                            *)
(***************************************************************************)
EXTENDS Naturals, Sequences, FiniteSets

CONSTANTS MaxBytes, Readers

ASSUME MaxBytesAssumption == MaxBytes \in Nat

VARIABLES
    newlines,    \* the bytes of the log that end a line
    noise,       \* ... a line that filter_exclude rejects
    leads,       \* ... that begin a character of two bytes
    trails,      \* ... and that continue one
    logSize,     \* bytes in output.log
    exitedAt,    \* logSize when the exit code was written, or Running
    procStatus,  \* proc.status: "running", "exited", "killed"
    termination, \* terminate(): "idle", "kill", "killed"
    bytesRead,   \* proc.outputBytesRead
    fragment,    \* proc.incompleteLineBuffer
    outputLock,  \* the calls that hold proc.outputLock
    reader,      \* each getOutput(): where it is, the status it saw, previousBuffer and accumulatedRaw
    taken,       \* ghost: the bytes that calls returned or filtered away
    dropped,     \* ghost: an interrupted call had read a part of a line
    endTold      \* ghost: a call returned another status than running

procVars == <<newlines, noise, leads, trails, logSize, exitedAt, procStatus, termination, bytesRead, fragment,
              outputLock, reader, taken, dropped, endTold>>
logVars == <<newlines, noise, leads, trails, logSize, exitedAt>>

Running == MaxBytes + 1
Replacement == 0    \* the character U+FFFD, of three bytes
Bytes(from, to) == [i \in 1 .. to - from |-> from + i]
NoCall == [at |-> "none", saw |-> "running", picky |-> FALSE, before |-> <<>>, raw |-> <<>>, fresh |-> FALSE]

ProcInit ==
    /\ newlines = {} /\ noise = {} /\ leads = {} /\ trails = {} /\ logSize = 0 /\ exitedAt = Running
    /\ procStatus = "running" /\ termination = "idle"
    /\ bytesRead = 0 /\ fragment = <<>> /\ outputLock = {}
    /\ reader = [r \in Readers |-> NoCall]
    /\ taken = <<>> /\ dropped = FALSE /\ endTold = FALSE

-----------------------------------------------------------------------------
(* The process and terminate() *)

\* A child of the script may write on after the script has exited.
ProcWrites ==
    /\ logSize < MaxBytes
    /\ logSize' = logSize + 1
    /\ \E kind \in {"character", "line", "noise", "lead", "trail"} :
           /\ newlines' = IF kind \in {"line", "noise"} THEN newlines \cup {logSize'} ELSE newlines
           /\ noise' = IF kind = "noise" THEN noise \cup {logSize'} ELSE noise
           /\ leads' = IF kind = "lead" THEN leads \cup {logSize'} ELSE leads
           /\ trails' = IF kind = "trail" THEN trails \cup {logSize'} ELSE trails
    /\ UNCHANGED <<exitedAt, procStatus, termination, bytesRead, fragment, outputLock,
                   reader, taken, dropped, endTold>>

\* The trap, or the command that kills the process group, writes the exit code.
Exits == exitedAt' = IF exitedAt = Running THEN logSize ELSE exitedAt

ProcExits ==
    /\ exitedAt = Running
    /\ Exits
    /\ UNCHANGED <<newlines, noise, leads, trails, logSize, procStatus, termination, bytesRead, fragment, outputLock,
                   reader, taken, dropped, endTold>>

TerminateBegins ==
    /\ termination = "idle" /\ procStatus = "running"
    /\ termination' = "kill"
    /\ UNCHANGED <<logVars, procStatus, bytesRead, fragment, outputLock, reader, taken, dropped, endTold>>

HandleTerminates ==
    /\ termination = "kill"
    /\ termination' = "killed"
    /\ Exits
    /\ UNCHANGED <<newlines, noise, leads, trails, logSize, procStatus, bytesRead, fragment, outputLock, reader, taken,
                   dropped, endTold>>

TerminateEnds ==
    /\ termination = "killed"
    /\ termination' = "idle" /\ procStatus' = "killed"
    /\ UNCHANGED <<logVars, bytesRead, fragment, outputLock, reader, taken, dropped, endTold>>

-----------------------------------------------------------------------------
(* getOutput() *)

Moves(r, at) == reader' = [reader EXCEPT ![r].at = at]

\* getProcess() of a process that was running: what the exit code says may overwrite a termination.
Refresh == procStatus' = IF exitedAt # Running THEN "exited" ELSE procStatus

Rest == <<logVars, termination>>

GetOutput(r) ==
    /\ reader[r].at = "none"
    /\ \E picky \in BOOLEAN :
           reader' = [reader EXCEPT ![r] = [NoCall EXCEPT !.at = IF procStatus = "running" THEN "look" ELSE "lock",
                                                          !.picky = picky]]
    /\ UNCHANGED <<Rest, procStatus, bytesRead, fragment, outputLock, taken, dropped, endTold>>

Looked(r) ==
    /\ reader[r].at = "look"
    /\ Refresh /\ Moves(r, "lock")
    /\ UNCHANGED <<Rest, bytesRead, fragment, outputLock, taken, dropped, endTold>>

\* A mutant of the next definition: concurrent calls are not serialised.
LockNotAwaited(r) ==
    /\ reader[r].at = "lock"
    /\ outputLock' = outputLock \cup {r}
    /\ reader' = [reader EXCEPT ![r].at = "read", ![r].saw = procStatus, ![r].before = fragment]
    /\ UNCHANGED <<Rest, procStatus, bytesRead, fragment, taken, dropped, endTold>>

LockAcquired(r) ==
    /\ reader[r].at = "lock" /\ outputLock = {}
    /\ outputLock' = {r}
    /\ reader' = [reader EXCEPT ![r].at = "read", ![r].saw = procStatus, ![r].before = fragment]
    /\ UNCHANGED <<Rest, procStatus, bytesRead, fragment, taken, dropped, endTold>>

\* The bytes of a read that the decoder replaces: half a character, written so or cut by the read.
Broken(from, to) ==
    {p \in from + 1 .. to : \/ p \in leads /\ ~(p < to /\ p + 1 \in trails)
                            \/ p \in trails /\ ~(p > from + 1 /\ p - 1 \in leads)}

Decoded(from, to) ==
    [i \in 1 .. to - from |-> IF from + i \in Broken(from, to) THEN Replacement ELSE from + i]

\* handle.readOutput(): all that is new, decoded and added to accumulatedRaw.  The offset advances
\* by the bytes of the decoded string.
Reads(r, next) ==
    /\ bytesRead' = IF bytesRead < logSize THEN logSize + 2 * Cardinality(Broken(bytesRead, logSize))
                    ELSE bytesRead
    /\ reader' = [reader EXCEPT ![r] = next, ![r].raw = reader[r].raw \o Decoded(bytesRead, logSize)]

PollReads(r) ==
    /\ reader[r].at = "read"
    /\ Reads(r, [reader[r] EXCEPT !.at = IF procStatus = "running" THEN "relook" ELSE "judge"])
    /\ UNCHANGED <<Rest, procStatus, fragment, outputLock, taken, dropped, endTold>>

Relooked(r) ==
    /\ reader[r].at = "relook"
    /\ Refresh /\ Moves(r, "judge")
    /\ UNCHANGED <<Rest, bytesRead, fragment, outputLock, taken, dropped, endTold>>

Buffer(r) == reader[r].before \o reader[r].raw

\* hasMeaningfulOutput: a complete line, which the filter does not exclude.
Meaningful(r) ==
    \E i \in DOMAIN Buffer(r) : Buffer(r)[i] \in newlines \ (IF reader[r].picky THEN noise ELSE {})

\* The status is taken from the refreshed process; with nothing to say about a running process
\* the call sleeps and polls again, or its timeout is over.
Judge(r) ==
    /\ reader[r].at = "judge"
    /\ \E at \in IF Meaningful(r) THEN {IF procStatus = "running" THEN "return" ELSE "drain"}
                 ELSE IF procStatus # "running" THEN {"last"} ELSE {"read", "return"} :
           reader' = [reader EXCEPT ![r].at = at, ![r].saw = procStatus]
    /\ UNCHANGED <<Rest, procStatus, bytesRead, fragment, outputLock, taken, dropped, endTold>>

\* The stream was aborted, or a message was queued: the call returns without what it has read.
Interrupted(r) ==
    /\ reader[r].at = "judge" /\ ~Meaningful(r) /\ procStatus = "running"
    /\ outputLock' = outputLock \ {r}
    /\ reader' = [reader EXCEPT ![r] = NoCall]
    /\ LET raw == reader[r].raw
           whole == reader[r].before = <<>> /\ raw # <<>> /\ raw[Len(raw)] \in newlines
       IN  /\ taken' = IF whole THEN taken \o raw ELSE taken
           /\ dropped' = (dropped \/ (raw # <<>> /\ ~whole))
    /\ UNCHANGED <<Rest, procStatus, bytesRead, fragment, endTold>>

\* The last reads of a process that is not running: in the loop until nothing comes ("last"), after
\* it ("drain"), and once more after a pause if nothing came ("again").
Drain(r) ==
    /\ reader[r].at \in {"last", "drain", "again"}
    /\ IF bytesRead < logSize THEN Reads(r, [reader[r] EXCEPT !.fresh = (reader[r].at # "last")])
       ELSE /\ UNCHANGED bytesRead
            /\ Moves(r, IF reader[r].at = "last" THEN "drain"
                        ELSE IF reader[r].at = "drain" /\ ~reader[r].fresh THEN "again" ELSE "return")
    /\ UNCHANGED <<Rest, procStatus, fragment, outputLock, taken, dropped, endTold>>

\* Complete lines are returned, and the rest too once the process is not running.
Returns(r) ==
    /\ reader[r].at = "return"
    /\ LET all == Buffer(r)
           ends == {0} \cup {i \in DOMAIN all : all[i] \in newlines}
           cut == IF reader[r].saw # "running" THEN Len(all)
                  ELSE CHOOSE i \in ends : \A j \in ends : j <= i
       IN  /\ taken' = taken \o SubSeq(all, 1, cut)
           /\ fragment' = SubSeq(all, cut + 1, Len(all))
    /\ endTold' = (endTold \/ reader[r].saw # "running")
    /\ outputLock' = outputLock \ {r}
    /\ reader' = [reader EXCEPT ![r] = NoCall]
    /\ UNCHANGED <<Rest, procStatus, bytesRead, dropped>>

ProcNext ==
    \/ ProcWrites \/ ProcExits \/ TerminateBegins \/ HandleTerminates \/ TerminateEnds
    \/ \E r \in Readers : \/ GetOutput(r) \/ Looked(r) \/ LockAcquired(r) \/ PollReads(r) \/ Relooked(r)
                          \/ Judge(r) \/ Interrupted(r) \/ Drain(r) \/ Returns(r)

ProcSpec == ProcInit /\ [][ProcNext]_procVars

-----------------------------------------------------------------------------
\* The bytes between those taken and the read position.
Held == IF outputLock = {} THEN fragment ELSE Buffer(CHOOSE r \in Readers : r \in outputLock)

\* "Returns only NEW output since the last call": however calls of parallel tools, the exit and the
\* termination interleave, every byte is returned once and in order, none is lost between two
\* calls, and a call that reports the end has returned all that was written up to it.  Whatever is
\* lost is announced: an interrupted call may have dropped it, or there is a replacement character
\* in the output.
OutputOnce ==
    LET told == taken \o Held
    IN  ~dropped /\ (\A i \in DOMAIN told : told[i] # Replacement) =>
            /\ told = Bytes(0, bytesRead)
            /\ endTold => exitedAt <= Len(taken)

\* "Incomplete line fragments (no trailing newline) are kept in buffer for next read" (line 550):
\* not by an interrupted call, which has advanced the read position all the same.
FragmentsKept == ~dropped

\* The read position is one of the log: not after a read has split a character in two.
OffsetInLog == bytesRead <= logSize
===============================================================================
