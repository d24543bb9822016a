\* Everything that touches the files: a fork, a stop's handler of its own, truncation over
\* a waiting partial and two crashes.  Three messages are a user message and two streams, or
\* one stream and a report.
CONSTANTS
    Messages = {m1, m2, m3}
    Forks = {f1}
    Stops = {s1}
    MaxParts = 2
    MaxCrashes = 2
    NoMessage = NoMessage
    Unset = Unset
SPECIFICATION Spec
SYMMETRY Symmetry
INVARIANTS HistoryInv PartialIsCurrent IncreaseUndisturbed
PROPERTIES AbortedOutputCommitted RowKeepsItsMessage RemovedUndisturbed
\* Once the messages are used up and the session is idle nothing is left to do.
CHECK_DEADLOCK FALSE
