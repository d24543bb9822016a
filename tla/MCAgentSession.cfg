\* Two messages and three turns at a time: a stream, what it hands over to and an edit.
CONSTANTS
    Messages = {m1, m2}
    Turns = {t1, t2, t3}
    NoTurn = NoTurn
    MaxSwitches = 1
    Scenarios <- AllScenarios
SPECIFICATION FairSpec
INVARIANTS TypeOK PhaseExplained MessageOnce IdleMeansIdle QueueNotStranded
PROPERTIES EditTruncatesAlone SessionSettles EditProceeds
\* Once every message is written nothing is left to do.
CHECK_DEADLOCK FALSE
