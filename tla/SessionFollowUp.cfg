CONSTANTS
    Messages = {m1, m2}
    Turns = {t1, t2, t3}
    NoTurn = NoTurn
    MaxSwitches = 1
    Scenarios <- CompactScenarios
SPECIFICATION Spec
PROPERTY QueueWaitsForTurn
CHECK_DEADLOCK FALSE
