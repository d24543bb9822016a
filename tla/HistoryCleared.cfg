\* A stream fails, its history is cleared, the next turn commits its partial.
SPECIFICATION Spec
CONSTANTS
    Messages = {m1, m2}
    Forks = {}
    Stops = {}
    MaxParts = 2
    MaxCrashes = 1
    NoMessage = NoMessage
    Unset = Unset
CHECK_DEADLOCK FALSE
PROPERTY RemovedStaysRemoved
