CONSTANTS
    Streams = {s1, s2}
    Stoppers = {k1}
    MaxParts = 2
    NoStream = NoStream
SPECIFICATION Spec
INVARIANTS StreamInv NoSilentExit AbortKeepsOutput
PROPERTIES RegistersOnlyWhenFree NothingAfterAbort StartReturns CancelReturns
CHECK_DEADLOCK FALSE
