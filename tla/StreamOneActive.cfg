\* Three messages: the stopped one, the one whose entry is lost, the one started beside it.
CONSTANTS
    Streams = {s1, s2, s3}
    Stoppers = {k1}
    MaxParts = 1
    NoStream = NoStream
SPECIFICATION Spec
INVARIANT OnlyOneActiveStream
CHECK_DEADLOCK FALSE
