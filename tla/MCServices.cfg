SPECIFICATION MCSpec
CONSTANTS
    Callers = {c1, c2, c3, c4}
    Operations = {o1, o2, o3, o4}
    Compactable = {w1, w2, w3}
    MaxFlows = 3
    FlowWaiters = {p, q}
    InitWaiters = {t1, t2}
    MaxBytes = 2
    Readers = {r1, r2}
    McpNames = {a, b}
    McpCalls = {d1, d2}
    MaxInstances = 3
    MaxEntries = 2
    MaxConfigs = 2
SYMMETRY Alike
CONSTRAINT UntilClash
INVARIANTS InOrder QueueIsServed FlowsAreSettled EndIsOnDisk NobodyLeftWaiting OutputOnce NoServerLost
PROPERTIES ImplementsLock NoStartAfterAbort LeaseProtects
\* Every tool call, init and flow comes to its end.
CHECK_DEADLOCK FALSE
