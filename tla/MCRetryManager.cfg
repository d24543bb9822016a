\* Seven control calls are enough for two overlapping retries, a stop from inside
\* each listener and a re-enable before a stale timer fires.
CONSTANTS
    MaxGeneration = 7
    Reactions = {"ignore", "cancel", "disable"}
SPECIFICATION Spec
INVARIANT RetryInv
PROPERTIES RetryOnlyWhenOwed OwedRetryIsSettled
\* The bound on generations stops a long history of calls.
CHECK_DEADLOCK FALSE
