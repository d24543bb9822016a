\* A task stops while its own task is at work, and the root waits for both.
SPECIFICATION Spec
CONSTANTS
    MaxTasks = 2
    MaxParallel = 2
    MaxResumes = 1
    Scenarios <- EarlyScenarios
INVARIANTS ResumedAfterLast
CHECK_DEADLOCK FALSE
