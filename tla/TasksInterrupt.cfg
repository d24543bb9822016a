SPECIFICATION Spec
CONSTANTS
    MaxTasks = 2
    MaxParallel = 1
    MaxResumes = 1
    Scenarios <- InterruptScenarios
PROPERTIES StaysInterrupted
CHECK_DEADLOCK FALSE
