SPECIFICATION Spec
CONSTANTS
    MaxTasks = 2
    MaxParallel = 1
    MaxResumes = 1
    Scenarios <- MCScenarios
INVARIANTS TypeOK LeavesReport NoOrphans CleanedUp NothingStuck
PROPERTIES ReportedStays
\* All tasks may be done and the root silent.
CHECK_DEADLOCK FALSE
