SPECIFICATION Spec
CONSTANTS
    MaxTasks = 4
    MaxParallel = 1
    MaxResumes = 1
    Scenarios <- CalmScenarios
INVARIANTS WaitsGiveWay
CHECK_DEADLOCK FALSE
