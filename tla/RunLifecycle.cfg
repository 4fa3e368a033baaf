SPECIFICATION FairSpec
CONSTANTS
    RepairLimit = 1
    NoProgressLimit = 1
    ReviewEnabled = TRUE
    Faults = TRUE
    Restarts = TRUE
    Requests = 1
    Failures = 1
INVARIANTS TypeOK FinishedIsSettled OnlyAcceptedIsPublished
PROPERTIES CancellationSticks AppliesOnce TasksEnd
CHECK_DEADLOCK FALSE
