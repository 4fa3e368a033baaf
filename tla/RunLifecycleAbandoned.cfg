SPECIFICATION Spec
CONSTANTS
    RepairLimit = 1
    NoProgressLimit = 1
    ReviewEnabled = TRUE
    Faults = FALSE
    Restarts = FALSE
    Requests = 0
    Failures = 0
INVARIANT
    NoAbandonedRun
CHECK_DEADLOCK FALSE
