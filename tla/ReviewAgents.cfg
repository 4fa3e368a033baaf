SPECIFICATION FairSpec
CONSTANTS
    None = None
    Past = Past
    Foreign = Foreign
    Refused = Refused
    Processes = 2
    MaxAttempts = 2
    Retries = 1
    Restarts = 1
INVARIANTS NoReviewerLeft AnswerIsOwn CanceledIsStopped
PROPERTIES RefinesContract ReviewEnds ReviewersEnd
CHECK_DEADLOCK FALSE
