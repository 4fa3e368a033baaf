SPECIFICATION FairSpec
CONSTANTS
    Paths = 3
    Type <- MCType
    Edits = 2
    Faults = TRUE
INVARIANTS
    TypeOK
    CheckedEditsSurvive
    TemporariesRemoved
PROPERTIES
    RefinesApplyOutcome
    ApplySettles
CHECK_DEADLOCK FALSE
