SPECIFICATION Spec
CONSTANTS
    t0 = t0  t1 = t1  t2 = t2
    r1 = r1  r2 = r2
    Tree = {t0, t1, t2}
    Incomplete = {t0}
    Baseline = Baseline
    Reviewer = {r1, r2}
    None = None
    ReviewEnabled = TRUE
    RepairLimit = 1
    Attempts = 4
INVARIANTS TypeOK HealthyRunVerifies PendingReviewIsCurrent ContinuesWhatItLeft ReadyIsReviewed
