SPECIFICATION Spec
CONSTANTS
    Member = {r1, r2, r3}
    Budgets = {3}
    MaxConcurrent = 2
    QueueCapacity = 1
    StreamCapacity = 1
    BatchWindow = TRUE
INVARIANTS
    StreamWellFormed
    JobsCoverBatch
    AdmissionNeverBlocks
    NoTokenSkipped
    EndExplained
SYMMETRY RequestSymmetry
CHECK_DEADLOCK FALSE
