SPECIFICATION FairSpec
CONSTANTS
    Member = {m1, m2}
    Caller = {c1, c2}
    AdmitCall = {a1}
    MaxConcurrent = 2
    PromptLengths = {1}
    Budgets = {2}
    MaxContext = 3
    Abandonment = FALSE
    None = None
PROPERTIES
    StepEnds
    CancelledReaped
CHECK_DEADLOCK FALSE
