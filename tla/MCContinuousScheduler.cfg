SPECIFICATION Spec
CONSTANTS
    Member = {m1, m2}
    Caller = {c1, c2}
    AdmitCall = {a1, a2}
    MaxConcurrent = 2
    PromptLengths = {1, 2}
    Budgets = {1, 2}
    MaxContext = 3
    Abandonment = TRUE
    None = None
INVARIANTS
    OneStepInFlight
    NoLostMember
    PositionsAccounted
    WithinContext
    DeliveredOnce
    FinishedIsEmpty
PROPERTIES
    ImplementsLedger
CHECK_DEADLOCK FALSE
