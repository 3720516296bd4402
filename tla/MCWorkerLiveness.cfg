SPECIFICATION FairSpec
CONSTANTS
    Member = {r1, r2}
    Budgets = {2}
    MaxConcurrent = 1
    QueueCapacity = 1
    StreamCapacity = 1
    BatchWindow = TRUE
PROPERTIES
    StreamsEnd
    ShutdownExits
CHECK_DEADLOCK FALSE
