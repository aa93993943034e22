CONSTANTS
    Events = {e1, e2, e3}
    QueueCapacity = 2
    DiskFails = TRUE
SPECIFICATION Safe
INVARIANTS
    ProcessSurvives
CHECK_DEADLOCK FALSE
