CONSTANTS
    Events = {e1, e2, e3, e4}
    QueueCapacity = 2
    DiskFails = TRUE
SPECIFICATION Spec
INVARIANTS
    TypeOK
    FileInOrder
    FlushedOnDispose
    SurvivesTimelyDispose
PROPERTIES
    DisposeReturns
    QueueDrains
CHECK_DEADLOCK FALSE
