CONSTANTS
    a = a
    b = b
    c = c
    Docs <- MCDocs
    Ids <- MCDocs
    IdOf <- MCUniqueIds
    Transformable = {a, b}
    Endpoints = {e1}
    Modes = {"live", "dry", "validate"}
    BatchSize = 2
    ChannelCapacity = 1
    MaxRuns = 3
    Faults = {"kill", "source", "disk"}
    Floor = 1
    Ceiling = 2
    RampUpAfter = 1
    RampUpStep = 1
    InitialConcurrency = 1
SPECIFICATION Safe
INVARIANTS
    TypeOK
    SummaryAddsUp
    SummaryIsBacked
    NothingForgotten
PROPERTIES
    SkipsOnlyWritten
    DryRunOnlyReads
    DrivesWriter
    ImplementsResumableCopy
CHECK_DEADLOCK FALSE
