CONSTANTS
    a = a
    b = b
    c = c
    Docs <- MCDocs
    Ids <- MCDocs
    IdOf <- MCUniqueIds
    Transformable = {a, b, c}
    Endpoints = {e1}
    Modes = {"live"}
    BatchSize = 1
    ChannelCapacity = 1
    MaxRuns = 3
    Faults = {}
    Floor = 1
    Ceiling = 2
    RampUpAfter = 1
    RampUpStep = 1
    InitialConcurrency = 1
SPECIFICATION Safe
PROPERTIES
    ProgressIsKept
CHECK_DEADLOCK FALSE
