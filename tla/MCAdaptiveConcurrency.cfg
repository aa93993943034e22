CONSTANTS
    Items = {i1, i2, i3}
    Floor = 1
    Ceiling = 4
    RampUpAfter = 2
    RampUpStep = 2
    InitialConcurrency = 9
SPECIFICATION ObservedSpec
INVARIANTS
    TypeOK
    ConcurrencyWithinLimits
    PermitsConserved
    NoOrphanedTask
PROPERTIES
    RampUpNeedsCleanStreak
    BatchCompletes
