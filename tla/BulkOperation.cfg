CONSTANTS
    Items = {i1, i2, i3}
    Operations = {"save", "delete"}
    MaxConcurrency = 2
    MaxRetries = 1
    MayCancel = TRUE
    OthersWork = TRUE
SPECIFICATION Spec
INVARIANTS
    TypeOK
    ReturnIsTrue
    AppliedOnce
    RetryBudget
    PermitsConserved
PROPERTIES
    CallReturns
CHECK_DEADLOCK FALSE
