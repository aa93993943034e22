CONSTANTS
    k1 = k1
    k2 = k2
    k3 = k3
    t1 = t1
    t2 = t2
    Clients = {c1, c2, c3}
    Keys <- TwoKeys
    Partitions <- MCPartitions
    PartitionOf <- OneTenant
    BatchSize = 2
    ContentOnWrite = TRUE
    Operations = {"save", "delete"}
    Faults = {"server"}
    MaxEdits = 2
    MaxVersions = 3
    MaxList = 0
SYMMETRY Symmetry
SPECIFICATION Safe
INVARIANTS
    NoLostUpdate
PROPERTIES
    ConflictIsReal
CHECK_DEADLOCK FALSE
