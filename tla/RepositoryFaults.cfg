CONSTANTS
    k1 = k1
    k2 = k2
    k3 = k3
    t1 = t1
    t2 = t2
    Clients = {c1, c2}
    Keys <- ThreeKeys
    Partitions <- MCPartitions
    PartitionOf <- TwoTenants
    BatchSize = 2
    ContentOnWrite = TRUE
    Operations = {"save", "list"}
    Faults = {"lost", "server"}
    MaxEdits = 2
    MaxVersions = 3
    MaxList = 3
SYMMETRY Symmetry
SPECIFICATION Safe
INVARIANTS
    TypeOK
    EtagNamesAncestor
PROPERTIES
    SaveKeepsWhatItReplaces
    ListSaved
CHECK_DEADLOCK FALSE
