CONSTANTS
    o1 = o1
    o2 = o2
    o3 = o3
    c1 = c1
    c2 = c2
    c3 = c3
    c4 = c4
    Objects <- MCObjects
    Calls <- MCCalls
    ObjectOf <- MCObjectOf
    Options <- FlatKeys
    Existing = {0, 1}
    Faults = {}
SPECIFICATION Safe
INVARIANTS
    KeysFit
CHECK_DEADLOCK FALSE
