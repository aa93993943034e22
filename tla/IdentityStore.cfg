CONSTANTS
    r1 = r1
    r2 = r2
    r3 = r3
    ann = ann
    Absent = Absent
    Requests <- MCRequests
    Jobs <- MCJobs
    MaxFailed = 2
    MaxTime = 2
    MaxClaims = 2
    MaxClicks = 2
    Faults = {"crash", "browser"}
SPECIFICATION Spec
INVARIANTS
    TypeOK
    DuplicatesComeFromRaces
PROPERTIES
    ImplementsDirectory
    EveryRequestEnds
CHECK_DEADLOCK FALSE
