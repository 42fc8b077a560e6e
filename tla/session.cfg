SPECIFICATION Spec
CONSTANTS
    Period = 2
    MaxLag = 1
    MaxAge = 3
    Ttl = 2
    MaxRequests = 2
CHECK_DEADLOCK FALSE
INVARIANTS
    DisarmHolds
    StopHolds
    ReadingIsFresh
    KeptFresh
