SPECIFICATION Spec
CONSTANTS
    Token = {a, b}
    Handler = {g, h}
    Last = 1
    MaxTicks = 3
    MaxTrouble = 1
CHECK_DEADLOCK FALSE
INVARIANTS
    ProcessedOnce
    ClosedUnlessFlushing
PROPERTY CatchesUp
