SPECIFICATION FairSpec
CONSTANTS
    Protector = p
    Sweeper = s
    Task = {p, s}
    Qty = 2
    MaxExits = 5
    MaxFaults = 2
    FillPolls = 2
    LostAnswers = FALSE
    LazyCancel = FALSE
    MarketRests = FALSE
    SweepRaces = FALSE
    Overlap = FALSE
CHECK_DEADLOCK FALSE
INVARIANT ExitsFit
PROPERTIES
    ClearBeforeExit
    NakedEnds
