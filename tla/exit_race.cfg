SPECIFICATION SweepSpec
CONSTANTS
    Protector = p
    Sweeper = s
    Task = {p, s}
    Qty = 2
    MaxExits = 3
    MaxFaults = 0
    FillPolls = 2
    LostAnswers = FALSE
    LazyCancel = FALSE
    MarketRests = FALSE
    SweepRaces = TRUE
    Overlap = FALSE
CHECK_DEADLOCK FALSE
INVARIANT NeverReversed
