SPECIFICATION FairSpec
CONSTANTS
    Protector = p
    Sweeper = s
    Task = {p, s}
    Qty = 2
    MaxExits = 6
    MaxFaults = 1
    FillPolls = 2
    LostAnswers = TRUE
    LazyCancel = FALSE
    MarketRests = TRUE
    SweepRaces = TRUE
    Overlap = FALSE
CHECK_DEADLOCK FALSE
PROPERTY FlatInTheEnd
