SPECIFICATION MCSpec
CONSTANTS
    t1 = t1
    t2 = t2
    t3 = t3
    t4 = t4
    Trade = {t1, t2, t3, t4}
    NoTrade = NoTrade
    Sender = {w, a}
    Risk <- MCRisk
    MaxRisk = 2
    Budget = 2
    MaxOpen = 1
    MaxFaults = 1
    Protector = p
    Task = {p}
    Qty = 3
    MaxExits = 4
    MaxFailures = 4
    FillPolls = 2
    LostAnswers = TRUE
    LazyCancel = TRUE
    MarketRests = TRUE
    Unused = Unused
SYMMETRY Symmetry
CHECK_DEADLOCK FALSE
INVARIANTS
    RiskBound
    SlotBound
    HaltBound
    ExitsFit
PROPERTIES
    ImplementsRisk
