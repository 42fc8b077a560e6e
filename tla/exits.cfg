SPECIFICATION MCSpec
CONSTANTS
    Price = {1, 2, 3, 4}
    EntryPrice = 3
    Qty = 2
    StopAtr = 1
    MinStop = 0
    TargetRr = 2
    TargetAtr = 1
    TriggerR = 1
    TrailAtr = 1
    Slippage = 1
    TimeLimit = 2
    SquareOff = 2
    Width = 1
    MaxCandle = 3
    Instrument = {i1}
    Ranking = {{i2}}
    Handler = {h1, h2}
    Kind = {"vwap", "ema"}
    Cooldown = 3
    Ceiling = TRUE
    Lapses = TRUE
    LastMinute = 3
    LastVersion = 2
    Unused = Unused
SYMMETRY Symmetry
CHECK_DEADLOCK FALSE
INVARIANTS
    MeasuredAsTraded
    SetupIsAlive
    OfferedOnce
    RankingApplies
PROPERTIES
    StopKeepsGround
    LeavesInTime
