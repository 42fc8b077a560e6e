SPECIFICATION Spec
CONSTANTS
    Signal = {a, b}
    NoSignal = NoSignal
    Task = {t1, t2}
    Qty = 2
    MaxOpen = 1
    Budget = 2
    LossLimit = 1
    MaxCandle = 3
    MaxFaults = 1
    opening = opening
    closing = closing
    a = a
    b = b
    x = x
    m = m
    Unused = Unused
    Sub = {opening, closing}
    Slice = {a, b, x}
    Owner <- MCOwner
    Long = {opening}
    Quantity <- MCQuantity
    Lot <- MCQuantity
    Price <- MCPrice
    Entry = {opening}
    Manual = {m}
    ManualLong = {m}
    Reader = {t1, t2}
    MaxMishaps = 2
    LastDay = 2
    Lookback = 1
    Job = job
    Operator = op
    MaxAsked = 1
SYMMETRY Symmetry
CHECK_DEADLOCK FALSE
INVARIANTS
    TypeOK
    LedgerBalances
    PaperBudget
    SlotReturned
    OwnAccountIsSafe
    HandBlocks
    SweptIsFinal
    BookedIsCash
    CaughtUp
