SPECIFICATION Spec
CONSTANTS
    w = w
    a = a
    job = job
    route = route
    worker = worker
    api = api
    Id = {i1, i2}
    NoId = NoId
    Sender = {w, a}
    Resolver = {route}
    Scheduled = {}
    Process = {worker, api}
    Home <- MCHome
    MaxAttempts = 2
    MaxCrashes = 1
    MaxSwitches = 0
    SlowSend = TRUE
CHECK_DEADLOCK FALSE
SYMMETRY IdSymmetry
INVARIANTS
    NoPhantom
    NeverDisowned
PROPERTIES
    ImplementsLedger
