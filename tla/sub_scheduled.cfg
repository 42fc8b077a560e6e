SPECIFICATION FairSpec
CONSTANTS
    w = w
    a = a
    job = job
    route = route
    worker = worker
    api = api
    Id = {i1, i2}
    NoId = NoId
    Sender = {w}
    Resolver = {job}
    Scheduled = {job}
    Process = {worker, api}
    Home <- MCHome
    MaxAttempts = 2
    MaxCrashes = 1
    MaxSwitches = 1
    SlowSend = FALSE
CHECK_DEADLOCK FALSE
PROPERTIES
    SettledStands
    EveryOpenRowSettles
    HaltHolds
