SPECIFICATION Spec
CONSTANTS
    Instrument = {i1}
    Ranking = {{i1}}
    Handler = {h1}
    Kind = {"ema", "orb"}
    Cooldown = 2
    Ceiling = FALSE
    Lapses = FALSE
    LastMinute = 5
    LastVersion = 1
CHECK_DEADLOCK FALSE
INVARIANT
    OneSignal
