SPECIFICATION FairSpec
CONSTANTS
    Scanner = {feed, flush}
    Hook = {h1, h2}
    Tap = {t1, t2}
    NoTap = NoTap
    MaxFaults = 2
CHECK_DEADLOCK FALSE
INVARIANTS
    OneOrder
    AnswerIsKept
PROPERTY TapAnswered
