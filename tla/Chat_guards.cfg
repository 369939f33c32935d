SPECIFICATION FairSpec
CONSTANTS
    c1 = c1
    c2 = c2
    r1 = r1
    r2 = r2
    Clients = {c1, c2}
    Slots = {r1, r2}
    PerMin = 2
    Window = 2
    DayLength = 3
    Cap = 2
    Iterations = 1
    MaxTries = 2
    MaxTime = 3
INVARIANT TypeOK
INVARIANT WindowNeverExceeded
INVARIANT OvershootBounded
PROPERTY ImplementsLimiter
PROPERTY EveryRequestAnswered
CHECK_DEADLOCK FALSE
