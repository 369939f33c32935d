SPECIFICATION Spec
CONSTANTS
    None = None
    acme = acme
    other = other
    cloud = cloud
    Days <- MCDays
    Offered <- MCOffered
    FeedLimit = 2
    MaxSteps = 3
INVARIANT PeriodsTile
INVARIANT SummaryAdds
INVARIANT FeedIsTail
PROPERTY DurationIsFinal
CHECK_DEADLOCK FALSE
