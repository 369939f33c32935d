SPECIFICATION FairSpec
CONSTANTS
    None = None
    short = short
    long = long
    acme = acme
    nobody = nobody
    cloud = cloud
    View <- MCView
    Today <- MCToday
    Statuses <- MCStatuses
    Budget = 3
    MaxHistory = 1
    DefaultLimit = 25
    MaxLimit = 50
    Questions = {short, long}
    CostOf <- MCCostOf
    AnswerCost = 1
    Calls <- MCCalls
    Answers <- MCAnswers
    Iterations = 2
    MaxIds = 4
INVARIANT TypeOK
INVARIANT BusyIsSending
INVARIANT ContextIsRecent
INVARIANT GroundedIsBacked
PROPERTY AnswersStay
PROPERTY EveryRequestEnds
CHECK_DEADLOCK FALSE
