CONSTANTS
    Events <- MCThreeEvents
    NoEvent = NoEvent
    Workers = {w1, w2}
    Limit = 2
    MaxRetries = 2
    Stages = 2
    MayOverrun = FALSE
    FaultBudget = 1
SPECIFICATION FairSpec
INVARIANTS
    PublishedMeansConsumed
    AttemptsAreSound
PROPERTIES
    SettledIsFinal
    Drains
    ImplementsQueue
CHECK_DEADLOCK FALSE
