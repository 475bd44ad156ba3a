CONSTANTS
    h1 = h1
    Hooks <- MCHooks
    EventRows <- MCEventRows
    TestRows <- MCTestRows
    HookOf <- MCHookOf
    NoRow = NoRow
    Workers = {w1, w2}
    Limit = 2
    MaxRetries = 3
    MayOverrun = FALSE
    FaultBudget = 2
SPECIFICATION FairSpec
INVARIANTS
    LogIsTrue
PROPERTIES
    OutcomeIsFinal
    ActiveHookDrains
CHECK_DEADLOCK FALSE
