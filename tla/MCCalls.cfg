CONSTANTS
    Requests = {r1, r2, r3}
    Timer = Timer
    Sweeper = Sweeper
    FaultBudget = 1
SPECIFICATION FairSpec
INVARIANTS
    OneOutcome
    RingingStops
PROPERTIES
    LegalMoves
    RingingEnds
    MessageFollows
CHECK_DEADLOCK FALSE
