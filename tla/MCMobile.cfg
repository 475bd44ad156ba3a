CONSTANTS
    LastEvent = 3
    Loops = {a, b}
    Limit = 1
    MaxPages = 2
    MayPrune = TRUE
    FaultBudget = 1
    Texts = {t1, t2}
    WithFile = {t1}
    Controllers = {c1, c2}
    Only = c1
    MaxOutboxFaults = 2
    RoomMessages = {m1, m2}
    Latest = {m1}
    Sockets = {s1, s2}
    MaxVersion = 3
    MaxRoomChanges = 2
    MaxRoomFaults = 1
    NoPage = NoPage
SPECIFICATION MCSpec
INVARIANTS
    OnlyLateEventsAreSkipped
    DeviceIsRight
PROPERTIES
    LastPageCompletes
    RoomSettles
CHECK_DEADLOCK FALSE
