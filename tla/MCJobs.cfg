SPECIFICATION MCSpec
CONSTANTS
    Jobs = {j1, j2}
    Workers = {w1, w2}
    Requests = {q1}
    Limit = 2
    MaxFaults = 1
    MaxEdits = 1
    MaxRunNow = 1
    NoJob = NoJob
    Gone = Gone
    NoCopy = NoCopy
    NoActor = NoActor
    NoPush = NoPush
    PushIds = {p1, p2}
    PushWorkers = {v1, v2}
    Devices = {d1, d2}
    MaxAttempts = 2
    MaxPushFaults = 1
    MaxChanges = 1
INVARIANTS
    ScheduleIsKept
    PushesAreCounted
PROPERTIES
    JobsSettle
CHECK_DEADLOCK FALSE
