CONSTANTS
    u1 = u1
    u2 = u2
    h1 = h1
    h2 = h2
    c1 = c1
    Users <- MCUsers
    Hooks <- MCHooks
    Channels <- MCChannels
    Null = Null
    Events <- AllKinds
    Kind <- MCKind
    ChannelOf <- MCChannelOf
    Recipients <- MCRecipients
    Wants <- MCWants
    SlugOf <- MCSlugOf
    Flaky = TRUE
    NoEvent = NoEvent
    Workers = {w1}
    Limit = 3
    MaxRetries = 2
    Stages = 3
    MayOverrun = FALSE
    FaultBudget = 1
SPECIFICATION PipeSpec
INVARIANTS
    PublishedReachedAll
    RowsAreRight
CHECK_DEADLOCK FALSE
