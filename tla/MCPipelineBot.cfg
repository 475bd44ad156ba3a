CONSTANTS
    u1 = u1
    u2 = u2
    h1 = h1
    h2 = h2
    c1 = c1
    Users <- MCUsers
    Hooks <- MCHooks
    Channels <- MCChannels
    Null = Null
    Events <- OneBotMessage
    Kind <- MCKind
    ChannelOf <- MCChannelOf
    Recipients <- MCRecipients
    Wants <- MCWants
    SlugOf <- MCSlugOf
    Flaky = FALSE
    NoEvent = NoEvent
    Workers = {w1, w2}
    Limit = 2
    MaxRetries = 2
    Stages = 3
    MayOverrun = FALSE
    FaultBudget = 0
SPECIFICATION PipeSpec
INVARIANTS
    IntegrationEventsAreProcessed
CHECK_DEADLOCK FALSE
