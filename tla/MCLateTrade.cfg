CONSTANTS
    Events <- PollEvents
    Tokens <- PollTokens
    Source <- PollSource
    Window = 2
    Burst = 4
    Batching = TRUE
    QueueLimit = 3
    SellReserve = 1
    Environment = {}
SPECIFICATION BotSpec
PROPERTY
    DroppedIsPolledAgain
CHECK_DEADLOCK FALSE
