CONSTANTS
    Events <- OrderEvents
    Tokens <- OrderTokens
    Source <- OrderSource
    Window = 2
    Burst = 4
    Batching = TRUE
    QueueLimit = 3
    SellReserve = 1
    Environment = {"reset", "pause", "switch", "fail", "stop"}
SPECIFICATION BotSpec
INVARIANTS
    BotTypes
    PendingHasWorker
    BarrierKept
    CheckpointCovers
CHECK_DEADLOCK FALSE
