CONSTANTS
    Events <- PollEvents
    Tokens <- PollTokens
    Source <- PollSource
    Window = 2
    Burst = 4
    Batching = TRUE
    QueueLimit = 1
    SellReserve = 1
    Environment = {"rtds", "pause", "stop"}
SPECIFICATION FairBot
INVARIANTS
    PendingHasWorker
    CheckpointCovers
    SellsGetRoom
PROPERTIES
    OfferedIsCommitted
    LateIsCommitted
    ShutdownEnds
CHECK_DEADLOCK FALSE
