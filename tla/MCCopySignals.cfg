CONSTANTS
    Leaders <- SoleLeader
    Events <- SignalEvents
    Source <- OneLeader
    StartCash = 9
    BuyFills = {4}
    SellPrices = {3, 4}
    Payouts = {0}
    MinOrder = 2
    ReserveNum = 1
    ReserveDen = 4
    SmartSizing = TRUE
    RuleValues = {1}
    Off = 0
    MaxQueue = 2
    ResetBelow = 2
    Environment = {"pause", "switch", "restart", "redeliver"}
SPECIFICATION Spec
INVARIANTS
    Solvent
    WaitingIsArmed
PROPERTIES
    FilledOnce
    NoBuyAfterRecordedSell
    PauseHolds
    ImplementsLifecycle
CHECK_DEADLOCK FALSE
