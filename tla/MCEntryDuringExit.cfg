CONSTANTS
    Leaders <- SoleLeader
    Events <- SignalEvents
    Source <- OneLeader
    StartCash = 20
    BuyFills = {4}
    SellPrices = {3}
    Payouts = {0}
    MinOrder = 2
    ReserveNum = 1
    ReserveDen = 4
    SmartSizing = TRUE
    RuleValues = {1}
    Off = 0
    MaxQueue = 2
    ResetBelow = 0
    Environment = {}
SPECIFICATION Spec
PROPERTY
    NoEntryDuringExit
CHECK_DEADLOCK FALSE
