CONSTANTS
    Leaders <- MCLeaders
    Events <- MCEvents
    Source <- TwoLeaders
    StartCash = 20
    BuyFills = {4}
    SellPrices = {3}
    Payouts = {0, 3}
    MinOrder = 2
    ReserveNum = 1
    ReserveDen = 4
    SmartSizing = TRUE
    RuleValues = {1}
    Off = 0
    MaxQueue = 2
    ResetBelow = 0
    Environment = {"risk", "settle"}
SPECIFICATION Spec
INVARIANTS
    TypeOK
    Attributed
    LedgerIdentity
    ExitCovered
    PendingExitOwnsShares
CHECK_DEADLOCK FALSE
