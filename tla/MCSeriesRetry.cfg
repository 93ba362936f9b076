CONSTANTS
    One = 100
    FeeNum = 1
    FeeDen = 10
    MinPrice = 2
    MaxPrice = 98
    Slippage = 5
    MinNotional = 110
    MinShares = 2
    MaxMultiplier = 3
    FloorMultiple = 2
    Power = 1
    OddsWeight = 100
    Events <- MCEvents
    Source <- MCSource
    Books <- MCBooks
    StartCash = 4000
    ReserveNum = 1
    ReserveDen = 2
    MaxExposure = 700
    BalancePct = 5
    Typical = 800
    FixedSize = 400
    LeaderPct = 50
    TradeSize = 500
    OrderScale = 1
    Modes <- Adaptive
    MaxSizes <- OneMaxSize
    Seconds <- OneWindow
    MaxChanges = 0
SPECIFICATION Spec
PROPERTY
    RetryFindsItsSeries
CHECK_DEADLOCK FALSE
