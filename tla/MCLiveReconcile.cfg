SPECIFICATION FairSpec
CONSTANTS
    Tokens <- OneToken
    Prices <- OnePrice
    Payouts <- NoneBack
    Sides <- BothSides
    Faults <- AllFaults
    Lag = TRUE
    StartCash = 1
    MaxOrder = 1
    MaxLoss = 1
    Tolerance = 0
    MaxOrders = 2
PROPERTIES
    CashReconciled
    EntriesResume
