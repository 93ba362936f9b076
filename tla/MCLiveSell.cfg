SPECIFICATION Spec
CONSTANTS
    Tokens <- OneToken
    Prices <- OnePrice
    Payouts <- SplitPayout
    Sides <- BothSides
    Faults <- NoFault
    Lag = FALSE
    StartCash = 2
    MaxOrder = 2
    MaxLoss = 1
    Tolerance = 0
    MaxOrders = 3
INVARIANTS
    BudgetCovered
