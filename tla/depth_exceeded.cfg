SPECIFICATION Spec
CONSTANTS
    MaxOrders = 3
    MaxDepth = 2
    LotsToBuy = 1
    PercentDownToBuy = 10
    PercentUpToSell = 10
    Prices <- TwoPrices
    Faults <- NoFaults
CHECK_DEADLOCK FALSE
INVARIANT
    DepthIsBounded
