SPECIFICATION FairSpec
CONSTANTS
    MaxOrders = 3
    MaxDepth = 1
    LotsToBuy = 2
    PercentDownToBuy = 10
    PercentUpToSell = 10
    Prices <- TwoPrices
    Faults <- PostFaults
CHECK_DEADLOCK FALSE
INVARIANTS
    SoldOnce
    StoreCatchesUp
    UnpostedRowsAreBuys
PROPERTIES
    ImplementsPositions
    ExecutionBecomesKnown
    
