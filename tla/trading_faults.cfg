SPECIFICATION Spec
CONSTANTS
    MaxOrders = 3
    MaxDepth = 1
    LotsToBuy = 1
    PercentDownToBuy = 10
    PercentUpToSell = 10
    Prices <- TwoPrices
    Faults <- EveryFault
CHECK_DEADLOCK FALSE
INVARIANTS
    TypeOK
    SellsAreCovered
    LinksAreMutual
    StoreNeverAhead
PROPERTIES
    SettledStaysSettled
