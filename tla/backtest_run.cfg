SPECIFICATION FairSpec
CONSTANTS
  MaxOrders = 10
  MaxHistory = 5
  MaxDepth = 2
  LotsToBuy = 1
  PercentDownToBuy = 5
  PercentUpToSell = 5
  Prices <- ThreePrices
  StartDeposit = 100
  CommissionPercent = 1
  Lot = 3
  Interrupts = TRUE
CHECK_DEADLOCK FALSE
INVARIANTS TypeOK DepthIsKept ResultBalances NothingPending NoPanic
PROPERTIES TestEnds ImplementsPositions
