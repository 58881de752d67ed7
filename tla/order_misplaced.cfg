SPECIFICATION FairSpec
CONSTANTS
  t1 = t1
  t2 = t2
  share = share
  bond = bond
  Traders <- OneTrader
  Instruments <- TwoUids
  Operations <- Updates
  PriceFaults <- NoFaults
  MaxInstances = 2
  MaxPrices = 2
CHECK_DEADLOCK FALSE
PROPERTIES ActsOnItsPrice
