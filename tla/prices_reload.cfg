SPECIFICATION Spec
CONSTANTS
    t1 = t1
    t2 = t2
    share = share
    bond = bond
    Traders <- TwoTraders
    Instruments <- TwoUids
    Operations <- Reloads
    PriceFaults <- RegisterFaults
    MaxInstances = 3
    MaxPrices = 2
CHECK_DEADLOCK FALSE
SYMMETRY Symmetric
INVARIANTS
    TypeOK
    
PROPERTY
    PricesMoveOn
