SPECIFICATION Spec
CONSTANTS
    t1 = t1
    t2 = t2
    main = main
    other = other
    share = share
    bond = bond
    Traders <- TwoTraders
    Accounts <- TwoAccounts
    Instruments <- Share
    Capacity = 1
    Operations <- Reloads
    FeedFaults <- AllFaults
    MaxInstances = 3
    MaxReports = 2
CHECK_DEADLOCK FALSE
SYMMETRY Symmetric
INVARIANTS
    TypeOK
    SendsAreSafe
    HeardInOrder
PROPERTY
    OnlyOwnReports
