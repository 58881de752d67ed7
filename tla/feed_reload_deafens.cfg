SPECIFICATION FairSpec
CONSTANTS
    t1 = t1
    t2 = t2
    main = main
    other = other
    share = share
    bond = bond
    Traders <- OneTrader
    Accounts <- Default
    Instruments <- Share
    Capacity = 2
    Operations <- Updates
    FeedFaults <- NoFaults
    MaxInstances = 2
    MaxReports = 1
CHECK_DEADLOCK FALSE
PROPERTY
    ReportsAreHeard
