SPECIFICATION LoaderFairSpec
CONSTANTS
    share = share
    bond = bond
    Config <- ThreeEntries
    FirstCandle <- BondsCameLater
    TwoMonthsOn <- Uneven
    Workers = 2
    Faults <- EveryFault
    LastCandle = 3
    MaxRuns = 2
CHECK_DEADLOCK FALSE
INVARIANTS
    TypeOK
    LoadedSoFar
    CleanEndIsWhole
PROPERTIES
    CompleteStays
    LoadsEnd
