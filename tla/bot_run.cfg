SPECIFICATION BotFairSpec
CONSTANTS
    a = a
    b = b
    Ids <- MCIds
    Loggers <- TwoLoggers
    Faults <- EveryFault
    FirstFile <- NoneOrBoth
    LaterFiles <- NoneOneOrBoth
    MaxEdits = 1
    MaxServices = 2
    MaxFailures = 1
INVARIANTS
    TypeOK
    NoStrayTraders
    ReloadsTakeEffect
    EndIsOrderly
PROPERTIES
    EditsAreLoaded
    EndsWhenAsked
