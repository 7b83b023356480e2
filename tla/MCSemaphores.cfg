SPECIFICATION MCSpec
CONSTANTS
    POOL_SIZE = 2
    NUM_WORKERS = 5
    Runs = 3
    MaxCrashes = 2
    ForkMayFail = TRUE
    SECOND = 20
    DELAY = 6
    LAG = 8
INVARIANTS
    SlotsAccounted
    DestroyedAfterLastUse
    NameLifecycle
    TimedAndHandedOver
PROPERTIES
    Terminates
