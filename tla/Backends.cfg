CONSTANTS
    N = 2
    StartupOrdering = TRUE
    Burst = 2
    Strangers = TRUE
    Faults = TRUE
    MaxEvents = 2
SPECIFICATION FairSpec
INVARIANTS TypeOK BootLoadsInOrder
PROPERTIES RestartMeansNewer StoppedStaysDown FetchedIsServed ExitEndsStart
CHECK_DEADLOCK FALSE
