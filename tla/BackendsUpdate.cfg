CONSTANTS
    N = 2
    StartupOrdering = TRUE
    Burst = 2
    Strangers = FALSE
    Faults = FALSE
    MaxEvents = 1
SPECIFICATION Spec
INVARIANTS UpdateKeepsChain
CHECK_DEADLOCK FALSE
