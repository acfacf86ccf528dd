SPECIFICATION LifeSpec
CONSTANTS
    N = 3
    D = 1
    MaxConns = 3
INVARIANTS
    NoEventOutlivesInstance
    CleanShutdown
    StarterLeavesListening
CHECK_DEADLOCK FALSE
