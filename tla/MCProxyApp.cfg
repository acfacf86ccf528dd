SPECIFICATION AppSpec
CONSTANTS
    MaxClicks = 4
    Threads = 2
INVARIANTS
    OneRedsocks
CHECK_DEADLOCK FALSE
