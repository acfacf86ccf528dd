SPECIFICATION FairServiceSpec
CONSTANTS
    MaxRequests = 3
    MaxStarts = 4
    Types = {"https", "spdy"}
INVARIANTS
    WorksOrIsGone
PROPERTIES
    ConnectingEnds
CHECK_DEADLOCK FALSE
