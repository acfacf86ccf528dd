SPECIFICATION FairSpec
CONSTANTS
    BUF_SIZE = 3
    SocketRoom = 2
    MaxUp = 4
    MaxDown = 4
INVARIANTS
    StreamsIntact
    EofAfterData
PROPERTIES
    Delivered
CHECK_DEADLOCK FALSE
