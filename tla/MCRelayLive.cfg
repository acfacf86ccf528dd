SPECIFICATION FairSpec
CONSTANTS
    HalfBuff = 1
    HttpHeadHigh = 3
    ClientStreams <- LiveClientStreams
    RelayStreams <- LiveRelayStreams
PROPERTIES
    EofForwarded
CHECK_DEADLOCK FALSE
