SPECIFICATION Spec
CONSTANTS
    HalfBuff = 2
    HttpHeadHigh = 3
    ClientStreams <- MCClientStreams
    RelayStreams <- MCRelayStreams
INVARIANTS
    TypeOK
    EndToEnd
    NoLostWakeup
    FinAfterEof
    EofKeepsClient
    FreshRelay
    ReplyIsRead
PROPERTIES
    BoundedBuffers
    LossOnlyAtStart
    WindowCloses
    DropOnlyWhenDone
    ImplementsTunnel
CHECK_DEADLOCK FALSE
