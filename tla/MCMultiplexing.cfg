SPECIFICATION MCSpec
CONSTANTS
    NUM_CLIENTS = 3
    IdleTimeout = TRUE
    BYTE = 6
    BUFSZ = 5
    ECHOSZ = 6
    PREFIX <- MCPrefix
    TcpMsgs <- MCTcpMsgs
    UdpMsgs <- MCUdpMsgs
    UnixMsgs <- MCUnixMsgs
    ClientMayDie = TRUE
    MayLose = TRUE
    MayBeShort = TRUE
    Garbage <- MCGarbage
INVARIANTS
    NoBlockingRead
    ServedInFull
    EchoToOwner
    RightReply
PROPERTIES
    Terminates
CHECK_DEADLOCK FALSE
