CONSTANTS
    ByteVals = 2
    MaxPayload = 1
    BufferLen = 10
    SndBuf = 4
    ReplyPayload = 1
    MaxMsgs = 3
    PeerMsgs <- PoliteMsgs
SPECIFICATION PoliteSpec
INVARIANT SmallStreamIntact
PROPERTY EchoSpec
CHECK_DEADLOCK FALSE
