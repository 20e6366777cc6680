CONSTANTS
    ByteVals = 2
    MaxPayload = 1
    BufferLen = 5
    SndBuf = 4
    ReplyPayload = 1
    MaxMsgs = 3
    PeerMsgs <- PoliteMsgs
SPECIFICATION Spec
INVARIANT UnsentKept
CHECK_DEADLOCK FALSE
