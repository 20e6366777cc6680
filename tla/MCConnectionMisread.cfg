CONSTANTS
    ByteVals = 2
    MaxPayload = 1
    BufferLen = 6
    SndBuf = 4
    ReplyPayload = 1
    MaxMsgs = 4
    PeerMsgs <- EarlyMsgs
SPECIFICATION Spec
PROPERTY ValidHeaderPopped
CHECK_DEADLOCK FALSE
