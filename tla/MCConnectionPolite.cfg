CONSTANTS
    ByteVals = 2
    MaxPayload = 1
    BufferLen = 5
    SndBuf = 4
    ReplyPayload = 1
    MaxMsgs = 3
    PeerMsgs <- PoliteMsgs
SPECIFICATION Spec
INVARIANTS TypeOK UnreadStream InStep NoSpuriousEnd SentArrives NothingWaits
PROPERTIES Answered EchoSteps
CHECK_DEADLOCK FALSE
