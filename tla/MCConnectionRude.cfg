CONSTANTS
    ByteVals = 2
    MaxPayload = 3
    BufferLen = 5
    SndBuf = 4
    ReplyPayload = 1
    MaxMsgs = 2
    PeerMsgs <- RudeMsgs
SPECIFICATION Spec
INVARIANTS UnreadStream AnswersHaveHeaders TouchedOnlyAtEnd
PROPERTIES LifeSpec PeerEndSeen CloseReleases
CHECK_DEADLOCK FALSE
