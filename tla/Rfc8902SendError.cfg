SPECIFICATION FairSpec
CONSTANTS
    Options <- MCOptions
    Peers <- MCPeers
    Replies <- MCReplies
    SspBuf = 2
    RecvLen = 3
    MaxCalls = 1
PROPERTY SendErrorReported
CHECK_DEADLOCK FALSE
