SPECIFICATION FairSpec
CONSTANTS
    Options <- MCOptions
    Peers <- MCPeers
    Replies <- MCReplies
    SspBuf = 2
    RecvLen = 3
    MaxCalls = 2
INVARIANTS
    SuccessIsWhole
    RequestToAuthorisedPeer
    ResultsAreFresh
    AbortOnlyOnBadReply
PROPERTIES
    LeaksOnlyOnDnsFailure
    CallEnds
CHECK_DEADLOCK FALSE
