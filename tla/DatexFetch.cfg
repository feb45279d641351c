SPECIFICATION FairFetchSpec
CONSTANTS
    Signs = {"s1", "s2"}
    Replies <- MCReplies
    Protocols = {"HTTP", "HTTPS", "ISO21177"}
    MaxClicks = 2
    MaxActs = 2
INVARIANTS
    FetchHonoursClick
    ReportedOnceInOrder
    MapShowsNewestReply
PROPERTY
    EveryFetchReported
CHECK_DEADLOCK FALSE
