SPECIFICATION FairSpec
CONSTANTS
    MsgTypes = {"FAILURE", "GET_CERT"}
    HdrLen = 5
    BuffLen = 8
    SSizeLimit = 9
    MaxLen = 12
    MaxReq = 1
INVARIANTS
    NoOverrun
    WholeAnswer
PROPERTIES
    ImplementsCall
    AnsweredRequestReturns
