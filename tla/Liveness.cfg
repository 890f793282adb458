SPECIFICATION ServerFairSpec
CONSTANTS
    Request = {r1, r2, r3}
    Content = {a}
    Reader = {d1}
    NULL = NULL
    PARTIAL = PARTIAL
    EMPTY = EMPTY
    Store = "local"
    LISTING = LISTING
    MaxFilenameLen = 4
    MaxFileSize = 2
    Filename <- PlainNames
    RawHeader <- PlainHeaders
    Overlaps <- NoCall
    Rejected <- HarmlessRejections
    LostReply <- NoCall
    Flaky <- AnyRead
    CrashAt <- NoCall
PROPERTIES EveryRequestReturns UnusedContentReclaimed DrainEnds WorkRunsOut
