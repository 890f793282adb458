SPECIFICATION ServerSpec
CONSTANTS
    Request = {r1}
    Content = {a}
    Reader = {d1, d2}
    NULL = NULL
    PARTIAL = PARTIAL
    EMPTY = EMPTY
    Store = "filer"
    LISTING = LISTING
    MaxFilenameLen = 4
    MaxFileSize = 2
    Filename <- PlainNames
    RawHeader <- PlainHeaders
    Overlaps <- NoCall
    Rejected <- NoCall
    LostReply <- NoCall
    Flaky <- NoCall
    CrashAt <- NoCall
INVARIANT DownloadServes
