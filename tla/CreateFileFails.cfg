SPECIFICATION ServerSpec
CONSTANTS
    Request = {r1, r2}
    Content = {a}
    Reader = {d1}
    NULL = NULL
    PARTIAL = PARTIAL
    EMPTY = EMPTY
    Store = "filer"
    LISTING = LISTING
    MaxFilenameLen = 4
    MaxFileSize = 2
    Filename <- ShortNames
    RawHeader <- LongHeaders
    Overlaps <- NoCall
    Rejected <- NoCall
    LostReply <- NoCall
    Flaky <- NoCall
    CrashAt <- NoCall
INVARIANT FailedUploadLeavesNoRow
