SPECIFICATION ServerSpec
CONSTANTS
    Request = {r1, r2, r3}
    Content = {a, b}
    Reader = {d1, d2}
    NULL = NULL
    PARTIAL = PARTIAL
    EMPTY = EMPTY
    Store = "filer"
    LISTING = LISTING
    MaxFilenameLen = 4
    MaxFileSize = 2
    Filename <- ShortNames
    RawHeader <- AllHeaders
    Overlaps <- NoCall
    Rejected <- NoCall
    LostReply <- NoCall
    Flaky <- RedisCalls
    CrashAt <- ToleratedCrashes
SYMMETRY Symmetry
INVARIANTS ServerTypeOK NoOtherFilesBytes DeletedStaysDeleted ListedIsServed RestIsClean NamesSettle
