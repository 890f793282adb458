SPECIFICATION FairSpec
CONSTANTS
    Request = {r1, r2}
    Id = {f, g}
    NULL = NULL
    EMPTY = EMPTY
    Overlaps = {"get-delete", "list-write"}
    Rejected <- AnyCall
    LostReply = {"Insert"}
    Truncated = {"QueryList", "QueryLegacy"}
    CrashAt <- AnyCall
PROPERTIES EventuallyCoherent GoneStaysGone
