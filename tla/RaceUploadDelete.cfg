SPECIFICATION Spec
CONSTANTS
    Request = {r1, r2, r3}
    Content = {a}
    NULL = NULL
    PARTIAL = PARTIAL
    Overlaps = {"upload-delete"}
    Rejected <- NoCall
    LostReply <- NoCall
    CrashAt <- NoCall
INVARIANT NoDanglingFile
