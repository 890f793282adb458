SPECIFICATION Spec
CONSTANTS
    Request = {r1, r2, r3}
    Id = {f}
    NULL = NULL
    EMPTY = EMPTY
    Overlaps = {"get-delete"}
    Rejected <- NoCall
    LostReply = {}
    Truncated = {}
    CrashAt <- NoCall
INVARIANT CoherentWhenQuiet
