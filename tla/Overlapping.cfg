SPECIFICATION Spec
CONSTANTS
    Request = {r1, r2, r3, r4, r5, r6}
    Content = {a, b}
    NULL = NULL
    PARTIAL = PARTIAL
    Overlaps <- AnyOverlap
    Rejected <- NoCall
    LostReply <- NoCall
    CrashAt <- NoCall
SYMMETRY Symmetry
INVARIANTS NoForgottenReference NoStrayBlob AnsweredIsKept
