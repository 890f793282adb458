SPECIFICATION Spec
CONSTANTS
    Request = {r1, r2, r3, r4}
    Content = {a, b}
    NULL = NULL
    PARTIAL = PARTIAL
    Overlaps <- AnyOverlap
    Rejected <- AnyCall
    LostReply <- AnyCall
    CrashAt <- AnyCall
SYMMETRY Symmetry
INVARIANTS TypeOK NeverWrongBytes
PROPERTY PathOfFileStable
