SPECIFICATION Spec
CONSTANTS
    Request = {r1, r2, r3, r4, r5}
    Content = {a, b}
    NULL = NULL
    PARTIAL = PARTIAL
    Overlaps <- NoOverlap
    Rejected <- ToleratedRejections
    LostReply <- ToleratedLosses
    CrashAt <- ToleratedCrashes
SYMMETRY Symmetry
INVARIANTS ReferencesCovered NoDanglingFile
PROPERTY RefinesCatalog
