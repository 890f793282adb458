SPECIFICATION Spec
CONSTANTS
    Request = {r1, r2, r3, r4}
    Id = {f, g}
    NULL = NULL
    EMPTY = EMPTY
    Overlaps = {}
    Rejected <- ToleratedRejections
    LostReply = {}
    Truncated = {}
    CrashAt <- ToleratedRejections
SYMMETRY Symmetry
INVARIANTS TypeOK CoherentWhenQuiet
PROPERTY FreshAnswers
