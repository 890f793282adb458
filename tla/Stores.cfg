SPECIFICATION Spec
CONSTANTS
    Client = {c1, c2, c3, c4, c5}
    Path = {p, q}
    NULL = NULL
    Pieces = 2
SYMMETRY Symmetry
INVARIANTS TypeOK ReadsAreWhole GoneForGood MappingNamesVolume
PROPERTY RefinesBlobStore
