SPECIFICATION Spec
CONSTANTS
    p1 = p1
    p2 = p2
    Procs <- const_Procs
    Files <- const_Files
    NDIRECT = 2
    BSIZE = 2
    SIZE = 13
    MAXOPBLOCKS = 6
    ImageSize = 3
    Sizes <- const_Sizes
    Vals <- const_Vals
    MaxCalls = 4
INVARIANTS ContentExact OwnedOnce ChunkFitsLog
\* The calls are used up.
CHECK_DEADLOCK FALSE
SYMMETRY const_Symmetry
