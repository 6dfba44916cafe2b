SPECIFICATION Spec
CONSTANTS
    p1 = p1
    p2 = p2
    Procs <- const_Procs
    NINODES = 6
    NINODE = 6
    Names <- const_Names
    DirNames <- const_DirNames
    NOFILE = 1
    Calls <- const_Calls
    MaxCalls = 3
    DeadDirs = FALSE
INVARIANTS RefCounted CacheCurrent  LinksCounted
\* The calls are used up.
CHECK_DEADLOCK FALSE
SYMMETRY const_Symmetry
