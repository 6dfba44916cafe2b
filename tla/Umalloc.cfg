SPECIFICATION Spec
CONSTANTS
    NALLOC = 4
    LIMIT = 14
    Sizes <- const_Sizes
INVARIANTS HeapExact Coalesced
VIEW Live
