SPECIFICATION FairSpec
CONSTANTS
    Readers <- const_Readers
    Writers <- const_Writers
    INPUT_BUF = 2
    UINT = 4
    Sizes <- const_Sizes
    Keys <- const_Keys
    MaxCalls = 3
    MayKill = TRUE
INVARIANTS InputOrder NeverStuck
PROPERTIES EofOnce NobodyBlocked
\* The keys and the reads are used up.
CHECK_DEADLOCK FALSE
