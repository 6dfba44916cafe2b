SPECIFICATION FairSpec
CONSTANTS
    Lines <- const_Lines
    MAXARGS = 3
    PIPESIZE = 2
    UINT = 4
    NBYTES = 5
    WriteSize = 3
    ReadSize = 2
    LeftStays = FALSE
    Victims <- const_Victims
INVARIANTS ParseExact StringsExact StreamOrder EofMeansEnd RefsExact
PROPERTY PipelineEnds
\* The pipeline ends.
CHECK_DEADLOCK FALSE
