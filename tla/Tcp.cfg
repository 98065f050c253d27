SPECIFICATION Spec
CONSTANTS
    Writes = 1
    MaxRtx = 1
    SynMaxRtx = 1
    Depth = 2
    IssGap = 10
INVARIANTS StreamsKept AckedIsReceived
 
CHECK_DEADLOCK FALSE
