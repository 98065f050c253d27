SPECIFICATION Spec
CONSTANTS
    Size = 48
    Length = 20
    CutAfterCrlf = TRUE
INVARIANT AllIsData
CHECK_DEADLOCK FALSE
