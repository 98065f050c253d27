SPECIFICATION Spec
CONSTANTS
    Size = 20
    HeaderMax = 2
    CutHeader = TRUE
INVARIANT Understood
CHECK_DEADLOCK FALSE
