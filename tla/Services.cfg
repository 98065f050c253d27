SPECIFICATION Spec
CONSTANTS
    Callers = {a, b}
    Openers = {a, b, c}
    HardTimer = hard
    SoftTimer = soft
    SoftOnce = once
    ThreadTimer = thread
SYMMETRY Symmetry
INVARIANTS BooksBalance ContentsKept 
PROPERTIES FiresOnTime ReadsWhatWasStored
