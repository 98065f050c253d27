SPECIFICATION Spec
CONSTANTS
    Threads = {idle, a, b, c}
    Idle = idle
    Lists = {q}
    Queue = q
    SemPriorities = 3
    SemFlags = {"FIFO"}
    MaxTokens = 2
    QuietDetach = TRUE
    MutexPriorities = 4
    MutexFlags = {"FIFO", "PRIO"}
    MaxHold = 2
    Nested = FALSE
    EventThreads = {idle, a, b}
    EventPriorities = 3
    Events = {x, y}
SYMMETRY Symmetry
INVARIANTS Conservation NoLostWakeup OwnershipAgreed
INVARIANTS Inheritance PriorityRestored ReceivesWhatItAsked
INVARIANT SynchronizationInv
PROPERTIES ImplementsLock ConsumedOnce
