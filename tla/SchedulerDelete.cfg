SPECIFICATION Spec
CONSTANTS
    Threads = {idle, main, a}
    Idle = idle
    Main = main
    Static = {}
    PriorityMax = 2
    Lists = {q}
    InitTick = 1
    MaxNest = 1
    TimedCalls = TRUE
    QuietDelete = FALSE
INVARIANT DeletedThreadsDequeued
