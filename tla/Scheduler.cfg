SPECIFICATION FairSpec
CONSTANTS
    Threads = {idle, main, a}
    Idle = idle
    Main = main
    Static = {a}
    PriorityMax = 3
    Lists = {q}
    InitTick = 1
    MaxNest = 1
    TimedCalls = TRUE
    QuietDelete = TRUE
INVARIANTS ReadyQueueOK FreedThreadsUnlinked HighestPriorityRuns SchedulerInv
PROPERTIES LockKeepsProcessor RoundRobin
