SPECIFICATION FairSpec
CONSTANTS
    Threads = {idle, main, key, net}
    Idle = idle
    Main = main
    Key = key
    Net = net
    PriorityMax = 3
    Lists = {event, mbox}
    EventList = event
    Mbox = mbox
    Bits = {"UART", "NET", "KEY"}
    Delays = 5
    MaxPackets = 2
INVARIANTS BreakHonoured ConsoleIsHeard
PROPERTIES Decides
CHECK_DEADLOCK FALSE
