SPECIFICATION FairSpec
CONSTANTS
    Threads = {idle, web, flash}
    Idle = idle
    Web = web
    Flash = flash
    PriorityMax = 3
    Lists = {event}
    EventList = event
    Bits = {"FIRMWARE", "UBOOT", "ART", "FULL"}
    Sessions = {s, t}
    Capacity = 4
    MaxUploads = 2
    MayFail = {"write", "malloc"}
INVARIANTS DoneMeansFlashed 
PROPERTIES  ProgressCompletes
