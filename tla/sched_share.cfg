\* Time slices among busy threads of one priority.
CONSTANTS
    main = main
    a = a
    b = b
    idle = idle
    Threads <- MCThreads
    Idle = idle
    Main = main
    Static = {}
    NoThread = NoThread
    MaxPrio = 2
    Objects = {1}
    InitPrio <- MCPrioEqual
    Slice <- MCSlice
    MaxNest = 1
    Calls <- MCCallsShare
    Targets <- MCTargets
SPECIFICATION FairSpec
PROPERTIES
    TimeShared
