\* rt_thread_delete of a sleeping thread against the tick interrupt.
CONSTANTS
    main = main
    a = a
    b = b
    idle = idle
    Threads <- MCThreads
    Idle = idle
    Main = main
    Static = {}
    NoThread = NoThread
    MaxPrio = 2
    Objects = {1}
    InitPrio <- MCPrio
    Slice <- MCSlice
    MaxNest = 1
    Calls <- MCCallsDelete
    Targets <- MCTargets
SPECIFICATION Spec
INVARIANTS
    DeletedLeavesQueues
