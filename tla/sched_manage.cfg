\* A thread that suspends, resumes, deletes and re-prioritises the others.
CONSTANTS
    main = main
    a = a
    b = b
    idle = idle
    Threads <- MCThreads
    Idle = idle
    Main = main
    Static = {b}
    NoThread = NoThread
    MaxPrio = 2
    Objects = {1}
    InitPrio <- MCPrio
    Slice <- MCSliceOne
    MaxNest = 1
    Calls <- MCCallsManage
    Targets <- MCTargets
SPECIFICATION Spec
INVARIANTS
    ListsAgreeButHeld
    SomeoneRuns
