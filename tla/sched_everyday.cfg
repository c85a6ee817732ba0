\* Threads that start, yield, sleep, wait, lock the scheduler, exit and are
\* created again, under ticks and wake-ups from interrupts.
CONSTANTS
    main = main
    a = a
    b = b
    idle = idle
    Threads <- MCThreads
    Idle = idle
    Main = main
    Static = {b}
    NoThread = NoThread
    MaxPrio = 2
    Objects = {1}
    InitPrio <- MCPrio
    Slice <- MCSlice
    MaxNest = 1
    Calls <- MCCallsEveryday
    Targets <- MCTargets
SPECIFICATION Spec
INVARIANTS
    SwitchSound
    ListsAgree
    HighestRuns
    TimeoutFindsSuspended
    NoThreadLost
    FreedUnused
PROPERTIES
    FifoAmongEquals
