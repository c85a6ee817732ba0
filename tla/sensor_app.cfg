CONSTANTS
    Usart2 = Usart2
    Bright = Bright
    Temper = Temper
    Shell = Shell
    Idle = Idle
    NoThread = NoThread
    Threads <- MCThreads
    Scenarios <- MCScenarios
    MaxPrio = 4
    Objects = {"lock", "mq", "sem"}
    MaxUnits = 1
SPECIFICATION FairSpec
CHECK_DEADLOCK FALSE
INVARIANTS
    SoundUnlessContended
    Exclusive
    PairReceived
PROPERTIES
    OwnerReleases
    LineHandled
