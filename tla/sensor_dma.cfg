CONSTANTS
    Usart2 = Usart2
    Bright = Bright
    Temper = Temper
    Shell = Shell
    Idle = Idle
    NoThread = NoThread
    Threads <- MCThreads
    Scenarios <- MCConversions
    MaxPrio = 4
    Objects = {"lock", "mq", "sem"}
    MaxUnits = 1
SPECIFICATION Spec
CHECK_DEADLOCK FALSE
INVARIANTS
    DmaExcluded
