\* Two mutexes, released in any order.
CONSTANTS
    hi = hi
    mid = mid
    lo = lo
    idle = idle
    Idle = idle
    NoThread = NoThread
    NoObject = NoObject
    Threads <- MCPair
    Base <- MCPairBase
    Calls <- MCPairCalls
    MaxPrio = 2
    Objects = {1, 2}
    Ordered = {1, 2}
    MaxHold = 1
SPECIFICATION Spec
\* two threads may wait for each other
CHECK_DEADLOCK FALSE
INVARIANTS
    RestoredAll
