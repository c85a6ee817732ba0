\* One mutex shared by three threads in every way, as Lock.c makes it.
CONSTANTS
    hi = hi
    mid = mid
    lo = lo
    idle = idle
    Idle = idle
    NoThread = NoThread
    NoObject = NoObject
    Threads <- MCThreads
    Base <- MCBase
    Calls <- MCCalls
    MaxPrio = 3
    Objects = {1}
    Ordered = {1}
    MaxHold = 2
SPECIFICATION FairSpec
\* a deletion may take a list head for a thread
CHECK_DEADLOCK FALSE
INVARIANTS
    OwnerAgrees
    FreeWithoutWaiters
    Inherits
    RestoredAll
PROPERTIES
    LateOnlyAfterRestore
    WaiterServed
