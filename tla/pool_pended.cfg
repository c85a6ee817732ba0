\* The waiters of a memory pool and the count of them.
CONSTANTS
    a = a
    b = b
    c = c
    Isr = isr
    Peers = {a, b}
    Size = 2
    Values = {v, w}
    Bits = {1, 2, 3}
    Blocks = {1, 2}
    MaxPended = 4
    Null = Null
    None = None
    Unused = Unused
    Threads = {a, b, c}
    Width = 4
    Initial = 1
    Ordered = TRUE
    Prio <- Urgency
    MaxBalance = 5
SPECIFICATION AllSpec
CHECK_DEADLOCK FALSE
INVARIANTS
    PendedCounted
