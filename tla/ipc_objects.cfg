\* Two threads and a handler on a queue of two nodes, on a mailbox of two words
\* and on three event bits; three threads on a semaphore that wraps at four and
\* on a pool of two blocks.
CONSTANTS
    a = a
    b = b
    c = c
    Isr = isr
    Peers = {a, b}
    Size = 2
    Values = {v, w}
    Bits = {1, 2, 3}
    Blocks = {1, 2}
    MaxPended = 4
    Null = Null
    None = None
    Unused = Unused
    Threads = {a, b, c}
    Width = 4
    Initial = 1
    Ordered = TRUE
    Prio <- Urgency
    MaxBalance = 5
SPECIFICATION AllSpec
CHECK_DEADLOCK FALSE
INVARIANTS
    FieldsAgree
    NobodyStranded
    UnitsKept
    DeletedLeft
PROPERTIES
    ImplementsFifo
    FirstServed
    BitsHandedOut
