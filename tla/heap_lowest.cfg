\* The same heap.
CONSTANTS
    one = one
    two = two
    Threads <- MCThreads
    NoCall = NoCall
    Header = 3
    MinSize = 3
    MemSize = 21
    Sizes = {1, 4, 7}
SPECIFICATION Spec
INVARIANTS
    LowestFree
