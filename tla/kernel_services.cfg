\* Three timers with a tick that wraps at twelve, two small heaps and six pages, three
\* objects of which one is static, an input line of four cells, and two threads and
\* two handlers that print.
CONSTANTS
    adc = adc
    p1 = p1
    p2 = p2
    small = small
    medium = medium
    NoTimer = NoTimer
    Timers = {adc, p1, p2}
    Width = 12
    Periodic = {adc}
    Times <- AllTimes
    MaxStall = 1
    Threads = {t1, t2}
    Header = 3
    MinSize = 3
    \* Room for four blocks of the least size.
    MemSize = 21
    Sizes = {1, 4, 7}
    \* Room for four items of the least size, and two words.
    PoolSize = 30
    ItemSizes = {1, 4, 13}
    \* Three zones of two pages.
    LastPage = 6
    ZonePages = 2
    Chunks <- Both
    PageCounts = {3}
    Threshold = 1
    Static = {adc}
    Dynamic = {p1, p2}
    Batch = 2
    List = List
    Null = Null
    Typed = {"A", "x"}
    Lines = 1
    Commands <- Names
    Handlers = {adc, p1}
    Urgency <- Urgencies
    Texts <- Printing
    Size = 4
    Nul = Nul
    NoCall = NoCall
    Unused = Unused
SPECIFICATION AllSpec
\* the shell's line may end in a read behind it
CHECK_DEADLOCK FALSE
INVARIANTS
    ListOrdered
    FlagTellsLinked
    Tiled
    OwnedOnce
    Recovered
    ListingComplete
    LineEnds
    Printed
PROPERTIES
    EqualDeadlinesInOrder
    ImplementsAlarms
    LostOnlyByShrinking
    ImplementsEditor
VIEW Seen
