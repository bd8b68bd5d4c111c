CONSTANTS
    Task = {t1, t2, t3}
    Frames = 4
    PDE = {1, 2}
    PTE = {1, 2}
    UMOD = 3
    GDT_SIZE = 4
    FIXED = 2
    PAGE_SIZE = 4
    HDR = 1
    NR_PAGES = 4
    BYTE = 8
    Requests <- MCRequests
SPECIFICATION KSpec
INVARIANTS
    MemoryApart
    PagesCounted
    FramesOwned
    SingleWriter
    SelectorsOwn
PROPERTY
    MappingsStay
\* A block over the end of the list makes every further call undefined, and
\* all tasks may be gone.
CHECK_DEADLOCK FALSE
