CONSTANTS
    PAGE_SIZE = 4
    HDR = 1
    NR_PAGES = 5
    UMOD = 8
    Requests <- MCRequests
SPECIFICATION Spec
INVARIANT
    Aligned
CHECK_DEADLOCK FALSE
