CONSTANTS
    COLS = 2
    ROWS = 2
    BUF_ROWS = 4
    SCROLL_ROWS = 2
    BYTE = 5
    TTYS_COUNT = 2
    MaxSteps = 7
SPECIFICATION LSpec
INVARIANTS
    CursorInside
    ShowsForeground
    PrintsNumbers
    StringsAgree
    LineInStep
PROPERTY
    RecallsCommands
\* The shell exits when getchar fails, and what is typed is bounded.
CHECK_DEADLOCK FALSE
