CONSTANTS
    Task = {init, nxsh}
    NR_FILES = 5
    NR_TASK_FILES = 3
    Init_ = init
    Nxsh = nxsh
    RC_MAX = 4
SPECIFICATION FSpec
INVARIANTS
    FilesCounted
    LookupResolves
    OneDentryPerName
    HeldIsCounted
    PathsLeadBack
\* All user tasks may exit; the use of a freed file is not modelled.
CHECK_DEADLOCK FALSE
