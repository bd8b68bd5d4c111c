CONSTANTS
    Task = {t1, t2}
    Idle = Idle
    SyncCounts = {1, 2}
    AsyncCounts = {1, 2}
SPECIFICATION DSpec
INVARIANTS
    ReadsOwn
    HangCause
    OpensAndReads
    ListsFullBatches
    BootsTheKernel
    FreePagesUnused
PROPERTY
    Completes
\* A caller with interrupts off that finds the lock taken never goes on; a
\* loader that has panicked or a system that is up does no more here.
CHECK_DEADLOCK FALSE
