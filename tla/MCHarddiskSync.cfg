CONSTANTS
    Task = {t1, t2}
    Idle = Idle
    SyncCounts = {1, 2}
    AsyncCounts = {1, 2}
SPECIFICATION Spec
INVARIANT
    SectorReady
CHECK_DEADLOCK FALSE
