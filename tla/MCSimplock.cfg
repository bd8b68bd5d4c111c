CONSTANTS
    boot1 = boot1
    boot2 = boot2
    call1 = call1
    call2 = call2
    Task <- MCTask
    Preemptible <- MCOneBoot
    MOD = 2
    Heads = {running_queue, wait_queue}
    Nodes = {n1, n2, n3, n4}
    NULL = NULL
SPECIFICATION SSpec
INVARIANTS Mutex OwnersCount HangCause
PROPERTY Refines
