CONSTANTS
    boot1 = boot1
    boot2 = boot2
    call1 = call1
    call2 = call2
    Task <- MCTwoBootTask
    Preemptible <- MCTwoBootTask
    MOD = 4
    Heads = {running_queue, wait_queue}
    Nodes = {n1, n2, n3}
    NULL = NULL
SPECIFICATION SSpec
INVARIANTS Mutex
