CONSTANTS
    kernel_loop = kernel_loop
    ttyd = ttyd
    init = init
    nxsh = nxsh
    Task <- MCTask
    KernelLoop = kernel_loop
    Ttyd = ttyd
    BootSeq <- MCBootSeq
    Stdout <- MCStdout
    FilePtr = {5}
    Delays = {3}
    TICK_US = 2
SPECIFICATION FairSpec
INVARIANT QueueInv
PROPERTIES ReapedOffCpu NoStarvation WaitersResumed Reaped
