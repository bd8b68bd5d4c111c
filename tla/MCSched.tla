------------------------------ MODULE MCSched ------------------------------
(* Small instances of Sched: the tasks kernel_setup starts and one clone.   *)
EXTENDS Sched

CONSTANTS kernel_loop, ttyd, init, nxsh

MCTask == {kernel_loop, ttyd, init, nxsh}  \* the clone reuses the slot of a task that exited
MCBootSeq == <<init, nxsh>>

\* /bin/init is started with no files, /bin/nxsh with /dev/ttyS0 as stdout.
MCStdout == (init :> 0) @@ (nxsh :> 5)
=============================================================================
