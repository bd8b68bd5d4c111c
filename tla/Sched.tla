------------------------------- MODULE Sched -------------------------------
(***************************************************************************)
(* The task scheduler of NeuxOS: kernel/sched.c together with the three    *)
(* places that drive it, the clock interrupt (kernel/clock.c), the hard    *)
(* disk interrupt (drivers/harddisk/harddisk.c) and the system calls.      *)
(*                                                                         *)
(* There is one CPU.  System calls, exceptions and interrupts enter the    *)
(* kernel through interrupt gates, so the code up to the next task switch  *)
(* (the far jump through a TSS) runs with EFLAGS.IF = 0 and is one step of *)
(* this model.  The only code that is switched back in with IF = 0 is the  *)
(* disk reader, context "hd"; everything else resumes with interrupts on.  *)
(*                                                                         *)
(* The queues are sequences.  The intrusive lists of lib/list.h behave     *)
(* like sequences as long as no node is linked twice; that is what the     *)
(* invariant QueueInv guarantees here and what module List is about.       *)
(***************************************************************************)
EXTENDS Naturals, Sequences, SequencesExt

CONSTANTS Task,        \* every struct task that can be allocated
          KernelLoop,  \* kernel_loop_task, the idle task
          Ttyd,        \* the kernel task [ttyd]
          BootSeq,     \* the user tasks kernel_setup starts, in order
          Stdout,      \* their files[STDOUT_FILENO], from create_utask
          FilePtr,     \* addresses of struct file, as numbers; 0 is NULL
          Delays,      \* the arguments (us) with which sys_delay is called
          TICK_US      \* MICROSEC/PIT_HZ

BootUser == ToSet(BootSeq)

ASSUME SchedAssumption ==
    /\ KernelLoop \in Task
    /\ Ttyd \in Task
    /\ BootSeq \in Seq(Task)
    /\ \A i, j \in DOMAIN BootSeq : BootSeq[i] = BootSeq[j] => i = j
    /\ KernelLoop # Ttyd
    /\ KernelLoop \notin BootUser
    /\ Ttyd \notin BootUser
    /\ FilePtr \subseteq Nat \ {0}
    /\ Stdout \in [BootUser -> FilePtr \cup {0}]
    /\ Delays \subseteq Nat
    /\ TICK_US \in Nat \ {0}

VARIABLES
    current,        \* the task the CPU runs
    state,          \* task->state; "FREE": the struct is not allocated
    task_list,      \* the tasks on task_list
    running_queue,
    term_queue,
    delay_queue,    \* clock.c
    wait_queue,     \* harddisk.c
    delay,          \* task->delay
    files1,         \* task->files[1], the pointer as a number
    ctx             \* what the task executes when it has the CPU

queues == <<running_queue, term_queue, delay_queue, wait_queue>>
vars == <<current, state, task_list, queues, delay, files1, ctx>>

States == {"FREE", "RUNNING", "WAIT", "TERM"}

\* "idle": kernel_loop; "ttyd": tty_task; "boot": utask_bootloader, in the
\* kernel with IF = 1; "hd": inside do_read_async with IF = 0; "user": ring 3,
\* or a system call that runs with IF = 1 again because it has yielded.
Contexts == {"idle", "ttyd", "boot", "hd", "user"}

Interruptible == ctx[current] # "hd"    \* EFLAGS.IF between two steps

-----------------------------------------------------------------------------
(* State at the end of kernel_setup: start.S jumps to kernel_loop_task,     *)
(* which sched_setup has made current and has also put on running_queue.    *)

setup_queue == <<KernelLoop, Ttyd>> \o BootSeq

Init ==
    /\ current = KernelLoop
    /\ task_list = {KernelLoop, Ttyd} \cup BootUser
    /\ state = [t \in Task |-> IF t \in task_list THEN "RUNNING" ELSE "FREE"]
    /\ running_queue = setup_queue
    /\ term_queue = <<>>
    /\ delay_queue = <<>>
    /\ wait_queue = <<>>
    /\ delay = [t \in Task |-> 0]
    /\ files1 = [t \in Task |-> IF t \in BootUser THEN Stdout[t] ELSE 0]
    /\ ctx = [t \in Task |-> IF t = KernelLoop THEN "idle"
                            ELSE IF t = Ttyd THEN "ttyd"
                            ELSE IF t \in BootUser THEN "boot" ELSE "user"]

-----------------------------------------------------------------------------
(* kernel/sched.c *)

\* LIST_DEQUEUE, and kernel_loop_task when there is no node.
First(q) == IF q = <<>> THEN KernelLoop ELSE Head(q)
Rest(q) == IF q = <<>> THEN <<>> ELSE Tail(q)

\* Mutant of yield: onboard is queued whatever its state.
yield_always(runnable) ==
    /\ current' = First(running_queue)
    /\ running_queue' = Append(Rest(running_queue), current)

\* runnable: onboard->state == TASK_STATE_RUNNING
yield(runnable) ==
    /\ current' = First(running_queue)
    /\ running_queue' = IF runnable THEN Append(Rest(running_queue), current)
                                    ELSE Rest(running_queue)

\* Mutant of task_term: no yield, the task runs on until the next tick.
task_term_runs_on ==
    /\ state' = [state EXCEPT ![current] = "TERM"]
    /\ term_queue' = Append(term_queue, current)
    /\ UNCHANGED <<current, running_queue>>

task_term ==
    /\ state' = [state EXCEPT ![current] = "TERM"]
    /\ term_queue' = Append(term_queue, current)
    /\ yield(FALSE)

task_start(t) ==
    /\ state' = [state EXCEPT ![t] = "RUNNING"]
    /\ task_list' = task_list \cup {t}
    /\ running_queue' = Append(running_queue, t)

\* The caller puts current on the queue it waits on.
task_suspend ==
    /\ state' = [state EXCEPT ![current] = "WAIT"]
    /\ current' = First(running_queue)
    /\ running_queue' = Rest(running_queue)

\* queue is not empty; the caller removes its head.
task_resume(queue) ==
    /\ state' = [state EXCEPT ![Head(queue)] = "RUNNING"]
    /\ running_queue' = Append(running_queue, current)
    /\ current' = Head(queue)

\* Mutant of task_sched: the preempted task goes to the head of the queue.
task_sched_head ==
    LET ready == IF current # KernelLoop /\ state[current] = "RUNNING"
                 THEN <<current>> \o running_queue ELSE running_queue
        dead == ToSet(term_queue)
    IN  /\ current' = First(ready)
        /\ running_queue' = Rest(ready)
        /\ term_queue' = <<>>
        /\ state' = [t \in Task |-> IF t \in dead THEN "FREE" ELSE state[t]]
        /\ task_list' = task_list \ dead

\* Mutant of task_sched: terminated tasks are only destroyed when idle.
task_sched_lazy ==
    LET ready == IF current # KernelLoop /\ state[current] = "RUNNING"
                 THEN Append(running_queue, current) ELSE running_queue
        dead == IF ready = <<>> THEN ToSet(term_queue) ELSE {}
    IN  /\ current' = First(ready)
        /\ running_queue' = Rest(ready)
        /\ term_queue' = IF ready = <<>> THEN <<>> ELSE term_queue
        /\ state' = [t \in Task |-> IF t \in dead THEN "FREE" ELSE state[t]]
        /\ task_list' = task_list \ dead

task_sched ==
    LET ready == IF current # KernelLoop /\ state[current] = "RUNNING"
                 THEN Append(running_queue, current) ELSE running_queue
        dead == ToSet(term_queue)    \* do_term_task, destroy_task
    IN  /\ current' = First(ready)
        /\ running_queue' = Rest(ready)
        /\ term_queue' = <<>>
        /\ state' = [t \in Task |-> IF t \in dead THEN "FREE" ELSE state[t]]
        /\ task_list' = task_list \ dead

-----------------------------------------------------------------------------
(* kernel/clock.c *)

\* LIST_ENTRY_FOREACH(&delay_queue, list, task) takes the nodes, which are
\* the members "running", for members "list".  task then points 8 bytes into
\* the struct, and task->delay is the task's files[1].
Due(i) == files1[delay_queue[i]] < TICK_US

Overdue == {i \in DOMAIN delay_queue : Due(i)}

\* The loop stops at the first position with Due and resumes the head of the
\* queue; the positions it has passed have lost one tick.
Resumes(i) == Due(i) /\ \A j \in 1 .. i - 1 : ~ Due(j)

CountDown(n) ==
    files1' = [t \in Task |->
                 IF \E j \in 1 .. n : delay_queue[j] = t
                 THEN IF files1[t] < TICK_US THEN 0 ELSE files1[t] - TICK_US
                 ELSE files1[t]]

clock_resume ==
    \E i \in DOMAIN delay_queue :
        /\ Resumes(i)
        /\ CountDown(i)
        /\ task_resume(delay_queue)
        /\ delay_queue' = Tail(delay_queue)
        /\ UNCHANGED <<task_list, term_queue>>

clock_sched ==
    /\ Overdue = {}
    /\ CountDown(Len(delay_queue))
    /\ task_sched
    /\ UNCHANGED delay_queue

clock_handler ==
    /\ Interruptible
    /\ clock_resume \/ clock_sched
    /\ UNCHANGED <<wait_queue, delay, ctx>>

sys_delay(us) ==
    /\ ctx[current] = "user"
    /\ delay' = [delay EXCEPT ![current] = us]
    /\ delay_queue' = Append(delay_queue, current)
    /\ task_suspend
    /\ UNCHANGED <<task_list, term_queue, wait_queue, files1, ctx>>

-----------------------------------------------------------------------------
(* drivers/harddisk/harddisk.c: only utask_bootloader reads with IF = 1.   *)
(* The device is external; an interrupt that finds no data ready, or no    *)
(* waiter, returns without a change.                                       *)

\* Mutant of hd_irq_handler: the reader that came last is resumed.
hd_irq_handler_last ==
    /\ Interruptible
    /\ wait_queue # <<>>
    /\ task_resume(<<Last(wait_queue)>>)
    /\ wait_queue' = Front(wait_queue)
    /\ UNCHANGED <<task_list, term_queue, delay_queue, delay, files1, ctx>>

hd_irq_handler ==
    /\ Interruptible
    /\ wait_queue # <<>>
    /\ task_resume(wait_queue)
    /\ wait_queue' = Tail(wait_queue)
    /\ UNCHANGED <<task_list, term_queue, delay_queue, delay, files1, ctx>>

\* The command is sent, or the sector is read and another one is awaited.
do_read_async ==
    /\ ctx[current] \in {"boot", "hd"}
    /\ ctx' = [ctx EXCEPT ![current] = "hd"]
    /\ wait_queue' = Append(wait_queue, current)
    /\ task_suspend
    /\ UNCHANGED <<task_list, term_queue, delay_queue, delay, files1>>

\* The last sector is read: enable_irq and back to the boot loader.
read_done ==
    /\ ctx[current] = "hd"
    /\ ctx' = [ctx EXCEPT ![current] = "boot"]
    /\ UNCHANGED <<current, state, task_list, queues, delay, files1>>

-----------------------------------------------------------------------------
(* What the other tasks do with the CPU. *)

\* get_byte_from_kbuf (ttyd), tty_dev_read (user) and simplock_obtain (boot)
\* give up the CPU while they have to wait.
Yield ==
    /\ ctx[current] \in {"ttyd", "boot", "user"}
    /\ yield(TRUE)
    /\ UNCHANGED <<state, task_list, term_queue, delay_queue, wait_queue,
                   delay, files1, ctx>>

\* utask_bootloader leaves for ring 3 with iret.
Enter ==
    /\ ctx[current] = "boot"
    /\ ctx' = [ctx EXCEPT ![current] = "user"]
    /\ UNCHANGED <<current, state, task_list, queues, delay, files1>>

sys_exit ==
    /\ ctx[current] = "user"
    /\ task_term
    /\ UNCHANGED <<task_list, delay_queue, wait_queue, delay, files1, ctx>>

\* generic_ex_handler and the error path of page_fault_handler; both are
\* entered through interrupt gates, so IF = 0 as in sys_exit.
exception ==
    /\ ctx[current] \in {"boot", "user"}
    /\ task_term
    /\ UNCHANGED <<task_list, delay_queue, wait_queue, delay, files1, ctx>>

sys_clone(t) ==
    /\ ctx[current] = "user"
    /\ state[t] = "FREE"
    /\ task_start(t)
    /\ delay' = [delay EXCEPT ![t] = 0]
    /\ files1' = [files1 EXCEPT ![t] = files1[current]]
    /\ ctx' = [ctx EXCEPT ![t] = "user"]
    /\ UNCHANGED <<current, term_queue, delay_queue, wait_queue>>

\* sys_open gives out the free slot 1, sys_close clears it.
sys_open(file) ==
    /\ ctx[current] = "user"
    /\ files1[current] = 0
    /\ files1' = [files1 EXCEPT ![current] = file]
    /\ UNCHANGED <<current, state, task_list, queues, delay, ctx>>

sys_close ==
    /\ ctx[current] = "user"
    /\ files1[current] # 0
    /\ files1' = [files1 EXCEPT ![current] = 0]
    /\ UNCHANGED <<current, state, task_list, queues, delay, ctx>>

Next ==
    \/ clock_handler
    \/ \E us \in Delays : sys_delay(us)
    \/ hd_irq_handler
    \/ do_read_async
    \/ read_done
    \/ Yield
    \/ Enter
    \/ sys_exit
    \/ exception
    \/ \E t \in Task : sys_clone(t)
    \/ \E file \in FilePtr : sys_open(file)
    \/ sys_close

Spec == Init /\ [][Next]_vars

hd_continue == (ctx[current] = "hd" /\ do_read_async) \/ read_done

\* The timer keeps ticking and the disk answers every command.  The 8259A
\* holds a request until IF is set again, so it is enough that interrupts are
\* on again and again: strong fairness.  Code that runs with IF = 0 comes to
\* its end: weak fairness.
Fairness ==
    /\ SF_vars(clock_handler)
    /\ SF_vars(hd_irq_handler)
    /\ WF_vars(hd_continue)

FairSpec == Spec /\ Fairness

-----------------------------------------------------------------------------
(* Properties *)

TypeOK ==
    /\ current \in Task
    /\ state \in [Task -> States]
    /\ task_list \subseteq Task
    /\ running_queue \in Seq(Task)
    /\ term_queue \in Seq(Task)
    /\ delay_queue \in Seq(Task)
    /\ wait_queue \in Seq(Task)
    /\ delay \in [Task -> Nat]
    /\ files1 \in [Task -> Nat]
    /\ ctx \in [Task -> Contexts]

In(s) == {t \in Task : state[t] = s}

\* Until the first tick kernel_loop_task runs and is queued as well.
Booting == /\ current = KernelLoop
           /\ running_queue # <<>>
           /\ Head(running_queue) = KernelLoop

\* No struct task is linked twice on a queue, or into two queues.
LinkedOnce ==
    /\ IsInjective(running_queue)
    /\ IsInjective(term_queue)
    /\ IsInjective(delay_queue)
    /\ IsInjective(wait_queue)
    /\ ToSet(delay_queue) \cap ToSet(wait_queue) = {}
    /\ current \in ToSet(running_queue) => Booting

\* task->state tells where the task is: a runnable task has the CPU or is on
\* running_queue (only the idle task may be neither), a waiting one is on
\* delay_queue or wait_queue, a terminated one on term_queue.
StateTellsQueue ==
    /\ In("RUNNING") = {current, KernelLoop} \cup ToSet(running_queue)
    /\ In("WAIT") = ToSet(delay_queue) \cup ToSet(wait_queue)
    /\ In("TERM") = ToSet(term_queue)
    /\ task_list = Task \ In("FREE")

\* No task is lost and none is linked twice, whatever the order of ticks, disk
\* interrupts, yields and system calls (sched.c: yield, task_suspend,
\* task_resume, task_sched move the node "running" between the queues).
QueueInv == LinkedOnce /\ StateTellsQueue

\* do_term_task frees the struct task and the kernel stack of a task only
\* when the CPU has left it: it was terminated in an earlier step, it is not
\* the interrupted task, and it is not the task that is switched to.
ReapedOffCpu ==
    [][\A t \in Task : state[t] # "FREE" /\ state'[t] = "FREE"
          => /\ state[t] = "TERM"
             /\ t \notin {current, current'}]_vars

\* Every runnable task gets the CPU, although a tick that wakes a sleeper
\* and a disk interrupt bypass task_sched (sched.c task_resume).
NoStarvation ==
    \A t \in Task : (t \in ToSet(running_queue)) ~> (t = current)

\* A task that waits for the disk is resumed: do_read_async goes to sleep
\* with interrupts off, so the interrupt cannot come before it is queued.
ReaderResumed ==
    \A t \in Task : (t \in ToSet(wait_queue)) ~> (t = current)

\* Every sleeper is resumed, although clock_handler counts down files[1]
\* instead of delay and resumes the head of delay_queue for any of them.
SleeperResumed ==
    \A t \in Task : (t \in ToSet(delay_queue)) ~> (t = current)

\* Who waits is resumed, whether for the disk or for the clock.
WaitersResumed == ReaderResumed /\ SleeperResumed

\* A terminated task is destroyed. Only task_sched does that, and a tick that
\* wakes a sleeper returns before task_sched; so the promise holds when from
\* some time on no sleeper is due.
Reaped ==
    <>[](Overdue = {})
       => \A t \in Task : (state[t] = "TERM") ~> (state[t] = "FREE")

\* delay is in microseconds ("uint32_t delay; // us", kernel/task.h): a
\* sleeper is resumed when less than a tick of it is left.
SleepsItsDelay ==
    [][\A t \in Task : t \in ToSet(delay_queue) /\ t \notin ToSet(delay_queue')
          => delay[t] < TICK_US]_vars
=============================================================================
