------------------------------ MODULE Harddisk ------------------------------
(***************************************************************************)
(* The disk driver (drivers/harddisk/harddisk.c): tasks that read sectors, *)
(* the drive that answers later, and its interrupt.  A caller that runs    *)
(* with EFLAGS.IF = 1 sleeps on wait_queue until the interrupt handler     *)
(* resumes it; a caller with IF = 0 polls the status register.             *)
(*                                                                         *)
(* The lock is held across the sleep.  Two callers with IF = 1 can both    *)
(* pass its test before either increments owners (module Simplock has the  *)
(* single instructions); raced records that, and astray that a polled call *)
(* and the drive got out of step.                                          *)
(***************************************************************************)
EXTENDS Naturals, Sequences

CONSTANTS Task,
          Idle,        \* the kernel loop
          SyncCounts,  \* the sector counts of calls with IF = 0
          AsyncCounts  \* and with IF = 1 (read_block: CONFIG_EXT2_BS / 512 each)

ASSUME HarddiskAssumption ==
    /\ Idle \notin Task
    /\ SyncCounts \subseteq Nat \ {0}
    /\ AsyncCounts \subseteq Nat \ {0}

NoTask == Idle

VARIABLES cpu,         \* the task that runs
          pc, eif,     \* where a task is in hd_read, EFLAGS.IF of the call
          count, room, \* sectors asked for, sectors the buffer has room for
          got,         \* sectors taken from the data port
          owners,      \* the holders of the lock
          dev,         \* the drive: "idle", "BSY" or "DRQ"
          cmd, left,   \* the task whose command it executes, sectors to come
          irq,         \* an interrupt is latched in the 8259A
          raced,       \* two tasks held the lock
          astray       \* a polled call gave up on the drive, read before it had
                       \* data, or left it with sectors

drive == <<dev, cmd, left>>
history == <<raced, astray>>
vars == <<cpu, pc, eif, count, room, got, owners, drive, irq, history>>

Init ==
    /\ cpu = Idle
    /\ pc = [t \in Task |-> "out"]
    /\ eif = [t \in Task |-> FALSE]
    /\ count = [t \in Task |-> 0]
    /\ room = [t \in Task |-> 0]
    /\ got = [t \in Task |-> <<>>]
    /\ owners = {}
    /\ dev = "idle" /\ cmd = NoTask /\ left = 0
    /\ irq = FALSE
    /\ raced = FALSE
    /\ astray = FALSE

Goto(t, label) == pc' = [pc EXCEPT ![t] = label]

\* Interrupts are on outside calls, and in calls that started with IF = 1
\* except between disable_irq and enable_irq of do_read_async.
Interruptible ==
    cpu # Idle => \/ pc[cpu] = "out"
                  \/ eif[cpu] /\ pc[cpu] \in {"obtain", "take", "poll", "cmd", "release"}

\* The tasks that yield and the clock may switch to.
Runnable == {Idle} \cup {t \in Task : pc[t] # "sleep"}

clock_handler ==
    /\ Interruptible
    /\ cpu' \in Runnable \ {cpu}
    /\ UNCHANGED <<pc, eif, count, room, got, owners, drive, irq, history>>

-----------------------------------------------------------------------------
\* n sectors into a buffer of r sectors, the last of which may be smaller
hd_read(t, n, r, f) ==
    /\ cpu = t
    /\ pc[t] = "out"
    /\ eif' = [eif EXCEPT ![t] = f]
    /\ count' = [count EXCEPT ![t] = n]
    /\ room' = [room EXCEPT ![t] = r]
    /\ got' = [got EXCEPT ![t] = <<>>]
    /\ Goto(t, "obtain")
    /\ UNCHANGED <<cpu, owners, drive, irq, history>>

\* while (lock->owners > 0): the lock is free
simplock_obtain(t) ==
    /\ cpu = t
    /\ pc[t] = "obtain"
    /\ owners = {}
    /\ Goto(t, "take")
    /\ UNCHANGED <<cpu, eif, count, room, got, owners, drive, irq, history>>

\* The lock is taken: yield, or spin with interrupts off.
simplock_wait(t) ==
    /\ cpu = t
    /\ pc[t] = "obtain"
    /\ owners # {}
    /\ IF eif[t]
       THEN cpu' \in Runnable \ {t} /\ UNCHANGED pc
       ELSE Goto(t, "spin") /\ UNCHANGED cpu
    /\ UNCHANGED <<eif, count, room, got, owners, drive, irq, history>>

\* lock->owners++
simplock_take(t) ==
    /\ cpu = t
    /\ pc[t] = "take"
    /\ owners' = owners \cup {t}
    /\ raced' = (raced \/ owners # {})
    /\ Goto(t, "poll")
    /\ UNCHANGED <<cpu, eif, count, room, got, drive, irq, astray>>

\* Reading the status register clears the drive's interrupt line.  Whether a
\* latched interrupt survives that depends on the 8259A.
StatusRead == irq' \in {irq, FALSE}

\* The loop that waits for the drive not to be busy.
poll_busy(t) ==
    /\ cpu = t
    /\ pc[t] = "poll"
    /\ dev # "BSY"
    /\ StatusRead
    /\ Goto(t, "cmd")
    /\ UNCHANGED <<cpu, eif, count, room, got, owners, drive, history>>

\* HD_TIMEOUT: the call returns -ETIMEDOUT.
poll_timeout(t) ==
    /\ cpu = t
    /\ pc[t] = "poll"
    /\ dev = "BSY"
    /\ Goto(t, "release")
    /\ UNCHANGED <<cpu, eif, count, room, got, owners, drive, irq, history>>

\* The drive takes a command when it is idle and ignores it when it is busy.
\* With sectors still to be fetched it does the one or the other.
Command(t) ==
    \/ dev # "BSY" /\ dev' = "BSY" /\ cmd' = t /\ left' = count[t]
    \/ dev # "idle" /\ UNCHANGED drive

do_read_sync(t) ==
    /\ cpu = t
    /\ pc[t] = "cmd"
    /\ ~ eif[t]
    /\ Command(t)
    /\ Goto(t, "wait")
    /\ UNCHANGED <<cpu, eif, count, room, got, owners, irq, history>>

wait(t) ==
    /\ cpu = t
    /\ pc[t] = "wait"
    /\ dev = "DRQ"
    /\ StatusRead
    /\ Goto(t, "sector")
    /\ UNCHANGED <<cpu, eif, count, room, got, owners, drive, history>>

wait_timeout(t) ==
    /\ cpu = t
    /\ pc[t] = "wait"
    /\ dev = "BSY"
    /\ astray' = TRUE
    /\ Goto(t, "release")
    /\ UNCHANGED <<cpu, eif, count, room, got, owners, drive, irq, raced>>

\* The command, and task_suspend, which gives the CPU to another task.
do_read_async(t) ==
    /\ cpu = t
    /\ pc[t] = "cmd"
    /\ eif[t]
    /\ Command(t)
    /\ Goto(t, "sleep")
    /\ cpu' \in Runnable \ {t}
    /\ UNCHANGED <<eif, count, room, got, owners, irq, history>>

\* What the data port yields, and what the drive does after a sector.
Junk == <<NoTask, 0>>
Sector == IF dev = "DRQ" THEN <<cmd, left>> ELSE Junk
Transfer ==
    IF dev = "DRQ"
    THEN /\ dev' = IF left = 1 THEN "idle" ELSE "BSY"
         /\ left' = left - 1
         /\ cmd' = IF left = 1 THEN NoTask ELSE cmd
    ELSE UNCHANGED drive

\* One more sector ends the loop: do_read_async takes all, do_read_sync stops
\* when the buffer is full.
Ends(t) == LET n == Len(got[t]) + 1
           IN  n = count[t] \/ (~ eif[t] /\ n = room[t])

\* One sector.  do_read_async sleeps before the next one, do_read_sync goes
\* on reading without a look at the status.
read_one_sector(t) ==
    /\ cpu = t
    /\ pc[t] = "sector"
    /\ got' = [got EXCEPT ![t] = Append(@, Sector)]
    /\ Transfer
    /\ astray' = (astray \/ (~ eif[t] /\ (dev # "DRQ" \/ (Ends(t) /\ left # 1))))
    /\ IF Ends(t) THEN Goto(t, "release") /\ UNCHANGED cpu
       ELSE IF eif[t] THEN Goto(t, "sleep") /\ cpu' \in Runnable \ {t}
       ELSE UNCHANGED <<pc, cpu>>
    /\ UNCHANGED <<eif, count, room, owners, irq, raced>>

\* Mutant: the lock is kept.
simplock_release_not(t) ==
    /\ cpu = t
    /\ pc[t] = "release"
    /\ Goto(t, "out")
    /\ UNCHANGED <<cpu, eif, count, room, got, owners, drive, irq, history>>

simplock_release(t) ==
    /\ cpu = t
    /\ pc[t] = "release"
    /\ owners' = owners \ {t}
    /\ Goto(t, "out")
    /\ UNCHANGED <<cpu, eif, count, room, got, drive, irq, history>>

-----------------------------------------------------------------------------
\* The drive has the next sector and raises its interrupt.
data_ready ==
    /\ dev = "BSY"
    /\ dev' = "DRQ"
    /\ irq' = TRUE
    /\ UNCHANGED <<cpu, pc, eif, count, room, got, owners, cmd, left, history>>

Sleepers == {t \in Task : pc[t] = "sleep"}

\* Mutant: the reader is resumed whatever the status.
hd_irq_handler_unchecked ==
    /\ Interruptible
    /\ irq
    /\ irq' = FALSE
    /\ IF Sleepers # {}
       THEN \E t \in Sleepers : cpu' = t /\ Goto(t, "sector")
       ELSE UNCHANGED <<cpu, pc>>
    /\ UNCHANGED <<eif, count, room, got, owners, drive, history>>

\* Mutant: nobody is resumed.
hd_irq_handler_deaf ==
    /\ Interruptible
    /\ irq
    /\ irq' = FALSE
    /\ UNCHANGED <<cpu, pc, eif, count, room, got, owners, drive, history>>

\* The handler resumes the sleeper if the drive has data; task_resume gives
\* it the CPU at once.
hd_irq_handler ==
    /\ Interruptible
    /\ irq
    /\ irq' = FALSE
    /\ IF dev = "DRQ" /\ Sleepers # {}
       THEN \E t \in Sleepers : cpu' = t /\ Goto(t, "sector")
       ELSE UNCHANGED <<cpu, pc>>
    /\ UNCHANGED <<eif, count, room, got, owners, drive, history>>

Step(t) ==
    \/ simplock_obtain(t) \/ simplock_wait(t) \/ simplock_take(t)
    \/ poll_busy(t) \/ poll_timeout(t) \/ wait_timeout(t)
    \/ do_read_sync(t) \/ wait(t) \/ do_read_async(t)
    \/ read_one_sector(t) \/ simplock_release(t)

Next ==
    \/ clock_handler
    \/ \E t \in Task, n \in SyncCounts : \E r \in 1 .. n : hd_read(t, n, r, FALSE)
    \/ \E t \in Task, n \in AsyncCounts : hd_read(t, n, n, TRUE)
    \/ \E t \in Task : Step(t)
    \/ data_ready
    \/ hd_irq_handler

\* The drive answers, code with interrupts off runs on, and a latched
\* interrupt is taken if interrupts are on again and again.
Fairness ==
    /\ WF_vars(data_ready)
    /\ SF_vars(hd_irq_handler)
    /\ WF_vars(~ Interruptible /\ \E t \in Task : Step(t))

Spec == Init /\ [][Next]_vars
FairSpec == Spec /\ Fairness

-----------------------------------------------------------------------------
(* Properties *)

\* What a reader finds in its buffer are the sectors of its own command, each
\* one once and in order, whatever interrupts earlier commands left behind
\* (harddisk.c: hd_irq_handler looks at the status before it resumes).  Only
\* two things spoil it: two callers that pass the lock's test together, and a
\* polled call that gives up on the drive, reads too early or leaves sectors
\* in it (do_read_sync waits once and stops at a full buffer).
ReadsOwn ==
    ~ raced /\ ~ astray => \A t \in Task : \A i \in 1 .. Len(got[t]) :
        got[t][i] = <<t, count[t] - i + 1>>

\* Sectors are read from the data port only while the drive says that data
\* is ready.
SectorReady == ~ raced /\ ~ astray => \A t \in Task : pc[t] = "sector" => dev = "DRQ"

\* The CPU spins in simplock_obtain with interrupts off only while the owner
\* of the lock sleeps in do_read_async, or was switched away from in a call
\* with interrupts on.  (Once two tasks were in, owners may be miscounted.)
HangCause ==
    ~ raced => \A t \in Task : pc[t] = "spin" => \E s \in owners : eif[s]

\* A reader that sleeps gets all its sectors and returns, unless the CPU
\* spins for the lock that the reader holds, or the driver has been entered
\* twice or got out of step with the drive before (harddisk.c: do_read_async).
Completes ==
    \A t \in Task :
        pc[t] = "sleep" ~> \/ pc[t] = "release"
                           \/ raced \/ astray
                           \/ \E s \in Task : pc[s] = "spin"
=============================================================================
