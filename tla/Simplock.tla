------------------------------ MODULE Simplock ------------------------------
(***************************************************************************)
(* kernel/lock.c: the lock of the heap, the log, the hard disk and the     *)
(* directory entries.  obtain tests owners and then increments it, release *)
(* decrements it; neither is atomic.  At -O0 owners++ is a load and a      *)
(* store, and so is owners--.                                              *)
(*                                                                         *)
(* There is one CPU.  A caller that runs with EFLAGS.IF = 1 (Preemptible:  *)
(* utask_bootloader) can lose it between any two instructions.  A system   *)
(* call or an interrupt handler runs with IF = 0 until it returns to "out".*)
(***************************************************************************)
EXTENDS Naturals

CONSTANTS Task,         \* the tasks that use the lock
          Preemptible,  \* those that call it with IF = 1
          MOD           \* owners is unsigned: 2^32, smaller in the runs

ASSUME LockAssumption == /\ Preemptible \subseteq Task
                         /\ MOD \in Nat
                         /\ MOD > 1

VARIABLES owners,   \* lock->owners
          current,  \* the task that has the CPU
          pc,       \* where each task is
          reg       \* the register of owners++ and owners--

vars == <<owners, current, pc, reg>>

Labels == {"out",     \* not using the lock
           "test",    \* while (lock->owners > 0)
           "load", "store",     \* lock->owners++
           "in",      \* between obtain and release
           "dstore"}  \* lock->owners--, loaded and not yet stored

Init == /\ owners = 0
        /\ current \in Task
        /\ pc = [t \in Task |-> "out"]
        /\ reg = [t \in Task |-> 0]

\* EFLAGS.IF
Interruptible == current \in Preemptible \/ pc[current] = "out"

Goto(label) == pc' = [pc EXCEPT ![current] = label]

-----------------------------------------------------------------------------
call ==
    /\ pc[current] = "out"
    /\ Goto("test")
    /\ UNCHANGED <<owners, current, reg>>

\* The lock is taken: yield with IF = 1, busy waiting with IF = 0.
obtain_wait ==
    /\ pc[current] = "test"
    /\ owners > 0
    /\ IF Interruptible THEN current' \in Task ELSE UNCHANGED current
    /\ UNCHANGED <<owners, pc, reg>>

\* Mutant of obtain_test: owners is not tested.
obtain_untested ==
    /\ pc[current] = "test"
    /\ Goto("load")
    /\ UNCHANGED <<owners, current, reg>>

obtain_test ==
    /\ pc[current] = "test"
    /\ owners = 0
    /\ Goto("load")
    /\ UNCHANGED <<owners, current, reg>>

obtain_load ==
    /\ pc[current] = "load"
    /\ reg' = [reg EXCEPT ![current] = owners]
    /\ Goto("store")
    /\ UNCHANGED <<owners, current>>

obtain_store ==
    /\ pc[current] = "store"
    /\ owners' = (reg[current] + 1) % MOD
    /\ Goto("in")
    /\ UNCHANGED <<current, reg>>

release_load ==
    /\ pc[current] = "in"
    /\ reg' = [reg EXCEPT ![current] = owners]
    /\ Goto("dstore")
    /\ UNCHANGED <<owners, current>>

\* Mutant of release_store: a return path that leaves the lock as it is.
release_forgotten ==
    /\ pc[current] = "dstore"
    /\ Goto("out")
    /\ UNCHANGED <<owners, current, reg>>

release_store ==
    /\ pc[current] = "dstore"
    /\ owners' = (reg[current] + (MOD - 1)) % MOD
    /\ Goto("out")
    /\ UNCHANGED <<current, reg>>

\* The clock interrupt, or a disk read that puts the caller to sleep while it
\* holds the lock: another task gets the CPU.
clock_handler ==
    /\ Interruptible
    /\ current' \in Task
    /\ UNCHANGED <<owners, pc, reg>>

Next == \/ call
        \/ obtain_wait \/ obtain_test \/ obtain_load \/ obtain_store
        \/ release_load \/ release_store
        \/ clock_handler

Spec == Init /\ [][Next]_vars

-----------------------------------------------------------------------------
(* Properties *)

TypeOK == /\ owners \in 0 .. MOD - 1
          /\ current \in Task
          /\ pc \in [Task -> Labels]
          /\ reg \in [Task -> 0 .. MOD - 1]

Holders == {t \in Task : pc[t] \in {"in", "dstore"}}

\* "A simple lock for kernel" (kernel/lock.h): between simplock_obtain and
\* simplock_release no other task is there.
Mutex == \A s, t \in Holders : s = t

\* owners counts the holders: release never takes it below zero, and the lock
\* is free again when nobody holds it.
OwnersCount == owners = IF Holders = {} THEN 0 ELSE 1

\* A caller with IF = 0 that finds the lock taken waits for ever, with the
\* whole machine (lock.c, the loop without yield). It only finds it taken
\* when a preemptible task has lost the CPU while it holds the lock.
HangCause ==
    current \notin Preemptible /\ pc[current] = "test" /\ owners > 0
       => \E t \in Preemptible : t \in Holders
=============================================================================
