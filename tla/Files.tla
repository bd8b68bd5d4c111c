------------------------------- MODULE Files --------------------------------
(***************************************************************************)
(* Open files and their reference counts: vfs_open and vfs_close           *)
(* (fs/file.c), the system calls on descriptors (fs/fs.c), and what        *)
(* creating, cloning and destroying a user task does to the files it       *)
(* holds (kernel/task.c).                                                  *)
(*                                                                         *)
(* A task holds files in its descriptors, as its working directory and as  *)
(* its executable; these are its slots.  System calls and the destruction  *)
(* of a task run with interrupts off, so each is one step.  A lookup that  *)
(* finds nothing changes no state and is left out.                         *)
(***************************************************************************)
EXTENDS Naturals, FiniteSets

CONSTANTS Task,
          NR_FILES,       \* the number of struct files that fit into memory
          NR_TASK_FILES,
          Init_, Nxsh,    \* the user tasks kernel_setup creates
          RC_MAX          \* bound on rc (uint16_t), which clones drive up

ASSUME FilesAssumption ==
    /\ NR_FILES \in Nat \ 0 .. 3
    /\ NR_TASK_FILES \in Nat \ {0, 1, 2}
    /\ Init_ \in Task /\ Nxsh \in Task /\ Init_ # Nxsh
    /\ RC_MAX \in Nat

STDIN_FILENO == 0
STDOUT_FILENO == 1
STDERR_FILENO == 2
Fd == 0 .. NR_TASK_FILES - 1
CWD == NR_TASK_FILES
EXE == NR_TASK_FILES + 1
NULL == 0
File == 1 .. NR_FILES
Slot == 0 .. NR_TASK_FILES + 1

VARIABLES alive,  \* the user tasks that exist
          held,   \* held[t][s]: the file in slot s of task t
          rc,     \* pfile->rc; 0 for a struct that is not allocated
          live    \* the struct files that are allocated

vars == <<alive, held, rc, live>>

stdout == 4  \* the file kernel_setup opens for nxsh's output

Nothing == [s \in Slot |-> NULL]

\* The slots of all tasks that point to f, and those of one task.
Holders(f) == {h \in Task \X Slot : held[h[1]][h[2]] = f}
Times(t, f) == Cardinality({s \in Slot : held[t][s] = f})

\* Four vfs_open: a working directory each, and nxsh's input and output.
\* create_utask is given no file for its errors and takes the one for output
\* again, without counting it.
Init ==
    /\ alive = {Init_, Nxsh}
    /\ held = [t \in Task |->
                 IF t = Init_ THEN [Nothing EXCEPT ![CWD] = 1]
                 ELSE IF t = Nxsh
                 THEN [Nothing EXCEPT ![CWD] = 2, ![STDIN_FILENO] = 3,
                                      ![STDOUT_FILENO] = stdout,
                                      ![STDERR_FILENO] = stdout]
                 ELSE Nothing]
    /\ live = 1 .. 4
    /\ rc = [f \in File |-> IF f \in live THEN 1 ELSE 0]

-----------------------------------------------------------------------------
\* The tasks whose system calls are modelled: their program is loaded, and
\* their slots do not point to freed memory, whose use is undefined.
Booted(t) ==
    /\ t \in alive
    /\ held[t][EXE] # NULL
    /\ \A s \in Slot : held[t][s] \in live \cup {NULL}

\* The memory kmalloc may return.  Free structs to which no slot points are
\* interchangeable, so one of them is enough.
Allocatable ==
    {f \in File \ live : Holders(f) # {} \/ \A g \in File \ live : Holders(g) = {} => f <= g}

\* vfs_open into a slot; an older file of the slot is dropped by the caller.
vfs_open(t, s, f) ==
    /\ f \in Allocatable
    /\ live' = live \cup {f}
    /\ rc' = [rc EXCEPT ![f] = 1]
    /\ held' = [held EXCEPT ![t][s] = f]
    /\ UNCHANGED alive

utask_bootloader(t) ==
    /\ t \in alive
    /\ held[t][EXE] = NULL
    /\ \E f \in File : vfs_open(t, EXE, f)

sys_open(t) ==
    /\ Booted(t)
    /\ \E fd \in Fd :
          /\ held[t][fd] = NULL
          /\ \A i \in Fd : i < fd => held[t][i] # NULL
          /\ \E f \in File : vfs_open(t, fd, f)

\* n calls of vfs_close: the struct is freed when its counter gets to 0.  A
\* call after that, in destroy_task, changes memory that is free already.
Freed(f, n) == rc[f] <= n

Dropped(f, n) == IF Freed(f, n) THEN 0 ELSE rc[f] - n

\* The code does not test fd: the calls of a task whose fd is not one of its
\* table are left out, they read what is behind the table.
sys_close(t) ==
    \E fd \in Fd : LET f == held[t][fd] IN
        /\ Booted(t)
        /\ f # NULL
        /\ rc' = [rc EXCEPT ![f] = Dropped(f, 1)]
        /\ live' = IF Freed(f, 1) THEN live \ {f} ELSE live
        /\ held' = [held EXCEPT ![t][fd] = NULL]
        /\ UNCHANGED alive

\* vfs_open of the new directory, then vfs_close of the old one.
task_chdir(t) ==
    /\ Booted(t)
    /\ \E f \in Allocatable : LET old == held[t][CWD] IN
          /\ rc' = [rc EXCEPT ![f] = 1, ![old] = Dropped(old, 1)]
          /\ live' = {f} \cup (IF Freed(old, 1) THEN live \ {old} ELSE live)
          /\ held' = [held EXCEPT ![t][CWD] = f]
    /\ UNCHANGED alive

\* The file that sys_stat opens is never closed.
sys_stat(t) ==
    /\ Booted(t)
    /\ \E f \in Allocatable :
          /\ live' = live \cup {f}
          /\ rc' = [rc EXCEPT ![f] = 1]
    /\ UNCHANGED <<alive, held>>

\* Mutant: the child shares the descriptors without counting them.
clone_utask_uncounted(t, c) ==
    /\ Booted(t)
    /\ c \in Task \ alive
    /\ alive' = alive \cup {c}
    /\ held' = [held EXCEPT ![c] = held[t]]
    /\ rc' = [rc EXCEPT ![held[t][CWD]] = @ + 2]
    /\ rc[held[t][CWD]] + 2 <= RC_MAX
    /\ UNCHANGED live

\* The child gets copies of all slots.  cwd is counted twice.
clone_utask(t, c) ==
    /\ Booted(t)
    /\ c \in Task \ alive
    /\ alive' = alive \cup {c}
    /\ held' = [held EXCEPT ![c] = held[t]]
    /\ rc' = [f \in File |-> rc[f] + Times(t, f) + IF f = held[t][CWD] THEN 1 ELSE 0]
    /\ \A f \in File : rc'[f] <= rc[f] \/ rc'[f] <= RC_MAX
    /\ UNCHANGED live

\* vfs_close of every slot.
destroy_task(t) ==
    /\ Booted(t)
    /\ alive' = alive \ {t}
    /\ held' = [held EXCEPT ![t] = Nothing]
    /\ rc' = [f \in File |-> Dropped(f, Times(t, f))]
    /\ live' = {f \in live : ~ Freed(f, Times(t, f))}

Next ==
    \E t \in Task :
        \/ utask_bootloader(t)
        \/ sys_open(t) \/ sys_close(t) \/ task_chdir(t) \/ sys_stat(t)
        \/ \E c \in Task : clone_utask(t, c)
        \/ destroy_task(t)

Spec == Init /\ [][Next]_vars

-----------------------------------------------------------------------------
(* Properties *)

\* No task holds a file that has been freed, through any history of opens,
\* closes, clones and exits, with one exception: the struct file that
\* create_utask puts into two descriptors of nxsh and counts once (task.c:
\* create_utask, clone_utask, destroy_task; file.c: vfs_close).
DanglingOnlyShared ==
    \A t \in alive, s \in Slot :
        held[t][s] \notin live \cup {NULL} => held[t][s] = stdout

\* rc never falls short of the slots that point to a file, but for the one
\* reference to nxsh's output that is not counted (file.c: vfs_close frees at
\* 0).
Counted ==
    \A f \in live :
        Cardinality(Holders(f)) <= rc[f] + (IF f = stdout THEN 1 ELSE 0)

\* No file is freed while it is held, nor about to be, but for that one.
FilesCounted == DanglingOnlyShared /\ Counted
=============================================================================
