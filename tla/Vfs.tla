--------------------------------- MODULE Vfs --------------------------------
(***************************************************************************)
(* Names: the dentry cache (fs/dentry.c), path lookup and mounts           *)
(* (fs/fs.c), the device file system (dev/dev.c) and the nodes of the      *)
(* terminals (kernel/tty.c), getcwd and realpath.                          *)
(*                                                                         *)
(* The two tasks that kernel_setup starts open their programs with         *)
(* interrupts enabled and may be preempted anywhere: between the test of a *)
(* lock and its owners++, and between the load and the store of rc++.  A   *)
(* system call has interrupts disabled: nobody else takes a step until it  *)
(* is over, and if it finds a lock taken, that is never.                   *)
(*                                                                         *)
(* rc is 16 bits wide and grows with every lookup.  The lookups of a       *)
(* behaviour are bounded, so no counter wraps here.                        *)
(***************************************************************************)
EXTENDS Naturals, Sequences, SequencesExt, FiniteSets, FiniteSetsExt

CONSTANTS Task,
          Disk,      \* the ext2 file system: directory -> sequence of blocks,
                     \* each a sequence of entries <<name, object>>; None is
                     \* inode 0
          LongNames, \* the names of DNAME_MAX_LEN characters and more
          Names,     \* the names of the terminals, in order: ttyS0, ttyS1 ..
          DEV_MAX,   \* inode numbers of the device file system
          Exe,       \* task -> the path of its program
          Paths,     \* the paths of system calls: sequences of names
          MAX_DENT,  \* dentries that fit into memory
          MaxLookups \* bound on the system calls that look up a path

VARIABLES dent,      \* the dentries
          lock,      \* lock[d]: the tasks that have incremented its owners
          walk,      \* the lookup that a task is in
          cwd, exe,  \* the dentries of the working directory, the program,
          held,      \* and another file
          boot,      \* what kernel_setup does next
          nodes,     \* inode_list: the nodes of the device file system
          bitmap,    \* inode_bitmap
          lookups,
          raced      \* history: a lock got two owners, or an update of rc
                     \* was lost

booted == <<boot, nodes, bitmap, lookups>>
files == <<cwd, exe, held>>
vars == <<dent, lock, walk, files, booted, raced>>

Id == 1 .. MAX_DENT
None == "none"
rootfs == 1
devroot == 2

dentry(obj, name, parent, mnt, rc) ==
    [obj |-> obj, name |-> name, parent |-> parent, mnt |-> mnt, rc |-> rc, subdirs |-> <<>>]
Unused == dentry(None, None, 0, None, 0)
Idle == [pc |-> "idle", next |-> "", after |-> "", on |-> 0, rc |-> 0, by |-> 0,
         path |-> <<>>, start |-> None, from |-> 0, at |-> 0, rest |-> <<>>, sub |-> 0,
         ret |-> 0, fault |-> FALSE, climbed |-> FALSE]

\* After ext2_mount_rootfs; the tasks' working directories are opened later in
\* kernel_setup and are counted here already.
Init == /\ dent = [d \in Id |-> IF d = rootfs
                                THEN dentry("root", "", 0, "ext2", 2 + Cardinality(Task))
                                ELSE Unused]
        /\ lock = [d \in Id |-> {}]
        /\ walk = [t \in Task |-> Idle]
        /\ cwd = [t \in Task |-> rootfs]
        /\ exe = [t \in Task |-> 0] /\ held = [t \in Task |-> 0]
        /\ boot = "mount" /\ nodes = <<>>
        /\ bitmap = {0} /\ lookups = 0 /\ raced = FALSE

-----------------------------------------------------------------------------
(* dentry.c *)

\* dentry_obtain, in kernel_setup
dentry_obtain(D, d) == [D EXCEPT ![d].rc = @ + 1]

Cached(dir, name) == SelectSeq(dent[dir].subdirs, LAMBDA d : dent[d].name = name)
FreeIds == {d \in Id : dent[d] = Unused}

\* search_in_dir: the entry in the first block, in front of one with inode 0
search_in_dir(blocks, name) ==
    IF blocks = <<>> THEN None
    ELSE LET es == blocks[1]
             at == {k \in 1 .. Len(es) : es[k][1] = name \/ es[k][2] = None}
         IN  IF at = {} THEN None ELSE es[Min(at)][2]

\* ext2_i_lookup, and devfs_i_lookup, which does not look at the directory;
\* None for -ENOENT.  A long name fills dent->name without a terminator, and
\* what follows it in the struct belongs to no name of a file.
Search(obj, mnt, name) ==
    IF name \in LongNames THEN None
    ELSE IF mnt = "devfs" THEN IF name \in ToSet(nodes) THEN name ELSE None
    ELSE IF obj \in DOMAIN Disk THEN search_in_dir(Disk[obj], name) ELSE None

\* A new dentry in the cache.  LIST_ADD evaluates dentry_obtain(dent) four
\* times (list.h:20-28).
Insert(D, d, dir, name, obj) ==
    [D EXCEPT ![d] = dentry(obj, name, dir, D[dir].mnt, 5), ![dir].subdirs = Append(@, d)]

-----------------------------------------------------------------------------
(* kernel_setup *)

\* Mutant: the new root keeps its empty name.
vfs_mount_name(D, d, r) ==
    LET dir == D[d].parent IN
    [D EXCEPT ![r].parent = dir, ![r].rc = @ + 1, ![d].parent = 0,
              ![dir].subdirs = Append(Remove(@, d), r)]

\* vfs_mount of the root r over the dentry d that its lookup has found.  d is
\* taken out of the tree, r gets its place, name and reference to the parent; d
\* keeps the references that the lookup has left.
vfs_mount(D, d, r) ==
    LET dir == D[d].parent IN
    [D EXCEPT ![r].name = D[d].name, ![r].parent = dir, ![r].rc = @ + 1, ![d].parent = 0,
              ![dir].subdirs = Append(Remove(@, d), r)]

\* devfs_mount makes the root of the device file system and mounts it on /dev,
\* whose dentry becomes number 3.
devfs_mount ==
    LET new == [dent EXCEPT ![devroot] = dentry("devfs", "", 0, "devfs", 1)]
    IN  /\ boot = "mount" /\ boot' = "tty"
        /\ dent' = vfs_mount(Insert(dentry_obtain(new, rootfs), 3, rootfs, "dev", "dev"),
                             3, devroot)
        /\ UNCHANGED <<lock, walk, files, nodes, bitmap, lookups, raced>>

Free == (0 .. DEV_MAX - 1) \ bitmap
bitmap_get == Free # {} /\ bitmap' = bitmap \cup {Min(Free)}

devfs_i_create(name) == bitmap_get /\ nodes' = Append(nodes, name)

\* The dentry of /dev that has been looked up is not released.
devfs_mknod(name) ==
    /\ devfs_i_create(name)
    /\ dent' = dentry_obtain(dentry_obtain(dent, devroot), devroot)

\* One round of ttydev_setup: create_tty_dev with dev_add, and devfs_mknod.
ttydev_setup ==
    /\ boot = "tty" /\ Len(nodes) < Len(Names)
    /\ devfs_mknod(Names[Len(nodes) + 1])
    /\ UNCHANGED <<lock, walk, files, boot, lookups, raced>>

\* kmalloc or bitmap_get fails: kernel_panic.
setup_error ==
    /\ boot \in {"mount", "tty"} /\ boot' = "panic"
    /\ UNCHANGED <<dent, lock, walk, files, nodes, bitmap, lookups, raced>>

\* The first terminal is opened for nxsh's input and for its output: the first
\* lookup inserts its dentry, the second one finds it.
open_terminal ==
    LET once == dentry_obtain(Insert(dentry_obtain(dentry_obtain(dent, devroot), devroot),
                                     4, devroot, Names[1], Names[1]), 4)
    IN  dentry_obtain(dentry_obtain(dentry_obtain(once, devroot), 4), 4)

task_start ==
    /\ boot = "tty" /\ Len(nodes) = Len(Names) /\ boot' = "up"
    /\ dent' = open_terminal
    /\ UNCHANGED <<lock, walk, files, nodes, bitmap, lookups, raced>>

-----------------------------------------------------------------------------
(* Lookups *)

Set(t, w) == walk' = [walk EXCEPT ![t] = w]

\* Nobody else is in a system call.
Runs(t) == \A s \in Task \ {t} : walk[s].pc \in {"idle", "dead"} \/ exe[s] = 0

\* rc++ or rc-- of d: the load, the rest is rc_store; then the task goes on
\* at next.
Count(w, d, n, next) ==
    [w EXCEPT !.pc = "store", !.on = d, !.rc = dent[d].rc, !.by = n, !.next = next]

rc_store(t) ==
    LET w == walk[t] IN
    /\ w.pc = "store" /\ Runs(t)
    /\ dent' = [dent EXCEPT ![w.on].rc = w.rc + w.by]
    /\ raced' = (raced \/ dent[w.on].rc # w.rc)
    /\ Set(t, [w EXCEPT !.pc = w.next])
    /\ UNCHANGED <<lock, files, booted>>

\* simplock_obtain of the lock of d, in two steps: the test and owners++.
Lock(w, d, next) == [w EXCEPT !.pc = "test", !.on = d, !.next = next]

simplock_test(t) ==
    /\ walk[t].pc = "test" /\ Runs(t) /\ lock[walk[t].on] = {}
    /\ Set(t, [walk[t] EXCEPT !.pc = "take"])
    /\ UNCHANGED <<dent, lock, files, booted, raced>>

\* Mutant: the owner is not counted.
simplock_take_not(t) ==
    /\ walk[t].pc = "take" /\ Runs(t)
    /\ Set(t, [walk[t] EXCEPT !.pc = walk[t].next])
    /\ UNCHANGED <<dent, lock, files, booted, raced>>

simplock_take(t) ==
    /\ walk[t].pc = "take" /\ Runs(t)
    /\ lock' = [lock EXCEPT ![walk[t].on] = @ \cup {t}]
    /\ raced' = (raced \/ lock[walk[t].on] # {})
    /\ Set(t, [walk[t] EXCEPT !.pc = walk[t].next])
    /\ UNCHANGED <<dent, files, booted>>

simplock_release(t, d) == lock' = [lock EXCEPT ![d] = @ \ {t}]

\* dentry_release of d, with its lock; it frees the dentry at 0, which
\* HeldIsCounted shows does not happen.
Release(w, d, after) == [Lock(w, d, "release") EXCEPT !.after = after]

dentry_release(t) ==
    /\ walk[t].pc = "release" /\ Runs(t)
    /\ Set(t, Count(walk[t], walk[t].on, -1, "released"))
    /\ UNCHANGED <<dent, lock, files, booted, raced>>

dentry_released(t) ==
    /\ walk[t].pc = "released" /\ Runs(t)
    /\ simplock_release(t, walk[t].on)
    /\ Set(t, IF walk[t].after = "done" THEN [walk[t] EXCEPT !.pc = "done"]
              ELSE [Idle EXCEPT !.pc = walk[t].after])
    /\ UNCHANGED <<dent, files, booted, raced>>

\* vfs_lookup, up to the first name: of a program, with interrupts enabled, or
\* in a system call
vfs_lookup(t, path, from) ==
    /\ boot = "up" /\ walk[t].pc = "idle" /\ Runs(t)
    /\ Set(t, Count([Idle EXCEPT !.path = path, !.start = dent[from].obj, !.from = from,
                                 !.at = from, !.rest = path], from, 1, "walk"))
    /\ UNCHANGED <<dent, lock, files, boot, nodes, bitmap, raced>>

utask_bootloader(t) == exe[t] = 0 /\ vfs_lookup(t, Exe[t], rootfs) /\ UNCHANGED lookups

syscall(t, path, absolute) ==
    /\ exe[t] # 0
    /\ lookups < MaxLookups /\ lookups' = lookups + 1
    /\ vfs_lookup(t, path, IF absolute THEN rootfs ELSE cwd[t])

\* Mutant: the dentry that is returned is not counted.
lookup_end_uncounted(t) ==
    /\ walk[t].pc = "walk" /\ walk[t].rest = <<>> /\ Runs(t)
    /\ Set(t, [walk[t] EXCEPT !.pc = "return"])
    /\ UNCHANGED <<dent, lock, files, booted, raced>>

\* dentry_lookup: strsep returns NULL.
lookup_end(t) ==
    /\ walk[t].pc = "walk" /\ walk[t].rest = <<>> /\ Runs(t)
    /\ Set(t, Count(walk[t], walk[t].at, 1, "return"))
    /\ UNCHANGED <<dent, lock, files, booted, raced>>

\* vfs_lookup gives back where it started.
lookup_return(t) ==
    /\ walk[t].pc = "return" /\ Runs(t)
    /\ Set(t, Release([walk[t] EXCEPT !.ret = walk[t].at, !.from = 0], walk[t].from, "done"))
    /\ UNCHANGED <<dent, lock, files, booted, raced>>

\* dentry_lookup: "." or ".."; above the root, the rest of the path is dropped.
lookup_dots(t) ==
    LET w == walk[t]
        up == dent[w.at].parent
    IN  /\ w.pc = "walk" /\ w.rest # <<>> /\ Head(w.rest) \in {".", ".."} /\ Runs(t)
        /\ Set(t, IF Head(w.rest) = ".." /\ up = 0
                  THEN Count([w EXCEPT !.climbed = TRUE], w.at, 1, "return")
                  ELSE [w EXCEPT !.rest = Tail(@), !.at = IF Head(w.rest) = "." THEN @ ELSE up])
        /\ UNCHANGED <<dent, lock, files, booted, raced>>

lookup_name(t) ==
    /\ walk[t].pc = "walk" /\ walk[t].rest # <<>> /\ Head(walk[t].rest) \notin {".", ".."}
    /\ Runs(t)
    /\ Set(t, Lock(walk[t], walk[t].at, "cache"))
    /\ UNCHANGED <<dent, lock, files, booted, raced>>

\* The name is in the cache, or it is searched, in memory or on the disk.
lookup_cache(t) ==
    LET w == walk[t]
        hit == Cached(w.at, Head(w.rest))
    IN  /\ w.pc = "cache" /\ Runs(t)
        /\ Set(t, IF hit # <<>> THEN Count([w EXCEPT !.sub = hit[1]], hit[1], 1, "out")
                  ELSE [w EXCEPT !.pc = "search"])
        /\ UNCHANGED <<dent, lock, files, booted, raced>>

\* The search has ended; a name that is found gets a dentry with a reference
\* to its directory.
lookup_search(t) ==
    LET w == walk[t]
        obj == Search(dent[w.at].obj, dent[w.at].mnt, Head(w.rest))
    IN  /\ w.pc = "search" /\ Runs(t)
        /\ Set(t, IF obj = None \/ FreeIds = {}
                  THEN [w EXCEPT !.pc = "out", !.sub = 0, !.fault = obj # None]
                  ELSE Count(w, w.at, 1, "insert"))
        /\ UNCHANGED <<dent, lock, files, booted, raced>>

\* The disk or kmalloc fails.
lookup_fault(t) ==
    /\ walk[t].pc = "search" /\ Runs(t)
    /\ Set(t, [walk[t] EXCEPT !.pc = "out", !.sub = 0, !.fault = TRUE])
    /\ UNCHANGED <<dent, lock, files, booted, raced>>

lookup_insert(t) ==
    LET w == walk[t]
        obj == Search(dent[w.at].obj, dent[w.at].mnt, Head(w.rest))
    IN  /\ w.pc = "insert" /\ Runs(t)
        /\ \E d \in FreeIds : /\ d = Min(FreeIds)
                              /\ dent' = Insert(dent, d, w.at, Head(w.rest), obj)
                              /\ Set(t, [w EXCEPT !.pc = "out", !.sub = d])
        /\ UNCHANGED <<lock, files, booted, raced>>

\* The directory is unlocked, and the lookup goes on in what was found, if any.
lookup_out(t) ==
    LET w == walk[t] IN
    /\ w.pc = "out" /\ Runs(t)
    /\ simplock_release(t, w.at)
    /\ Set(t, [w EXCEPT !.pc = IF w.sub = 0 THEN "return" ELSE "walk",
                        !.at = w.sub, !.rest = Tail(@)])
    /\ UNCHANGED <<dent, files, booted, raced>>

-----------------------------------------------------------------------------
(* What a task does with the result *)

Done(t) == walk[t].pc = "done" /\ Runs(t) /\ UNCHANGED <<dent, lock, booted, raced>>

\* A task without a program is terminated.
Failed(t) == IF exe[t] = 0 THEN "dead" ELSE "idle"

no_entry(t) ==
    /\ Done(t) /\ walk[t].ret = 0
    /\ Set(t, [Idle EXCEPT !.pc = Failed(t)])
    /\ UNCHANGED files

\* sys_access, vfs_open without memory for the file, task_chdir to something
\* that is not a directory
sys_access(t) ==
    /\ Done(t) /\ walk[t].ret # 0
    /\ Set(t, Release(Idle, walk[t].ret, Failed(t)))
    /\ UNCHANGED files

vfs_open(t) ==
    /\ Done(t) /\ walk[t].ret # 0
    /\ IF exe[t] = 0
       THEN exe' = [exe EXCEPT ![t] = walk[t].ret] /\ UNCHANGED held
       ELSE held[t] = 0 /\ held' = [held EXCEPT ![t] = walk[t].ret] /\ UNCHANGED exe
    /\ Set(t, Idle)
    /\ UNCHANGED cwd

vfs_close(t) ==
    /\ walk[t].pc = "idle" /\ Runs(t) /\ held[t] # 0
    /\ Set(t, Release(Idle, held[t], "idle"))
    /\ held' = [held EXCEPT ![t] = 0]
    /\ UNCHANGED <<dent, lock, cwd, exe, booted, raced>>

\* task_chdir to a directory.  devfs_i_create leaves the mode of a device
\* unset, so that one may pass for a directory, too.
task_chdir(t) ==
    /\ Done(t) /\ walk[t].ret # 0 /\ exe[t] # 0
    /\ dent[walk[t].ret].obj \in DOMAIN Disk \cup {"devfs"} \cup ToSet(Names)
    /\ Set(t, Release(Idle, cwd[t], "idle"))
    /\ cwd' = [cwd EXCEPT ![t] = walk[t].ret]
    /\ UNCHANGED <<exe, held>>

\* What two owners of a lock do to a list, and what becomes of a counter that
\* has lost an update, are not followed.
Next == \/ devfs_mount \/ ttydev_setup \/ setup_error \/ task_start
        \/ ~ raced /\ \E t \in Task :
             \/ utask_bootloader(t)
             \/ \E p \in Paths, a \in BOOLEAN : syscall(t, p, a)
             \/ rc_store(t) \/ simplock_test(t) \/ simplock_take(t)
             \/ dentry_release(t) \/ dentry_released(t)
             \/ lookup_end(t) \/ lookup_return(t) \/ lookup_dots(t) \/ lookup_name(t)
             \/ lookup_cache(t) \/ lookup_search(t) \/ lookup_fault(t) \/ lookup_insert(t)
             \/ lookup_out(t)
             \/ no_entry(t) \/ sys_access(t) \/ vfs_open(t) \/ vfs_close(t) \/ task_chdir(t)

-----------------------------------------------------------------------------
(* getcwd and realpath *)

\* dentry_abspath: the names on the way from the root
Abspath(d) ==
    LET chain[n \in 0 .. MAX_DENT, e \in 0 .. MAX_DENT] ==
            IF n = 0 \/ e = 0 \/ dent[e].parent = 0 THEN <<>>
            ELSE Append(chain[n - 1, dent[e].parent], dent[e].name)
    IN  chain[MAX_DENT, d]

\* Mutant: ".." is passed over.
realpath_stay(base, path) == base \o SelectSeq(path, LAMBDA n : n \notin {".", ".."})

\* realpath: the names of the result, from those of the working directory, or
\* from none for an absolute path.  That stat finds every part is a part of
\* what RealpathAgrees assumes.
realpath(base, path) ==
    FoldLeft(LAMBDA r, n : IF n = "." THEN r ELSE IF n = ".." THEN Front(r) ELSE Append(r, n),
             base, path)

-----------------------------------------------------------------------------
(* What names mean: the tree of the disk with the devices mounted on it *)

Entries(obj) == UNION {ToSet(Disk[obj][b]) : b \in 1 .. Len(Disk[obj])}

TreeChild(obj, name) ==
    IF obj = "root" /\ name = "dev" THEN "devfs"
    ELSE IF obj = "devfs" THEN IF name \in ToSet(Names) THEN name ELSE None
    ELSE IF obj \in DOMAIN Disk /\ \E e \in Entries(obj) : e[1] = name /\ e[2] # None
    THEN (CHOOSE e \in Entries(obj) : e[1] = name /\ e[2] # None)[2] ELSE None

TreeParent(obj) ==
    IF obj = "root" THEN None
    ELSE IF obj = "devfs" THEN "root"
    ELSE IF obj \in ToSet(Names) THEN "devfs"
    ELSE CHOOSE d \in DOMAIN Disk : \E e \in Entries(d) : e[2] = obj

\* The object that a path stands for, None if there is none or it climbs above
\* the root
Resolve(obj, path) ==
    FoldLeft(LAMBDA o, n : IF o = None \/ n = "." THEN o
                           ELSE IF n = ".." THEN TreeParent(o) ELSE TreeChild(o, n), obj, path)

\* A path that starts at a device, or goes on behind one
BehindDevice(obj, path) ==
    \/ obj \in ToSet(Names)
    \/ \E k \in 1 .. Len(path) : /\ path[k] \notin {".", ".."}
                                 /\ Resolve(obj, SubSeq(path, 1, k - 1)) \in ToSet(Names)

\* A path with a long name, or one whose entry is not in the first block of
\* its directory, or behind a deleted one
Overlooked(obj, path) ==
    \E k \in 1 .. Len(path) : LET dir == Resolve(obj, SubSeq(path, 1, k - 1)) IN
        \/ path[k] \in LongNames
        \/ /\ dir \in DOMAIN Disk /\ Disk[dir] # <<>>
           /\ \A e \in 1 .. Len(Disk[dir][1]) :
                 Disk[dir][1][e][1] = path[k] => \E f \in 1 .. e : Disk[dir][1][f][2] = None

-----------------------------------------------------------------------------
(* Properties.  They say nothing after a race. *)

\* A lookup ends at the object that its path stands for, with the operations
\* of that object's file system, whatever the other task has put into the
\* cache since; and it ends without one only if there is none, or a read or an
\* allocation failed, or the name is one that the code cannot find: of
\* DNAME_MAX_LEN characters (dentry.c:40), or behind the first block of its
\* directory or a deleted entry (ext2.c:291).  Two kinds of paths are
\* excepted: above the root, dentry_lookup drops the rest of the path
\* (dentry.c:22), and devfs_i_lookup finds a device behind any other device
\* (dev.c:82).
LookupResolves ==
    ~ raced => \A t \in Task : LET w == walk[t] IN
        w.pc = "done" /\ ~ w.climbed /\ ~ BehindDevice(w.start, w.path) =>
            IF w.ret = 0
            THEN \/ w.fault \/ Resolve(w.start, w.path) = None
                 \/ Overlooked(w.start, w.path)
            ELSE /\ dent[w.ret].obj = Resolve(w.start, w.path)
                 /\ dent[w.ret].mnt = "devfs" <=> dent[w.ret].obj \in {"devfs"} \cup ToSet(Names)

\* No directory has two dentries of the same name in the cache: of two programs
\* that are opened at the same time and miss the same directory, one waits with
\* the lock while the other one reads the disk (dentry.c:25-51), unless it was
\* preempted between its test of the lock and its owners++ (lock.c:11-16).
OneDentryPerName ==
    ~ raced => \A d \in Id : \A i, j \in 1 .. Len(dent[d].subdirs) :
        dent[dent[d].subdirs[i]].name = dent[dent[d].subdirs[j]].name => i = j

\* A dentry is never released more often than it is referred to by its
\* children, by mounts, files, working directories and lookups, so none is
\* freed in use, until a counter wraps or loses an update (dentry.c:59, 70;
\* every lookup leaves references behind, dentry.c:50).
HeldIsCounted ==
    ~ raced => \A d \in Id : dent[d] # Unused =>
        dent[d].rc >= Cardinality({e \in Id : dent[e].parent = d})
                        + Cardinality({t \in Task : cwd[t] = d})
                        + Cardinality({t \in Task : exe[t] = d})
                        + Cardinality({t \in Task : held[t] = d})
                        + Cardinality({t \in Task : walk[t].from = d
                                         /\ ~ (walk[t].pc = "store" /\ walk[t].next = "walk")})
                        + Cardinality({t \in Task : walk[t].ret = d})
                        + (IF d \in {rootfs, devroot} THEN 1 ELSE 0)
                        + (IF dent[d].obj = Names[1] THEN 2 ELSE 0)

\* getcwd returns a path that leads from the root to the working directory,
\* also across the mount (dentry.c:87, fs.c:197); devices are excepted as above.
GetcwdResolves ==
    \A t \in Task : walk[t].pc = "idle" /\ dent[cwd[t]].obj \notin ToSet(Names) =>
        Resolve("root", Abspath(cwd[t])) = dent[cwd[t]].obj

\* realpath, which works on the text only, gives a path without dots that
\* stands for the same object as the one it is given, in whatever directory
\* the task is.
RealpathAgrees ==
    \A t \in {s \in Task : walk[s].pc = "idle" /\ exe[s] # 0} : \A p \in Paths, a \in BOOLEAN :
        LET obj == IF a THEN "root" ELSE dent[cwd[t]].obj
            real == realpath(IF a THEN <<>> ELSE Abspath(cwd[t]), p)
        IN  obj \notin ToSet(Names) /\ Resolve(obj, p) # None =>
                Resolve("root", real) = Resolve(obj, p) /\ ToSet(real) \cap {".", ".."} = {}

\* Both ways back from a directory to a path, through the dentries (getcwd) and
\* through the text (realpath), lead to the same place again.
PathsLeadBack == ~ raced => GetcwdResolves /\ RealpathAgrees
=============================================================================
