# NeuxOS in TLA+

NeuxOS is a small x86 kernel with hardware task switching, an ext2 and a device
file system, a heap over counted pages, terminals, and a shell. This directory
holds TLA+ models of its parts, TLC configurations that check them on small
instances, and TLAPS proofs of the properties that matter most.

The models follow the code. Where the code does something surprising the model
does it too, and a property then says exactly how far the damage goes.
Line numbers of what each definition translates are in `PROJECT.json` (`map`).

## 1. The machine the models assume

These facts decide what is one step in every module.

* There is one CPU.
* System calls, exceptions and hardware interrupts all enter through interrupt
  gates (`kernel/interrupt.c`), so they run with `EFLAGS.IF = 0` until the next
  task switch (`ljmp` through a TSS) or `iret`. Such a stretch is one step.
* Kernel code runs with `IF = 1` in three places only: the task `[ttyd]`
  (`tty_task`), `utask_bootloader` (the first two user tasks, at boot), and the
  rest of a system call that has called `yield`, which ends with `enable_irq`.
  These are interleaved instruction by instruction where it matters.
* A disk reader that was put to sleep is switched back in with `IF = 0`.
* The kernel is compiled with `-O0` (`vars.mk`): `x++` on a global is a load
  followed by a store.
* The 8259A latches a request while interrupts are off. This justifies strong
  fairness of interrupt handlers: it is enough that interrupts are on again and
  again.

## 2. Inventory

| Part | State | Operations | What is hard about it | Module |
|---|---|---|---|---|
| scheduler `kernel/sched.c` | `current`, task states, running/term queues | `task_start`, `task_term`, `yield`, `task_suspend`, `task_resume`, `task_sched`, exit, clone | one list node per task moved between five queues from system calls and interrupts; tasks freed inside an interrupt | `Sched` |
| clock `kernel/clock.c` | `delay_queue` | `clock_handler`, `sys_delay` | walks the queue by the wrong member; a tick either resumes or schedules | `Sched` |
| lock `kernel/lock.c` | `owners` | obtain, release | test and increment are not atomic; busy waiting with interrupts off | `Simplock` |
| lists `lib/list.h` | `prev`, `next` | add, delete, enqueue, dequeue | four pointers rewritten per operation, also at both ends and in lists of one node | `List`, `Queue` |
| heap `mm/kmalloc.c`, pages `mm/page.c` | block list, page counters | `kmemalign`, `kfree`, `alloc_page`, `free_page` | search over gaps and pages at once, shared pages, alignment | `Heap` |
| disk `drivers/harddisk` | lock, `wait_queue`, the drive | polled and interrupt-driven reads | interrupts of old commands, timeouts, lock held while asleep | `Harddisk` |
| interrupt controller, keyboard ring | masks, `kb_buf` | `enable_irq_n`, `disable_irq_n`, handler, reader | `count` changed from two sides | `Keyboard` |
| open files `fs/file.c`, `fs/fs.c`, `kernel/task.c` | `rc`, descriptors, cwd, exe | open, close, chdir, stat, clone, exit | one file in several slots | `Files` |
| dentries and mounts `fs/dentry.c`, `fs/fs.c`, devfs `dev/dev.c` | tree, `rc`, locks, device nodes | lookup, release, mount, `getcwd`, `realpath` | counts taken inside macros, lock held over disk reads, two programs opened at once with interrupts on, a mount point that is replaced | `Vfs` |
| address spaces `mm/mm.c`, `mm/page_fault.c`, GDT `kernel/descriptor.c` | directories, tables, page counters, bitmap | create, clone, page fault, exit, destroy | tables shared read-only, 8-bit counters, exhaustion | `Mm` |
| terminals `kernel/tty.c` | input rings, current tty | `[ttyd]`, read, write, switch | ring without a full test, count changed from two sides | `Tty`, `Monitor` |
| monitor `drivers/monitor` | cursor, screen window, CRT registers | putchar, scroll, switch | registers written in halves by two tasks; edges of the buffer | `Monitor` |
| keyboard decoder | modifiers, locks, partial sequences | `keyboard_read`, LEDs | state that lags behind the keys; polling for an acknowledge | `Decoder` |
| ext2 `fs/ext2` | inodes, blocks, a static group | open, read, readdir, getdents | static variable across a sleep; block numbering over levels | `Ext2` |
| boot loader `boot/hd/loader.c`, `init_page` | image, regions, free pages | find, read, copy, enable paging | three computations that must agree | `Loader` |
| shell `app/nxsh.c` | history, line buffer | line editing, recall | ring of lines, what is shown against what is run | `Nxsh` |
| C library `lib/` | none | strings, `vsprintf` | boundaries | `Strings`, `Printf` |
| logging, floppy, backtrace, system call table | | | formatting, unused, or written once | not modelled |

`PROJECT.json` lists every part with its status and reason, and the hazards with
the line at which each one bites and the properties that would catch it.

## 3. Modules

**Sched** (instance: `MCSched`). State: `current`, `task->state`, the queues as
sequences, `delay`, `files[1]` and the context each task executes. Each kernel
entry is an action: `clock_handler`, `hd_irq_handler`, `sys_delay`, `sys_exit`,
`sys_clone`, exceptions, the sleeping disk read, `yield`. `clock_handler` walks
`delay_queue` with the member `list` although tasks are linked by `running`; the
pointer it gets is 8 bytes off and the "delay" it counts down is `files[1]`, and
that is what the model does. Initially `kernel_loop_task` is current and queued,
as `sched_setup` leaves it.

**Simplock** (instance: `MCSimplock`). Every load, test and store of `owners`,
for tasks that can be preempted inside the calls and tasks that cannot.

**Queue, List.** `Queue` is what the kernel expects of its lists: sequences, and
nodes that belong to at most one. `List` is `lib/list.h` pointer by pointer; it
is shown to implement `Queue` by following `next` from the head (`Walk`). An
instance of it is part of `MCSimplock`.

**Heap** (instance: `MCHeap`). The list of blocks, the page counters and the
search of `kmemalign` step by step. A page fault takes a page between calls. Two
oddities are in the model: `init_heap` counts the page of a wrong address, so the
end marker's page looks free and a page above all memory looks free too (`Stray`);
and the search does not look at the page in which a block starts. Once a block
covers the end marker the code's behaviour is undefined and calls stop (`Intact`).
Nor are calls of `kmemalign` followed while a task has the page above all memory,
which it gets only when all other pages are in use: the search would then run
around the address space to the first pages again.

**Harddisk.** Readers with and without interrupts, the driver's lock with its test
and its increment as two steps, the drive (`idle`, `BSY`, `DRQ`), the latched
interrupt, and buffers that may be smaller than the sectors asked for. Two history
variables record what spoils later reads: `raced`, two callers passed the lock's test
together, and `astray`, a polled call gave up on the drive, read before it had data,
or left it with sectors.

**Keyboard.** The 8259A mask as `enable_irq_n` and `disable_irq_n` write it, the
ring, and the reader in six steps.

**Decoder.** Someone presses and releases keys; the bytes go through the ring, here
a bounded queue, to `keyboard_read`, with the two- to six-byte sequences and the
modifier and lock state. `want` is what the presses stand for. `set_leds` polls the
port for its acknowledge bytes while scan codes can come in.

**Tty.** The input buffer of the terminal on the screen. `[ttyd]` and a reader that
has yielded both run with interrupts on, so `count++` and `count--` are two steps
each; a reader that finds characters at once is one step. Characters are numbered.

**Monitor.** Cursor, screen window and foreground flag of each terminal, and the two
CRT registers with their halves. A task's output is one step; each port access of
`[ttyd]` is one. The cursor is a number of 16 bits (`Word`); `under` records that an
erasure at the first cell has taken it below 0, `between` that a task printed in the
middle of the last work of `[ttyd]`.

**Files.** Tasks hold files in descriptors, as working directory and as
executable (slots). Each system call runs with interrupts off and is one action.
`create_utask` stores nxsh's output in two descriptors with one reference. Calls of
`sys_close` with a number that is no descriptor, which the code does not test, are left
out.

**Vfs.** Dentries with their counts, the lock of each dentry, and lookups in small
steps. The two boot loaders look up their programs with interrupts on: test and
increment of a lock, load and store of a count, the scan of the cache, the search and
the insertion are steps of their own, and the other loader may run between them. A
lookup in a system call goes through the same steps while nobody else runs (`Runs`).
The search sees what `search_in_dir` sees: the first block of a directory, up to a
deleted entry. The boot sequence mounts the device file system over `/dev`, makes the
terminals' nodes and opens one. `raced` records that a lock got two owners or a count
lost an update; the model stops there. `Resolve` says what a path stands for,
independent of the cache. `getcwd` and `realpath` are operators.

**Mm.** Page directories, tables and frames with their 8-bit counters, and the GDT.
Creating, cloning, faulting, ending and destroying a task are actions; each
allocation may fail. `wrapped` records that a counter has wrapped, `broken` that an
error path has passed a wrong address to `kfree`; nothing is followed after that.
A clone that finds no GDT entry is one of these: `free_page_table` has then freed the
pages of the parent.

**Ext2.** Three tasks open and read a program file and one lists the root, each disk
read a step that may fail. `group` is the static variable of `read_inode`.

**Loader.** From power-on to the mounted root: partition, directory, inode, blocks,
ELF segments, paging, `init_page`, `read_s_block`. The three nested loops over direct,
indirect and doubly indirect blocks are actions with the loop's variables as state
(`loop`); the innermost one copies the wrong block, as the code does (`loader.c:353`).
`Machines` is the set of disks and memories.

**Nxsh.** The line editor, the escape sequences, the history ring and the tokens.
`echo` is what the screen shows, `ran` what the history should hold.

**Strings, Printf.** The functions of the C library as operators; a behaviour is a
sequence of calls with arguments from small sets.

**MCSimplock, MCConsole, MCVfs, MCMem, MCDisk, MCLib** put instances of several modules into one
run: `active` chooses which one moves, the others keep their initial state. They
share no variables, so the run checks each of them as a run of its own would.

**SchedProofs, SimplockProofs, KeyboardProofs, MonitorProofs, MmProofs, HeapProofs,
VfsProofs, HarddiskProofs** hold the proofs.

How the parts meet: `Sched` relies on `List` for its queues; `Harddisk` uses
`task_suspend`/`task_resume` of `Sched` and the lock of `Simplock`; `Heap` relies
on the lock for one call at a time; `Keyboard` relies on `Sched` for `[ttyd]`'s
turns (`NoStarvation`). The bytes of `Keyboard` are those of `Decoder`, whose keys
`[ttyd]` puts into the buffer of `Tty` or carries out in `Monitor`. `Vfs` holds the
lock of a directory over the disk reads of `Ext2`, which are those of `Harddisk`.
`Files` counts the files whose dentries `Vfs` counts. `Mm` and `Heap` share the
counters of `mm/page.c`, and `Loader` decides which of them are 0 at the start.

## 4. Runs

| Run | Instance | Shows |
|---|---|---|
| `sched` | idle, ttyd, two user tasks; 4541 states | queues and states agree, no task freed while in use, no starvation, sleepers and readers resumed, terminated tasks freed |
| `sched_delay` (violation) | same | a sleeper is resumed before its delay is over |
| `lock` | `Simplock`: one preemptible task, two others. `List`: two heads, four nodes; 3,032 states | mutual exclusion, exact count, the one cause of a hang; `List` implements `Queue` |
| `lock_boot` (violation) | two preemptible tasks | two boot loaders hold the lock at once |
| `console` | `Keyboard`: ring of 3, 5 bytes. `Decoder`: 6 keys, 3 presses. `Tty`: buffer of 2, 2 terminals; 131,532 states | counted bytes did arrive and are drained, in order until one is overwritten; keys and modifiers are those pressed unless a byte was dropped; LEDs are answered unless a key moves meanwhile; a terminal's characters arrive once and in order unless `count` is raced or the buffer full, and a waiting read returns |
| `kbd_mask` (violation) | ring of 3 | the interrupt stays on in the reader's critical section |
| `vfs` | `Files`: init and nxsh, five files, three descriptors. `Vfs`: two tasks that open their programs at the same time, then two lookups in system calls, seven dentries; 465,882 states | only the doubly stored output file can dangle, and only its count falls short; until a lock or a count is raced at boot, a lookup ends where its path leads, or without a result for one of the reasons listed there, a name has one dentry, nothing held is released, and `getcwd` and `realpath` lead back |
| `mem` | `Heap`: 4 pages of 4 units, header 1. `Mm`: three tasks, four frames, two entries per level, counters modulo 3, two free GDT entries; 162,094 states | blocks apart and ordered, counters exact, sharing with tasks only where the check is missing; a frame has one use and none is lost; a page has one writer; mappings and selectors stay; all about frames until a counter wraps or a call fails half way |
| `heap_align` (violation) | 5 pages | a request with alignment returns an unaligned block |
| `disk` | `Harddisk`: two tasks, up to two sectors. `Ext2`: three readers and a listing. `Loader`: 2560 machines; 180,818 states | a reader gets its own sectors, once and in order, until the lock was entered twice or a polled call and the drive got out of step; until then sleeping readers complete unless the CPU spins for their lock; a file is read completely up to its doubly indirect blocks unless the static group was overwritten; failures have a reason; listings have all full batches; the kernel started is the file, if it has no doubly indirect blocks, and always in its region; free pages are unused |
| `hd_sync` (violation) | two sectors, polled | the second sector is read before the drive has it |
| `lib` | `Printf`: 5-bit ints. `Strings`: up to 4 characters. `Nxsh`: lines of 2, history of 3. `Monitor`: 2 by 2 screen in 4 rows, 7 steps; 242,526 states | printed numbers read back, fields have their width; string functions agree with their definitions; screen, line and history agree, no line has more tokens than fit; the cursor stays in its buffer, but for an erasure at its first cell; the registers show the terminal that has the keys, unless a task printed in the middle of the last command |

Bounds, and why they are enough. *Sched*: four tasks give every queue two
members, so order matters; the clone takes the place of a task that exited. With a
fifth task (314,661 states, about 14 minutes) the same properties were
checked once and hold; the safety ones are proved for all sets of tasks. *Heap*:
four pages are the least that allow a block over several pages, a page of a task
between blocks and the end marker's page. *Harddisk*: two sectors are the least
with a sector that is not the first; two tasks compete for the lock, polled or not,
with buffers for one sector or for two. *Keyboard*: `MaxKeys` lets the ring turn
more than once. *Decoder*: a modifier, a lock, a key with a prefix and both long
sequences, of which three presses overlap, fill and overflow the ring. *Tty*: each
key puts up to three characters, so two fill the buffer. *Monitor*: seven steps fill
the buffer, shift it, and switch or scroll in between; `BYTE` is 5, so that both
halves of a register are used and the 16 cells of two buffers fit into a word of 25. *Files*: five files, since four are taken at boot;
`RC_MAX` bounds the counts that clones drive up. *Vfs*: the root, the mount,
the covered directory and the first terminal take four dentries, `/bin` and the two
programs the rest, so that `MAX_DENT` is reached; two lookups after that let one
system call find what another one has cached. With three (about 3 minutes) the same
properties were checked once and hold. *Mm*: two entries per level and three tasks allow a fork of a fork and a
fault in a shared table; four frames run out. *Ext2*: two direct blocks and two
block numbers in a block reach every level with files of six blocks. *Loader*: the
same, with the sizes at and around every change of level. *Simplock*: `MOD` is small so that a wrap
would be seen. *Nxsh*: a history of three wraps after three commands.

`CHECK_DEADLOCK FALSE` is set where the system may stop: an exhausted heap, file
table or bound on inputs, a hang in the lock's busy wait (which `HangCause`
describes), a loader that has panicked or is done, and a keyboard nobody uses any
more.

Fairness. *Sched*: strong for the clock and the disk interrupt (latched by the
8259A), weak for code that runs with interrupts off, which nothing can stop.
*Harddisk*: the drive answers (weak), the latched interrupt is taken if interrupts
are on again and again (strong), code with interrupts off runs on (weak).
*Keyboard*, *Tty*: `[ttyd]` and a reader that has yielded get turns (weak), which is
`NoStarvation` of `Sched`. User code is never assumed to do anything.

Each property has a mutant: a definition changed as a plausible bug would change
it, for which TLC finds the property violated. Mutants stand before the definition
they vary and are used by no specification.

## 5. What the violation runs found

* `sched_delay`: `kernel/clock.c:38` uses the wrong list member, so delays are not
  kept.
* `lock_boot`: the loaders of init and nxsh run with interrupts on and can both pass
  the test of the lock.
* `heap_align`: after the search restarts behind a used page the alignment is lost
  (`mm/kmalloc.c:48`). Page directories are allocated this way.
* `hd_sync`: `do_read_sync` waits once for several sectors (`harddisk.c:85`).
* `kbd_mask`: `disable_irq_n` clears the other bits of the mask and sets none
  (`i8259a.c:38`).

## 6. Proofs

All proofs are checked by TLAPS for every value of the constants that satisfies the
named assumptions.

* `SchedProofs`, from `SchedAssumption` (the idle task, ttyd and the boot tasks are
  different tasks; a tick is positive): `TypeCorrect`, `QueuesCorrect`
  (`[]QueueInv`) and `ReapSafe` (`ReapedOffCpu`). `QueueInv` alone is not inductive.
  The invariant `IInv` adds what holds at boot (`BootInv`: while the idle task both
  runs and is queued, no other task has run and the other queues are empty) and that
  the idle task executes nothing but `kernel_loop` (`IdleInv`), so it never exits,
  sleeps or yields. There is one
  lemma for each way to leave the CPU (`YieldStep`, `LeaveStep`, `ResumeStep`,
  `SchedStep`) and one for each action.
* `SimplockProofs`, from `LockAssumption` and that at most one task is preemptible:
  `LockExcludes`, `LockCounts`, `HangNeedsPreemption`. The invariant says who can be
  inside the calls when: a task that is not preemptible and is inside has the CPU.
  The run `lock_boot` shows that the assumption is needed.
  `ListsAreQueues` (`Refines`) is the refinement of `Queue` by `List`, for any heads and
  nodes that are different structs (`Structs`). The invariant `LInv` says that for every
  head there is a sequence of nodes around which `next` and `prev` go (`Linked`), that no
  node is in two of them and that a node in none points to itself or nowhere. The walk from a head is then that sequence
  (`OneWalk`: there is no other; `Short`: it has no node twice), and
  each macro changes it as `Queue` says (`Enqueued`, `Deleted`).
* `KeyboardProofs`, from `KeyboardAssumption`: `CountsArrived` (`[]NoPhantom`). The
  invariant adds that the register loaded for `count--` is positive and at most
  `count`, since the handler only adds. And `InOrder` (`[]Fifo`): `PlaceInv` says that
  `head` and `tail` are the numbers of stored and passed bytes modulo the size, and
  that every byte that waits is in its place; the handler and the reader then never
  use the same slot unless a byte is overwritten. `RingStep` and `RingApart`
  are the facts on division that this needs.
* `MonitorProofs`, for buffers of two rows or more whose cells a word can count
  (`Sizes`): `CursorStays` (`[]CursorInside`). A newline ends at a multiple of the width,
  so it meets the end of the buffer exactly, and of an erasure `under` tells whether it
  stays above 0; the invariant adds the type of the terminals' records only.
  `ScreenShown` (`[]ShowsForeground`), if the screen is no larger than the
  buffer (`ScreenSizes`): the invariant `SInv` follows `[ttyd]` through its accesses
  (`Phase`) and says, for every place in them, what the ports have been told, which
  register is already right, unless a task has printed since `[ttyd]` began
  (`Shows`), and that every screen begins with a row.
* `MmProofs`, for any number of tasks, frames and entries, counters modulo 2 or more
  and a GDT that holds the fixed segments (`Sizes`): `FramesKept`
  (`[]FramesOwned`), `OneWriter`, `OwnSelectors`, `PagesStay`. The properties need each other: that a
  frame given out is new follows from the counters (`users[f] # 0` exactly for tables,
  pages and leaked frames), which needs that uses are apart, which needs that tasks
  that do not exist map nothing. All about frames holds until a counter has
  wrapped or a call has failed half way.
* `HeapProofs`, for every page, header and memory size, where a header is smaller than a
  page and the least request, m bytes, is so large that a page has room for fewer blocks
  than a byte counts (`HeapSizes(m)`; with the kernel's 4096, 12 and 256 this is m >= 5,
  and it asks for no less): `HeapApart` (`[]MemoryApart`) and `HeapCounted`
  (`[]PagesCounted`). They need each other: the search takes a page with counter 0 for a
  page without blocks, and a counter is only right if it has not wrapped, which follows
  from blocks that are apart (`Places`). The invariant `HInv(m)` says in addition, while
  a search is going on, that the space from `saddr` to `eaddr` is behind `block`, ends at
  `block->next` or at a page boundary, and has no users behind its first page
  (`Searching`, `Found`, `Free`), and which block is linked but not counted (`Pending`).
* `VfsProofs`, for any tasks, files and descriptors: `FilesKept` (`[]FilesCounted`). The
  invariant `IInv` adds that the files alive are those with a positive count, that the
  count of a freed file is no smaller than its holders either, that a task that is not
  alive holds nothing and one that is has a working directory.
* `HarddiskProofs`, from `HarddiskAssumption`: `HangNeedsReader` (`[]HangCause`), from
  who owns the lock and that a call with interrupts off keeps the CPU; and
  `ReadersGetTheirOwn` (`[]ReadsOwn`), from `DataInv`, in which, until the lock was
  entered twice or a polled call and the drive got out of step, the drive works for the
  owner of the lock and has what is missing in the owner's buffer.

Only model-checked: all liveness properties (fairness and `ENABLED` are outside the
prover's reach); what the functions of the C library compute and where a path leads
(recursion over sequences, which needs induction over data); and the properties of
`Vfs`, `Decoder`, `Tty`, `Ext2`, `Loader` and `Nxsh`.

## 7. Not modelled, and why

* A boot loader that fails and ends its own task with interrupts on: the task can be
  lost or freed while it runs, after which nothing is defined.
* Heap calls of boot loaders with interrupts on: a lost update of a page counter
  breaks `MemoryApart`; `Heap` covers uninterrupted calls.
* What follows the error paths of `_create_task` and `clone_utask`, which hand the top
  of a stack to `kfree` (`Mm` stops there).
* What follows a race of the two boot loaders (`Vfs` stops there), and lists that two
  owners of a lock change at once.
* Which of several bootable partitions is the right one: the loader takes the first and
  the kernel the last (`part` and `root` in `Loader`), and no document says which.
* `vfs_umount`, `dev_del`, `devfs_teardown` and the floppy driver: nobody calls them.
* `realpath` of a path above the root, which reads before its buffer.
* Page faults of the kernel itself; the copy of a program's segments into its pages.
* Contents of files and messages, colours, TSS and stack layout, the system call
  stubs, port programming at boot, and the assembly that enters protected mode.
* Logging and backtraces: they only format (`Printf` has the formatter).
* The built-in commands of the shell and `init`: they only make system calls.

The definitions stand for a good two fifths of the source lines; most of the rest is
declarations, tables, message texts and assembly.
