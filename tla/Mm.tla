--------------------------------- MODULE Mm ---------------------------------
(***************************************************************************)
(* The address spaces of the user tasks and their places in the GDT:       *)
(* mm/mm.c, mm/page_fault.c, kernel/descriptor.c, and the life of a task   *)
(* in kernel/task.c.                                                       *)
(*                                                                         *)
(* A directory maps an entry to a page table, whose frame is shared by a   *)
(* task and the tasks it has forked; the table maps a page to its frame.   *)
(* Frame 0 stands for "not present".  kmalloc may fail at any time.  What  *)
(* follows a failed fork or creation (task.c frees the top of a stack,     *)
(* which is no block of the heap) or a users count that wraps is not       *)
(* followed.                                                               *)
(***************************************************************************)
EXTENDS Naturals, FiniteSets, FiniteSetsExt

CONSTANTS Task,
          Frames,     \* the frames are 1 .. Frames
          PDE, PTE,   \* the entries of a directory, below the kernel's, and of a table
          UMOD,       \* 2^8: _page_users is uint8_t
          GDT_SIZE, FIXED   \* FIXED entries of the GDT are not for tasks

VARIABLES users,      \* _page_users
          table,      \* what the frames hold that are page tables
          dir,        \* the directory of a task
          status,     \* "none", "live", or "term": on the term_queue
          tss_sel,
          bitmap, gdt,
          leaked,     \* frames of the directories of destroyed tasks
          wrapped, broken

vars == <<users, table, dir, status, tss_sel, bitmap, gdt, leaked, wrapped, broken>>

Frame == 1 .. Frames
Index == 0 .. GDT_SIZE - 1
NoTable == [p \in PTE |-> 0]
NoDir == [d \in PDE |-> [tbl |-> 0, rw |-> FALSE]]
Tables(t) == {dir[t][d].tbl : d \in PDE} \ {0}
Pages(f) == {table[f][p] : p \in PTE} \ {0}
Mapped(t, d, p) == IF dir[t][d].tbl = 0 THEN 0 ELSE table[dir[t][d].tbl][p]
Exists(t) == status[t] # "none"

\* descriptor_setup
Init == /\ users = [f \in Frame |-> 0]
        /\ table = [f \in Frame |-> NoTable]
        /\ dir = [t \in Task |-> NoDir]
        /\ status = [t \in Task |-> "none"]
        /\ tss_sel = [t \in Task |-> 0]
        /\ bitmap = 0 .. FIXED - 1
        /\ gdt = [k \in Index |-> IF k < FIXED THEN "segment" ELSE "empty"]
        /\ leaked = {} /\ wrapped = FALSE /\ broken = FALSE

-----------------------------------------------------------------------------
(* descriptor.c *)

\* Mutant: the scan stops one entry too early.
index_alloc_before == IF bitmap = Index THEN GDT_SIZE ELSE Min(Index \ bitmap) - 1

\* The first entry that is not in use; GDT_SIZE if there is none.
index_alloc == IF bitmap = Index THEN GDT_SIZE ELSE Min(Index \ bitmap)

install_tss(t) ==
    /\ bitmap' = bitmap \cup {index_alloc}
    /\ gdt' = [gdt EXCEPT ![index_alloc] = t]
    /\ tss_sel' = [tss_sel EXCEPT ![t] = index_alloc]

uninstall_tss(t) ==
    /\ bitmap' = bitmap \ {tss_sel[t]}
    /\ gdt' = [gdt EXCEPT ![tss_sel[t]] = "empty"]
    /\ UNCHANGED tss_sel

-----------------------------------------------------------------------------
(* page.c and page_fault.c *)

\* Mutant: the frame is not marked.
alloc_page_unmarked(u, f) == u

\* alloc_page, when it takes frame f
alloc_page(u, f) == [u EXCEPT ![f] = (@ + 1) % UMOD]

free_page(u, f) == [u EXCEPT ![f] = (@ + UMOD - 1) % UMOD]

\* The frame that alloc_page takes; 0 if there is none.
FreeFrame(u) == IF \A f \in Frame : u[f] # 0 THEN 0 ELSE Min({f \in Frame : u[f] = 0})

gdtvars == <<tss_sel, bitmap, gdt>>

\* task_term(current): a page fault that is denied (the first page, the
\* kernel's part, no permission), or sys_exit.
task_term(t) ==
    /\ status' = [status EXCEPT ![t] = "term"]
    /\ UNCHANGED <<table, dir, gdtvars, leaked, wrapped, broken>>

\* A frame for the page, and one for the table if there is none; the frame
\* of the page is given back if there is none for the table.
map_page(t, d, p) ==
    LET page == FreeFrame(users)
        one == alloc_page(users, page)
        tpage == FreeFrame(one)
        tbl == IF dir[t][d].tbl = 0 THEN tpage ELSE dir[t][d].tbl
    IN  CASE page = 0 -> UNCHANGED users /\ task_term(t)
          [] page # 0 /\ tbl = 0 -> users' = free_page(one, page) /\ task_term(t)
          [] OTHER ->
             /\ users' = IF dir[t][d].tbl = 0 THEN alloc_page(one, tpage) ELSE one
             /\ table' = [table EXCEPT ![tbl] =
                             [IF dir[t][d].tbl = 0 THEN NoTable ELSE @ EXCEPT ![p] = page]]
             /\ dir' = IF dir[t][d].tbl = 0
                       THEN [dir EXCEPT ![t][d] = [tbl |-> tpage, rw |-> TRUE]] ELSE dir
             /\ UNCHANGED <<status, gdtvars, leaked, wrapped, broken>>

\* An access to a page: it is not present and gets mapped, even through a
\* table that is shared; or it is a write that the directory does not allow.
page_fault_handler(t, d, p, write) ==
    /\ status[t] = "live"
    /\ \/ Mapped(t, d, p) = 0 /\ map_page(t, d, p)
       \/ /\ Mapped(t, d, p) # 0 /\ write /\ ~ dir[t][d].rw
          /\ task_term(t) /\ UNCHANGED users

-----------------------------------------------------------------------------
(* task.c *)

sys_exit(t) == status[t] = "live" /\ task_term(t) /\ UNCHANGED users

\* create_utask, alloc_page_table.  It fails without a trace, or with a stack
\* that cannot be freed or a directory that was not tested.
create_utask(t) ==
    /\ status[t] = "none"
    /\ \/ /\ index_alloc # GDT_SIZE
          /\ install_tss(t)
          /\ status' = [status EXCEPT ![t] = "live"]
          /\ dir' = [dir EXCEPT ![t] = NoDir]
          /\ UNCHANGED broken
       \/ broken' = TRUE /\ UNCHANGED <<status, dir, gdtvars>>
    /\ UNCHANGED <<users, table, leaked, wrapped>>

\* free_page_table: the entries whose pages still have a user
Present(tbl, u) == [p \in PTE |-> IF tbl[p] # 0 /\ u[tbl[p]] = 0 THEN 0 ELSE tbl[p]]

\* Mutant: the clone may write.
Cloned_rw(t) == dir[t]

\* The clone's directory
Cloned(t) == [d \in PDE |-> [dir[t][d] EXCEPT !.rw = FALSE]]

\* clone_utask, clone_page_table: the tables are shared and their users
\* counted, the pages are not.  It fails without a trace, or with a stack that
\* cannot be freed: then broken.  Without a descriptor for the TSS
\* free_page_table has undone the counts of the tables before that, and has
\* freed the pages, which the parent loses.
clone_utask(t, c) ==
    /\ status[t] = "live" /\ status[c] = "none"
    /\ \/ /\ index_alloc # GDT_SIZE
          /\ users' = [f \in Frame |-> IF f \in Tables(t) THEN (users[f] + 1) % UMOD
                                       ELSE users[f]]
          /\ wrapped' = (\E f \in Tables(t) : users'[f] = 0)
          /\ dir' = [dir EXCEPT ![c] = Cloned(t)]
          /\ install_tss(c)
          /\ status' = [status EXCEPT ![c] = "live"]
          /\ UNCHANGED broken
          /\ UNCHANGED table
       \/ /\ index_alloc = GDT_SIZE
          /\ users' = [f \in Frame |-> IF f \in UNION {Pages(g) : g \in Tables(t)}
                                       THEN (users[f] + UMOD - 1) % UMOD ELSE users[f]]
          /\ table' = [f \in Frame |-> IF f \in Tables(t) THEN Present(table[f], users')
                                                           ELSE table[f]]
          /\ broken' = TRUE
          /\ UNCHANGED <<wrapped, dir, status, gdtvars>>
       \/ broken' = TRUE /\ UNCHANGED <<users, wrapped, table, dir, status, gdtvars>>
    /\ UNCHANGED leaked

\* Mutant: the pages and tables are freed (the call that task.c:271 has
\* commented out, for a task none of whose tables has another user counted).
destroy_task_free(t) ==
    /\ status[t] = "term"
    /\ uninstall_tss(t)
    /\ status' = [status EXCEPT ![t] = "none"]
    /\ users' = [f \in Frame |-> IF f \in Tables(t) \cup UNION {Pages(g) : g \in Tables(t)}
                                 THEN (users[f] + UMOD - 1) % UMOD ELSE users[f]]
    /\ table' = [f \in Frame |-> IF f \in Tables(t)
                                 THEN Present(table[f], users') ELSE table[f]]
    /\ dir' = [dir EXCEPT ![t] = NoDir]
    /\ UNCHANGED <<leaked, wrapped, broken>>

\* destroy_task, by task_sched: the directory, its tables and pages stay.
destroy_task(t) ==
    /\ status[t] = "term"
    /\ uninstall_tss(t)
    /\ status' = [status EXCEPT ![t] = "none"]
    /\ leaked' = leaked \cup Tables(t) \cup UNION {Pages(f) : f \in Tables(t)}
    /\ dir' = [dir EXCEPT ![t] = NoDir]
    /\ UNCHANGED <<users, table, wrapped, broken>>

Next == /\ ~ wrapped /\ ~ broken
        /\ \E t \in Task :
             \/ create_utask(t) \/ sys_exit(t) \/ destroy_task(t)
             \/ \E c \in Task : clone_utask(t, c)
             \/ \E d \in PDE, p \in PTE, w \in BOOLEAN : page_fault_handler(t, d, p, w)

Spec == Init /\ [][Next]_vars

-----------------------------------------------------------------------------
(* Properties *)

InUse == UNION {Tables(t) : t \in Task}

\* A frame has one purpose: it is the table of one place in the directories
\* that share it, or one page of one table, and alloc_page does not take it
\* for free; until a table has been shared UMOD times and its counter is back
\* at 0 (page.c:38), or a call has failed half way (broken).  Forks, faults through shared tables, faults without
\* memory and ends of tasks come in any order.
FrameHasOneUse ==
    ~ wrapped /\ ~ broken =>
        /\ \A t, s \in Task : \A d, e \in PDE :
             dir[t][d].tbl # 0 /\ dir[t][d].tbl = dir[s][e].tbl => d = e
        /\ \A f, g \in InUse : \A p, q \in PTE :
             table[f][p] # 0 /\ table[f][p] = table[g][q] => f = g /\ p = q
        /\ \A f \in InUse : users[f] # 0 /\ Pages(f) \cap InUse = {}
        /\ \A f \in InUse : \A g \in Pages(f) : users[g] # 0

\* A frame that is not free belongs to a task or was left behind by one that
\* has ended: no path that gives up half way (page_fault.c:46) loses a frame.
FramesAccounted ==
    ~ wrapped /\ ~ broken => {f \in Frame : users[f] # 0}
                               = InUse \cup leaked \cup UNION {Pages(f) : f \in InUse}

\* Every frame that is not free has one owner.
FramesOwned == FrameHasOneUse /\ FramesAccounted

\* No two tasks may write through the same table: of all that share it, only
\* the one that has faulted it in (mm.c:48).
SingleWriter ==
    ~ wrapped /\ ~ broken => \A t, s \in Task : \A d \in PDE :
        dir[t][d].rw /\ dir[s][d].rw /\ dir[t][d].tbl = dir[s][d].tbl => t = s

\* As long as a task lives, a page that it has stays where it is, whatever
\* its parent, its children and the scheduler's reaping do, except for a fork
\* without a descriptor.
MappingsStay ==
    [][\A t \in Task : status[t] = "live" /\ status'[t] = "live"
                       /\ ~ wrapped' /\ ~ broken' =>
         \A d \in PDE, p \in PTE : Mapped(t, d, p) # 0 => Mapped(t, d, p)' = Mapped(t, d, p)]_vars

\* The selector of a task that exists is its own and describes its TSS, also
\* after entries were freed and taken again, and the kernel's segments stay.
SelectorsOwn ==
    /\ \A t \in Task : Exists(t) => tss_sel[t] \in bitmap /\ gdt[tss_sel[t]] = t
    /\ \A k \in Index : k < FIXED => k \in bitmap /\ gdt[k] = "segment"
=============================================================================
