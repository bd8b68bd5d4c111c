-------------------------------- MODULE Heap --------------------------------
(***************************************************************************)
(* The kernel heap (mm/kmalloc.c) on top of the page counters (mm/page.c). *)
(* Blocks of any size form a list in address order; a page is shared by    *)
(* all blocks that touch it, and its counter _page_users tells how many    *)
(* do.  Page faults take whole pages of the same memory with alloc_page,   *)
(* without the heap's lock.                                                *)
(*                                                                         *)
(* Addresses are offsets from the page init_heap takes.  Memory before it  *)
(* and after Top is not available: its counters are 0xff for ever, but for *)
(* one, see Stray.                                                         *)
(* One call is in progress at a time, since kmemalign and kfree hold the   *)
(* lock (module Simplock), and it is not interrupted, as in system calls   *)
(* and in the kernel's set-up: page faults come between calls.             *)
(***************************************************************************)
EXTENDS Naturals, FiniteSets

CONSTANTS PAGE_SIZE,
          HDR,       \* sizeof(struct heap_block)
          NR_PAGES,  \* the number of available pages
          UMOD,      \* _page_users is uint8_t: 256, smaller in the runs
          Requests   \* the arguments <<alignment, size>> of kmemalign

VARIABLES blk,               \* the addresses of the struct heap_block
          size, prev, next,  \* their fields
          users,             \* _page_users
          upages,            \* the pages that page tables and tasks hold
          pc, align, req, block, saddr, eaddr  \* the call in progress

list == <<blk, size, prev, next>>
call == <<align, req, block, saddr, eaddr>>
vars == <<list, users, upages, pc, call>>

Top == NR_PAGES * PAGE_SIZE
heap == 0
end == Top - HDR

\* init_heap means to count the page of "end", but passes its virtual address
\* to obtain_page where the physical one is expected.  The counter of "end"'s
\* page stays 0, and the counter of a page far above all memory wraps from
\* 0xff to 0.
Stray == NR_PAGES + 1
PageNo == (0 .. NR_PAGES - 1) \cup {Stray}

Page(addr) == addr \div PAGE_SIZE
IN_SAME_PAGE(a, b) == Page(a) = Page(b)
ALIGN_CEIL(n, a) == ((n + a - 1) \div a) * a
BLOCK_END(b) == b + HDR + size[b]

\* for (i = b & PAGE_MASK; i < ALIGN_CEIL(BLOCK_END(b), PAGE_SIZE); ...)
PagesOf(b) == {p \in 0 .. NR_PAGES - 1 :
                 /\ Page(b) <= p
                 /\ p * PAGE_SIZE < ALIGN_CEIL(BLOCK_END(b), PAGE_SIZE)}

\* page_users; pages past Top are not available.
page_users(p) == IF p \in 0 .. NR_PAGES - 1 THEN users[p] ELSE UMOD - 1

-----------------------------------------------------------------------------
\* init_page and init_heap.
Init ==
    /\ blk = {heap, end}
    /\ size = [b \in blk |-> 0]
    /\ prev = [b \in blk |-> IF b = heap THEN end ELSE heap]
    /\ next = [b \in blk |-> IF b = heap THEN end ELSE heap]
    /\ users = [p \in PageNo |-> IF p = 0 THEN 1 ELSE 0]
    /\ upages = {}
    /\ pc = "idle"
    /\ align = 0 /\ req = 1
    /\ block = heap /\ saddr = heap /\ eaddr = heap

Goto(label) == pc' = label

Return ==
    /\ pc' = "idle"
    /\ align' = 0 /\ req' = 1
    /\ block' = heap /\ saddr' = heap /\ eaddr' = heap

\* The fields of "end" are as init_heap and the list operations left them: no
\* block reaches into them.  What calls do once a block's owner has written
\* over "end" is not defined by the code.
Intact == \A b \in blk : b # end => BLOCK_END(b) <= end

\* No task has Stray, where there is no memory: calls while one has it, which
\* takes all of the memory to be in use first, are not followed (see Ahead).
kmemalign(a, n) ==
    /\ pc = "idle"
    /\ Intact /\ Stray \notin upages
    /\ align' = a /\ req' = n
    /\ block' = heap
    /\ Goto("search")
    /\ UNCHANGED <<list, users, upages, saddr, eaddr>>

\* Mutant: the free space ends with the page, wherever block->next is.
search_begin_page ==
    /\ pc = "search"
    /\ block # end
    /\ LET s == ALIGN_CEIL(BLOCK_END(block) + HDR, IF align = 0 THEN 1 ELSE align) - HDR
       IN  /\ saddr' = s
           /\ eaddr' = (Page(s) + 1) * PAGE_SIZE
    /\ Goto("loop")
    /\ UNCHANGED <<list, users, upages, align, req, block>>

\* search_interspace up to its loop; the end of the list is the end of the
\* call, which returns NULL.
search_begin ==
    /\ pc = "search"
    /\ block # end
    /\ LET s == ALIGN_CEIL(BLOCK_END(block) + HDR, IF align = 0 THEN 1 ELSE align) - HDR
           t == (Page(s) + 1) * PAGE_SIZE
       IN  /\ saddr' = s
           /\ eaddr' = IF t <= next[block] THEN t ELSE next[block]
    /\ Goto("loop")
    /\ UNCHANGED <<list, users, upages, align, req, block>>

search_fails ==
    /\ pc = "search"
    /\ block = end
    /\ Return
    /\ UNCHANGED <<list, users, upages>>

\* The conditions of the loop, in their order.
TooFar == eaddr < saddr
Fits == eaddr - saddr >= HDR + req
AtNext == IN_SAME_PAGE(saddr, next[block])

PageFree == page_users(Page(eaddr)) = 0

\* RESET: the pages from eaddr on that are free or hold block->next.  Without
\* one saddr wraps around at 4 GB and stops at Stray, below
\* CONFIG_KERNEL_VM_OFFSET: its counter is 0, no task has it (kmemalign).
Ahead == {p \in 0 .. NR_PAGES - 1 :
            p >= Page(eaddr) /\ (users[p] = 0 \/ p = Page(next[block]))}

\* return NULL: on to the next block.
search_next ==
    /\ pc = "loop"
    /\ TooFar \/ (~ Fits /\ AtNext) \/ (~ Fits /\ ~ PageFree /\ Ahead = {})
    /\ block' = next[block]
    /\ Goto("search")
    /\ UNCHANGED <<list, users, upages, align, req, saddr, eaddr>>

search_found ==
    /\ pc = "loop"
    /\ ~ TooFar /\ Fits
    /\ Goto("link")
    /\ UNCHANGED <<list, users, upages, call>>

search_extend ==
    /\ pc = "loop"
    /\ ~ TooFar /\ ~ Fits /\ ~ AtNext /\ PageFree
    /\ eaddr' = eaddr + PAGE_SIZE
    /\ UNCHANGED <<list, users, upages, pc, align, req, block, saddr>>

search_reset ==
    /\ pc = "loop"
    /\ ~ TooFar /\ ~ Fits /\ ~ AtNext /\ ~ PageFree
    /\ \E p \in Ahead : (\A q \in Ahead : p <= q) /\ saddr' = p * PAGE_SIZE
    /\ eaddr' = IF IN_SAME_PAGE(saddr', next[block]) THEN next[block]
                                                     ELSE saddr' + PAGE_SIZE
    /\ UNCHANGED <<list, users, upages, pc, align, req, block>>

link_block ==
    /\ pc = "link"
    /\ blk' = blk \cup {saddr}
    /\ size' = [b \in blk' |-> IF b = saddr THEN req ELSE size[b]]
    /\ next' = [b \in blk' |-> IF b = saddr THEN next[block]
                               ELSE IF b = block THEN saddr ELSE next[b]]
    /\ prev' = [b \in blk' |-> IF b = saddr THEN block
                               ELSE IF b = next[block] THEN saddr ELSE prev[b]]
    /\ Goto("obtain")
    /\ UNCHANGED <<users, upages, call>>

obtain_pages ==
    /\ pc = "obtain"
    /\ users' = [p \in PageNo |->
                   IF p \in PagesOf(saddr) THEN (users[p] + 1) % UMOD ELSE users[p]]
    /\ Return
    /\ UNCHANGED <<list, upages>>

\* Mutant: only the page of the header is given back.
kfree_first_page(b) ==
    /\ pc = "idle"
    /\ Intact
    /\ b \in blk \ {heap, end}
    /\ block' = b
    /\ users' = [users EXCEPT ![Page(b)] = (@ + UMOD - 1) % UMOD]
    /\ Goto("unlink")
    /\ UNCHANGED <<list, upages, align, req, saddr, eaddr>>

\* kfree gives the pages back and then takes the block off the list.
kfree(b) ==
    /\ pc = "idle"
    /\ Intact
    /\ b \in blk \ {heap, end}
    /\ block' = b
    /\ users' = [p \in PageNo |->
                   IF p \in PagesOf(b) THEN (users[p] + UMOD - 1) % UMOD ELSE users[p]]
    /\ Goto("unlink")
    /\ UNCHANGED <<list, upages, align, req, saddr, eaddr>>

unlink_block ==
    /\ pc = "unlink"
    /\ blk' = blk \ {block}
    /\ size' = [b \in blk' |-> size[b]]
    /\ next' = [b \in blk' |-> IF b = prev[block] THEN next[block] ELSE next[b]]
    /\ prev' = [b \in blk' |-> IF b = next[block] THEN prev[block] ELSE prev[b]]
    /\ Return
    /\ UNCHANGED <<users, upages>>

-----------------------------------------------------------------------------
(* mm/page.c, called by the page fault handler of another task.             *)

alloc_page ==
    /\ pc = "idle"
    /\ \E p \in DOMAIN users :
          /\ users[p] = 0
          /\ \A q \in DOMAIN users : q < p => users[q] # 0
          /\ users' = [users EXCEPT ![p] = 1]
          /\ upages' = upages \cup {p}
    /\ UNCHANGED <<list, pc, call>>

free_page(p) ==
    /\ pc = "idle"
    /\ p \in upages
    /\ users' = [users EXCEPT ![p] = (@ + UMOD - 1) % UMOD]
    /\ upages' = upages \ {p}
    /\ UNCHANGED <<list, pc, call>>

Next ==
    \/ \E r \in Requests : kmemalign(r[1], r[2])
    \/ search_begin \/ search_fails \/ search_next \/ search_found
    \/ search_extend \/ search_reset
    \/ link_block \/ obtain_pages
    \/ \E b \in blk : kfree(b)
    \/ unlink_block
    \/ alloc_page
    \/ \E p \in upages : free_page(p)

Spec == Init /\ [][Next]_vars

-----------------------------------------------------------------------------
(* Properties *)

\* The list visits the blocks in the order of their addresses, its two
\* directions agree, and no block reaches into the next one (kmalloc.c:
\* kmemalign inserts what search_interspace finds between block and
\* block->next).
BlocksApart ==
    /\ next[end] = heap
    /\ \A b \in blk \ {end} :
          /\ b < next[b]
          /\ prev[next[b]] = b
          /\ next[b] # end => BLOCK_END(b) <= next[b]
          /\ BLOCK_END(b) <= Top
          /\ \A c \in blk : c <= b \/ c >= next[b]

\* Between calls, _page_users of a page is the number of its users: the
\* blocks that touch it and the task that holds it, after any sequence of
\* calls that share pages (kmalloc.c: the loops over obtain_page and
\* free_page).
PagesCounted ==
    pc = "idle" =>
        \A p \in PageNo :
            users[p] = Cardinality({b \in blk \ {end} : p \in PagesOf(b)})
                       + Cardinality({p} \cap upages)

\* A page that a task holds is never given to the heap as well, with one
\* exception: search_interspace does not look at the counter of the page in
\* which a block begins.
SharedOnlyFirst ==
    \A b \in blk \ {heap, end} : PagesOf(b) \cap upages \subseteq {Page(b)}

\* A block is apart from the other blocks and from the tasks' pages.
MemoryApart == BlocksApart /\ SharedOnlyFirst

\* kmemalign(alignment, size) returns a multiple of alignment.
Aligned == pc = "obtain" /\ align > 0 => (saddr + HDR) % align = 0
=============================================================================
