------------------------------- MODULE MCMem --------------------------------
(***************************************************************************)
(* The memory of the kernel: instances of Mm (page tables, page faults,    *)
(* descriptors and the life of user tasks) and Heap (kmalloc.c over        *)
(* page.c).  A behaviour is one of one of them; the variables of the other *)
(* keep their initial values.                                              *)
(***************************************************************************)
EXTENDS Mm

CONSTANTS PAGE_SIZE, HDR, NR_PAGES, BYTE, Requests  \* of Heap

VARIABLES active,
          blk, size, prev, next, counts, upages, pc, align, req, block, saddr, eaddr

\* A small block, one of several pages, and a page directory
MCRequests == {<<0, 1>>, <<0, 5>>, <<4, 4>>}

H == INSTANCE Heap WITH UMOD <- BYTE, users <- counts

hvars == <<blk, size, prev, next, counts, upages, pc, align, req, block, saddr, eaddr>>
all == <<active, vars, hvars>>

KInit == Init /\ H!Init /\ active \in {"Heap", "Mm"}

KNext == /\ UNCHANGED active
         /\ \/ active = "Heap" /\ H!Next /\ UNCHANGED vars
            \/ active = "Mm" /\ Next /\ UNCHANGED hvars

KSpec == KInit /\ [][KNext]_all

-----------------------------------------------------------------------------
(* Properties *)

\* The blocks that kmemalign returns do not overlap, and of the pages of a task
\* a block reaches none but the one it starts on, see Heap.
MemoryApart == H!MemoryApart

\* _page_users counts the blocks and tasks on a page, see Heap.
PagesCounted == H!PagesCounted
=============================================================================
