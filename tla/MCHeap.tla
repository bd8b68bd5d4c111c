------------------------------- MODULE MCHeap -------------------------------
(***************************************************************************)
(* Instances of Heap: pages of 4 units, headers of 1.  The requests are a  *)
(* small block (struct task, a dentry), one of several pages (a stack of   *)
(* ring 0, the image of a program) and a page directory.                   *)
(***************************************************************************)
EXTENDS Heap

MCRequests == {<<0, 1>>, <<0, 5>>, <<PAGE_SIZE, PAGE_SIZE>>}
=============================================================================
