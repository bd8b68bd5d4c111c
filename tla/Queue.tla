------------------------------- MODULE Queue -------------------------------
(***************************************************************************)
(* What the users of lib/list.h rely on: a list is a sequence of nodes, a  *)
(* node is on one list at most, LIST_ENQUEUE appends, LIST_DEQUEUE takes   *)
(* the first node and LIST_DEL takes any node.  Module List implements it. *)
(***************************************************************************)
EXTENDS Naturals, Sequences

CONSTANTS Heads, Nodes, NULL

VARIABLES q,    \* q[h]: the nodes on the list h
          ret   \* what the last operation returned

vars == <<q, ret>>

On(n) == \E h \in Heads : \E i \in 1 .. Len(q[h]) : q[h][i] = n

Without(s, i) == SubSeq(s, 1, i - 1) \o SubSeq(s, i + 1, Len(s))

Init == q = [h \in Heads |-> <<>>] /\ ret = NULL

Enqueue(h, n) ==
    /\ ~ On(n)
    /\ q' = [q EXCEPT ![h] = Append(@, n)]
    /\ ret' = NULL

Dequeue(h) ==
    /\ q' = [q EXCEPT ![h] = IF @ = <<>> THEN <<>> ELSE Tail(@)]
    /\ ret' = IF q[h] = <<>> THEN NULL ELSE Head(q[h])

Delete(n) ==
    /\ \E h \in Heads : \E i \in 1 .. Len(q[h]) :
          /\ q[h][i] = n
          /\ q' = [q EXCEPT ![h] = Without(@, i)]
    /\ ret' = NULL

Next == \/ \E h \in Heads : (\E n \in Nodes : Enqueue(h, n)) \/ Dequeue(h)
        \/ \E n \in Nodes : Delete(n)

Spec == Init /\ [][Next]_vars
=============================================================================
