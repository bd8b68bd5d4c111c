-------------------------------- MODULE List --------------------------------
(***************************************************************************)
(* lib/list.h: circular doubly linked lists whose nodes are members of the *)
(* structs they link.  Every use in the scheduler runs with interrupts     *)
(* off, so an operation is one step; the order of its assignments matters, *)
(* since the nodes they write may be the same.                             *)
(***************************************************************************)
EXTENDS Naturals, Sequences, FiniteSets

CONSTANTS Heads,  \* the LIST_HEADs
          Nodes,  \* the members "running", "list", "child" of the structs
          NULL

VARIABLES prev, next,  \* the fields of struct list_head
          ret          \* what the last operation returned

vars == <<prev, next, ret>>

\* LIST_HEAD and LIST_HEAD_INIT: both pointers at the struct itself.
Init == /\ prev = [x \in Heads \cup Nodes |-> x]
        /\ next = [x \in Heads \cup Nodes |-> x]
        /\ ret = NULL

\* s is what a walk along next visits, from head on until it is back there.
IsWalk(head, s) ==
    /\ next[head] = IF s = <<>> THEN head ELSE s[1]
    /\ \A i \in 1 .. Len(s) : next[s[i]] = IF i = Len(s) THEN head ELSE s[i + 1]

\* The nodes that LIST_FOREACH visits, in order.
Walk(head) ==
    CHOOSE s \in UNION {[1 .. m -> Nodes] : m \in 0 .. Cardinality(Nodes)} : IsWalk(head, s)

\* for (__node = head; __node->next != head; __node = __node->next);
LastFrom(head) ==
    LET s == Walk(head) IN IF s = <<>> THEN head ELSE s[Len(s)]

\* LIST_HEAD_INIT has made it point at itself, LIST_DEL at NULL.
Unlinked(node) == next[node] \in {node, NULL}

-----------------------------------------------------------------------------
LIST_ADD_TAIL(head, node) ==
    LET last == LastFrom(head) IN
    /\ next' = [next EXCEPT ![last] = node, ![node] = head]
    /\ prev' = [prev EXCEPT ![node] = last, ![head] = node]

LIST_ENQUEUE(head, node) ==
    /\ Unlinked(node)
    /\ LIST_ADD_TAIL(head, node)
    /\ ret' = NULL

\* The assignments of LIST_DEL and LIST_DEL_HEAD.
Unlink(node) ==
    /\ next' = [next EXCEPT ![prev[node]] = next[node], ![node] = NULL]
    /\ prev' = [prev EXCEPT ![next[node]] = prev[node], ![node] = NULL]

LIST_DEL(node) ==
    /\ ~ Unlinked(node)
    /\ Unlink(node)
    /\ ret' = NULL

\* Mutant of LIST_DEQUEUE: the last node instead of the first.
LIST_DEQUEUE_last(head) ==
    \/ /\ next[head] # head
       /\ Unlink(prev[head])
       /\ ret' = prev[head]
    \/ /\ next[head] = head
       /\ ret' = NULL
       /\ UNCHANGED <<prev, next>>

LIST_DEQUEUE(head) ==
    \/ /\ next[head] # head
       /\ Unlink(next[head])
       /\ ret' = next[head]
    \/ /\ next[head] = head
       /\ ret' = NULL
       /\ UNCHANGED <<prev, next>>

Next == \/ \E h \in Heads, n \in Nodes : LIST_ENQUEUE(h, n)
        \/ \E h \in Heads : LIST_DEQUEUE(h)
        \/ \E n \in Nodes : LIST_DEL(n)

Spec == Init /\ [][Next]_vars

-----------------------------------------------------------------------------
(* Properties *)

\* The lists are sequences: enqueue, dequeue and delete on linked structs are
\* the operations of Queue, for lists that share the same nodes.
Abstract == INSTANCE Queue WITH q <- [h \in Heads |-> Walk(h)]

Refines == Abstract!Spec
=============================================================================
