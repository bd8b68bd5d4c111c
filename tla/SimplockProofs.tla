--------------------------- MODULE SimplockProofs ---------------------------
(* The lock is correct for any number of callers with IF = 0 and at most    *)
(* one caller with IF = 1.  The linked lists are queues, for any number of  *)
(* lists and nodes.                                                          *)
EXTENDS MCSimplock, Sequences, FiniteSetTheorems, WellFoundedInduction, TLAPS

\* A set of numbers that is not empty has a least element.
LEMMA Least ==
    ASSUME NEW S \in SUBSET Nat, S # {}
    PROVE  \E n \in S : \A m \in S : n <= m
<1> DEFINE R == OpToRel(<, Nat)
<1>1. IsWellFoundedOn(R, Nat)
  BY NatLessThanWellFounded
<1>2. \A x, y \in Nat : y < x => <<y, x>> \in R
  BY DEF OpToRel
<1> HIDE DEF R
<1>3. PICK x \in S : \A y \in S : ~ (<<y, x>> \in R)
  BY <1>1, WFMin
<1>4. \A y \in S : ~ (y < x)
  BY <1>2, <1>3
<1> QED BY <1>4

OnePreemptible == \A s, t \in Preemptible : s = t

\* A caller with IF = 0 keeps the CPU until it has left the lock.
RunsToEnd == \A t \in Task \ Preemptible : t # current => pc[t] = "out"

\* Between the test and the store nobody else comes in.
Entering == pc[current] \in {"load", "store"} => Holders = {}

Registers == \A t \in Task : /\ pc[t] = "store" => reg[t] = 0
                             /\ pc[t] = "dstore" => reg[t] = 1

IInv == TypeOK /\ Mutex /\ OwnersCount /\ RunsToEnd /\ Entering /\ Registers

\* The arithmetic of owners++ and owners-- on a lock that is free and held.
LEMMA Count == (0 + 1) % MOD = 1 /\ (1 + (MOD - 1)) % MOD = 0
  BY LockAssumption

\* Each step preserves the invariant.
LEMMA NextInv ==
    ASSUME OnePreemptible, IInv, [Next]_vars
    PROVE  IInv'
<1> USE LockAssumption DEF IInv, TypeOK, Labels, Mutex, OwnersCount, RunsToEnd,
                           Entering, Registers, Holders
<1>0. current \in Task
  OBVIOUS
<1>1. CASE call
  BY <1>0, <1>1 DEF call, Goto
<1>2. CASE obtain_wait
  BY <1>0, <1>2 DEF obtain_wait, Interruptible, OnePreemptible
<1>3. CASE obtain_test
  BY <1>0, <1>3 DEF obtain_test, Goto
<1>4. CASE obtain_load
  BY <1>0, <1>4 DEF obtain_load, Goto
<1>5. CASE obtain_store
  BY <1>0, <1>5, Count DEF obtain_store, Goto
<1>6. CASE release_load
  BY <1>0, <1>6 DEF release_load, Goto
<1>7. CASE release_store
  BY <1>0, <1>7, Count DEF release_store, Goto
<1>8. CASE clock_handler
  BY <1>0, <1>8 DEF clock_handler, Interruptible, OnePreemptible
<1>9. CASE UNCHANGED vars
  BY <1>9 DEF vars
<1> QED  BY <1>1, <1>2, <1>3, <1>4, <1>5, <1>6, <1>7, <1>8, <1>9 DEF Next

\* The inductive invariant holds in every reachable state.
LEMMA Inductive == ASSUME OnePreemptible PROVE Spec => []IInv
<1>1. Init => IInv
  BY LockAssumption DEF Init, IInv, TypeOK, Labels, Mutex, OwnersCount, RunsToEnd,
                        Entering, Registers, Holders
<1>2. IInv /\ [Next]_vars => IInv'
  BY NextInv
<1> QED  BY <1>1, <1>2, PTL DEF Spec

\* With at most one preemptible caller the lock excludes (lock.c).
THEOREM LockExcludes == ASSUME OnePreemptible PROVE Spec => []Mutex
<1>1. IInv => Mutex
  BY DEF IInv
<1> QED  BY <1>1, Inductive, PTL

\* With at most one preemptible caller owners is exact: no lost update of
\* owners++ or owners--, no wrap below zero, no lock left behind.
THEOREM LockCounts == ASSUME OnePreemptible PROVE Spec => []OwnersCount
<1>1. IInv => OwnersCount
  BY DEF IInv
<1> QED  BY <1>1, Inductive, PTL

\* The machine hangs in simplock_obtain only when a preemptible task has been
\* switched away from while it holds the lock.
THEOREM HangNeedsPreemption == ASSUME OnePreemptible PROVE Spec => []HangCause
<1>1. IInv => HangCause
  BY LockAssumption DEF IInv, HangCause, OwnersCount, RunsToEnd, Holders
<1> QED  BY <1>1, Inductive, PTL
-----------------------------------------------------------------------------
(* lib/list.h *)

\* The structs are distinct objects, and there are finitely many.
Structs == IsFiniteSet(Nodes) /\ Heads \cap Nodes = {} /\ NULL \notin Heads \cup Nodes

\* What is at position i of the ring of the list s: its head at both ends.
At(s, head, i) == IF i \in 1 .. Len(s) THEN s[i] ELSE head

\* The pointers nx and pv link the lists qs: next and prev are inverse to each
\* other along every ring, no two places of the rings are the same struct, and
\* a node of no list says so.
Linked(nx, pv, qs) ==
    /\ qs \in [Heads -> Seq(Nodes)]
    /\ nx \in [Heads \cup Nodes -> Heads \cup Nodes \cup {NULL}]
    /\ pv \in [Heads \cup Nodes -> Heads \cup Nodes \cup {NULL}]
    /\ \A h \in Heads : \A i \in 0 .. Len(qs[h]) :
          /\ nx[At(qs[h], h, i)] = At(qs[h], h, i + 1)
          /\ pv[At(qs[h], h, i + 1)] = At(qs[h], h, i)
    /\ \A g, h \in Heads : \A i \in 0 .. Len(qs[g]), j \in 0 .. Len(qs[h]) :
          At(qs[g], g, i) = At(qs[h], h, j) => g = h /\ i = j
    /\ \A n \in Nodes : \/ nx[n] \in {n, NULL}
                        \/ \E h \in Heads : \E i \in 1 .. Len(qs[h]) : qs[h][i] = n

\* The pointers nx lead once round the ring of the list s.
Round(nx, h, s) == \A i \in 0 .. Len(s) : nx[At(s, h, i)] = At(s, h, i + 1)

LInv == \E qs \in [Heads -> Seq(Nodes)] : Linked(next, prev, qs)

\* A walk goes round the ring, place by place.
LEMMA Ring ==
    ASSUME NEW nx, NEW h \in Heads, NEW s \in Seq(Nodes)
    PROVE  Round(nx, h, s)
           <=> /\ nx[h] = IF s = <<>> THEN h ELSE s[1]
               /\ \A i \in 1 .. Len(s) : nx[s[i]] = IF i = Len(s) THEN h ELSE s[i + 1]
<1> DEFINE n == Len(s)
<1>1. n \in Nat /\ (s = <<>> <=> n = 0)
  OBVIOUS
<1>2. At(s, h, 0) = h /\ At(s, h, 1) = (IF s = <<>> THEN h ELSE s[1])
  BY <1>1 DEF At
<1>3. \A i \in 1 .. n : At(s, h, i) = s[i] /\ At(s, h, i + 1) = (IF i = n THEN h ELSE s[i + 1])
  BY <1>1 DEF At
<1>4. 0 .. n = {0} \cup 1 .. n /\ 0 + 1 = 1
  BY <1>1
<1> HIDE DEF n
<1>5. (\A i \in 0 .. n : nx[At(s, h, i)] = At(s, h, i + 1))
      <=> /\ nx[At(s, h, 0)] = At(s, h, 1)
          /\ \A i \in 1 .. n : nx[At(s, h, i)] = At(s, h, i + 1)
  BY <1>4
<1> QED BY <1>2, <1>3, <1>5 DEF n, Round

\* Two walks round the same ring are the same walk.
LEMMA OneWalk ==
    ASSUME Structs, NEW nx, NEW h \in Heads, NEW s \in Seq(Nodes), NEW t \in Seq(Nodes),
           Round(nx, h, s), Round(nx, h, t)
    PROVE  s = t
<1> DEFINE Same(i) == i <= Len(t) + 1 /\ At(s, h, i) = At(t, h, i)
           B == {i \in 0 .. Len(s) + 1 : ~ Same(i)}
<1>1. Len(s) \in Nat /\ Len(t) \in Nat
  OBVIOUS
<1>2. \A i \in 1 .. Len(s) : At(s, h, i) \in Nodes
  BY DEF At
<1>3. h \notin Nodes
  BY DEF Structs
<1>4. ASSUME B # {} PROVE FALSE
  <2>1. B \in SUBSET Nat
    BY <1>1
  <2>2. PICK i \in B : \A j \in B : i <= j
    BY <1>4, <2>1, Least
  <2>3. i # 0
    BY <1>1 DEF At
  <2>4. i - 1 \in 0 .. Len(s) /\ i \in Nat
    BY <1>1, <2>3
  <2>5. Same(i - 1)
    BY <1>1, <2>2, <2>4
  <2>6. i - 1 # Len(t) + 1
    BY <1>1, <1>2, <1>3, <2>4, <2>5 DEF At
  <2>7. i - 1 \in 0 .. Len(t)
    BY <1>1, <2>4, <2>5, <2>6
  <2>8. nx[At(s, h, i - 1)] = At(s, h, (i - 1) + 1) /\ nx[At(t, h, i - 1)] = At(t, h, (i - 1) + 1)
    BY <2>4, <2>7 DEF Round
  <2>9. (i - 1) + 1 = i
    BY <2>4
  <2>10. Same(i)
    BY <1>1, <2>5, <2>7, <2>8, <2>9
  <2> QED BY <2>2, <2>10
<1>5. \A i \in 0 .. Len(s) + 1 : Same(i)
  BY <1>4
<1>6. Len(s) <= Len(t)
  BY <1>1, <1>5
<1>7. At(t, h, Len(s) + 1) = h
  BY <1>1, <1>5 DEF At
<1>8. \A i \in 1 .. Len(t) : At(t, h, i) \in Nodes
  BY DEF At
<1>9. Len(s) = Len(t)
  BY <1>1, <1>3, <1>6, <1>7, <1>8
<1>10. \A i \in 1 .. Len(s) : s[i] = t[i]
  BY <1>1, <1>5, <1>9 DEF At
<1> QED BY <1>9, <1>10

\* A list is no longer than there are nodes, so Walk looks far enough.
LEMMA Short ==
    ASSUME Structs, NEW nx, NEW pv, NEW qs, Linked(nx, pv, qs), NEW h \in Heads
    PROVE  qs[h] \in UNION {[1 .. m -> Nodes] : m \in 0 .. Cardinality(Nodes)}
<1> DEFINE s == qs[h]
<1>1. s \in Seq(Nodes) /\ Len(s) \in Nat
  BY DEF Linked
<1>2. s \in [1 .. Len(s) -> Nodes]
  BY <1>1
<1>3. \A i, j \in 1 .. Len(s) : s[i] = s[j] => i = j
  <2>1. \A i \in 1 .. Len(s) : At(s, h, i) = s[i] /\ i \in 0 .. Len(s)
    BY <1>1 DEF At
  <2> QED BY <2>1 DEF Linked
<1>4. s \in Injection(1 .. Len(s), Nodes)
  BY <1>2, <1>3 DEF Injection, IsInjective
<1>5. Cardinality(1 .. Len(s)) <= Cardinality(Nodes)
  BY <1>4, FS_Injection DEF Structs
<1>6. Cardinality(1 .. Len(s)) = Len(s)
  <2>1. 1 \in Int /\ Len(s) \in Int
    BY <1>1
  <2>2. Cardinality(1 .. Len(s)) = IF 1 > Len(s) THEN 0 ELSE Len(s) - 1 + 1
    BY <2>1, FS_Interval
  <2> QED BY <1>1, <2>2
<1>7. Cardinality(Nodes) \in Nat
  BY FS_CardinalityType DEF Structs
<1>8. Len(s) \in 0 .. Cardinality(Nodes)
  BY <1>1, <1>5, <1>6, <1>7
<1> HIDE DEF s
<1>9. s \in UNION {[1 .. m -> Nodes] : m \in 0 .. Cardinality(Nodes)}
  BY <1>2, <1>8
<1> QED BY <1>9 DEF s

\* LIST_FOREACH visits the nodes of the list, in order.
LEMMA WalkIs ==
    ASSUME Structs, NEW qs, NEW h \in Heads
    PROVE  /\ Linked(next, prev, qs) => L!Walk(h) = qs[h]
           /\ Linked(next', prev', qs) => L!Walk(h)' = qs[h]
<1> DEFINE Lists == UNION {[1 .. m -> Nodes] : m \in 0 .. Cardinality(Nodes)}
<1>1. \A s \in Lists : s \in Seq(Nodes)
  <2>1. Cardinality(Nodes) \in Nat
    BY FS_CardinalityType DEF Structs
  <2> QED BY <2>1
<1>c. L!Cardinality(Nodes) = Cardinality(Nodes)
  BY Zenon DEF L!Cardinality, Cardinality
<1> HIDE DEF Lists
<1>2. ASSUME Linked(next, prev, qs) PROVE L!Walk(h) = qs[h]
  <2>1. qs[h] \in Lists
    BY <1>2, Short DEF Lists
  <2>2. qs[h] \in Seq(Nodes) /\ Round(next, h, qs[h])
    BY <1>2 DEF Linked, Round
  <2>3. L!IsWalk(h, qs[h])
    <3>1. \A s \in Seq(Nodes) : Round(next, h, s) => L!IsWalk(h, s)
      BY Ring DEF L!IsWalk
    <3> QED BY <2>2, <3>1
  <2>4. L!Walk(h) \in Lists /\ L!IsWalk(h, L!Walk(h))
    <3> DEFINE P(s) == L!IsWalk(h, s)
    <3>1. L!Walk(h) = CHOOSE s \in Lists : P(s)
      BY <1>c, Zenon DEF L!Walk, Lists
    <3>2. P(qs[h])
      BY <2>3
    <3> HIDE DEF P
    <3>3. L!Walk(h) \in Lists /\ P(L!Walk(h))
      BY <2>1, <3>1, <3>2
    <3> QED BY <3>3 DEF P
  <2>5. L!Walk(h) \in Seq(Nodes)
    BY <1>1, <2>4
  <2>6. Round(next, h, L!Walk(h))
    BY <2>4, <2>5, Ring DEF L!IsWalk
  <2> DEFINE w == L!Walk(h)
  <2> HIDE DEF w
  <2>7. w = qs[h]
    BY <2>2, <2>5, <2>6, OneWalk DEF w
  <2> QED BY <2>7 DEF w
<1>3. ASSUME Linked(next', prev', qs) PROVE L!Walk(h)' = qs[h]
  <2>1. qs[h] \in Lists
    BY <1>3, Short DEF Lists
  <2>2. qs[h] \in Seq(Nodes) /\ Round(next', h, qs[h])
    BY <1>3 DEF Linked, Round
  <2> DEFINE W(s) == /\ next'[h] = IF s = <<>> THEN h ELSE s[1]
                     /\ \A i \in 1 .. Len(s) : next'[s[i]] = IF i = Len(s) THEN h ELSE s[i + 1]
             w == L!Walk(h)'
  <2>3. W(qs[h])
    <3>1. \A s \in Seq(Nodes) : Round(next', h, s) => W(s)
      BY Ring
    <3> HIDE DEF W
    <3> QED BY <2>2, <3>1
  <2>4. w = CHOOSE s \in Lists : W(s)
    BY <1>c, Zenon DEF L!Walk, L!IsWalk, Lists
  <2>5. w \in Lists /\ W(w)
    BY <2>1, <2>3, <2>4
  <2> HIDE DEF w
  <2>6. w \in Seq(Nodes)
    BY <1>1, <2>5
  <2>7. Round(next', h, w)
    BY <2>5, <2>6, Ring
  <2>8. w = qs[h]
    BY <2>2, <2>6, <2>7, OneWalk
  <2> QED BY <2>8 DEF w
<1> QED BY <1>2, <1>3

\* The places of the rings: the ends are the head, the others are nodes, and a
\* node that is on a list points neither at itself nor at NULL.
LEMMA Places ==
    ASSUME Structs, NEW nx, NEW pv, NEW qs, Linked(nx, pv, qs), NEW g \in Heads
    PROVE  /\ qs[g] \in Seq(Nodes) /\ Len(qs[g]) \in Nat
           /\ At(qs[g], g, 0) = g /\ At(qs[g], g, Len(qs[g]) + 1) = g
           /\ \A i \in 1 .. Len(qs[g]) : /\ At(qs[g], g, i) \in Nodes
                                         /\ At(qs[g], g, i) = qs[g][i]
                                         /\ nx[qs[g][i]] \notin {qs[g][i], NULL}
           /\ \A i \in Nat : At(qs[g], g, i) \in Heads \cup Nodes
<1> DEFINE s == qs[g]
<1>1. s \in Seq(Nodes) /\ Len(s) \in Nat
  BY DEF Linked
<1>2. At(s, g, 0) = g /\ At(s, g, Len(s) + 1) = g
  BY <1>1 DEF At
<1>3. \A i \in 1 .. Len(s) : At(s, g, i) = s[i] /\ s[i] \in Nodes
  BY <1>1 DEF At
<1>4. \A i \in Nat : At(s, g, i) \in Heads \cup Nodes
  BY <1>1 DEF At
<1>5. ASSUME NEW i \in 1 .. Len(s) PROVE nx[s[i]] \notin {s[i], NULL}
  <2>1. nx[At(s, g, i)] = At(s, g, i + 1)
    BY <1>1 DEF Linked
  <2>2. At(s, g, i + 1) # NULL
    BY <1>1, <1>4 DEF Structs
  <2>3. CASE i = Len(s)
    BY <1>1, <1>2, <1>3, <2>1, <2>2, <2>3 DEF Structs
  <2>4. CASE i # Len(s)
    <3>1. i + 1 \in 0 .. Len(s) /\ i \in 0 .. Len(s) /\ i + 1 # i
      BY <1>1, <2>4
    <3>2. At(s, g, i + 1) # At(s, g, i)
      BY <3>1 DEF Linked
    <3> QED BY <1>3, <2>1, <2>2, <3>2
  <2> QED BY <2>3, <2>4
<1> QED BY <1>1, <1>2, <1>3, <1>4, <1>5

\* The pointers that LIST_ADD_TAIL leaves link the list with the node at its end.
LEMMA Enqueued ==
    ASSUME Structs, NEW nx, NEW pv, NEW qs, Linked(nx, pv, qs),
           NEW h \in Heads, NEW n \in Nodes, nx[n] \in {n, NULL},
           NEW last, last = At(qs[h], h, Len(qs[h]))
    PROVE  Linked([nx EXCEPT ![last] = n, ![n] = h], [pv EXCEPT ![n] = last, ![h] = n],
                  [qs EXCEPT ![h] = Append(qs[h], n)])
<1> DEFINE nx2 == [nx EXCEPT ![last] = n, ![n] = h]
           pv2 == [pv EXCEPT ![n] = last, ![h] = n]
           qs2 == [qs EXCEPT ![h] = Append(qs[h], n)]
           k == Len(qs[h])
           A(g, i) == At(qs[g], g, i)
           A2(g, i) == At(qs2[g], g, i)
<1>1. \A g \in Heads : /\ qs[g] \in Seq(Nodes) /\ Len(qs[g]) \in Nat
                       /\ A(g, 0) = g /\ A(g, Len(qs[g]) + 1) = g
                       /\ \A i \in 1 .. Len(qs[g]) : /\ A(g, i) \in Nodes
                                                     /\ A(g, i) = qs[g][i]
                                                     /\ nx[qs[g][i]] \notin {qs[g][i], NULL}
                       /\ \A i \in Nat : A(g, i) \in Heads \cup Nodes
  BY Places
<1>2. \A g \in Heads : \A i \in 0 .. Len(qs[g]) + 1 : A(g, i) # n
  <2> SUFFICES ASSUME NEW g \in Heads, NEW i \in 0 .. Len(qs[g]) + 1, A(g, i) = n
               PROVE  FALSE
    OBVIOUS
  <2>1. i \in 1 .. Len(qs[g])
    BY <1>1 DEF Structs
  <2> HIDE DEF A
  <2> QED BY <1>1, <2>1
<1>3. qs2 \in [Heads -> Seq(Nodes)] /\ qs \in [Heads -> Seq(Nodes)]
  BY DEF Linked
<1>4. \A g \in Heads \ {h} : qs2[g] = qs[g]
  BY <1>3
<1>5. qs2[h] = Append(qs[h], n) /\ k \in Nat /\ Len(qs2[h]) = k + 1
  BY <1>1, <1>3
<1>6. \A i \in 0 .. k : A2(h, i) = A(h, i)
  BY <1>1, <1>5 DEF At
<1>7. A2(h, k + 1) = n /\ A2(h, k + 2) = h
  BY <1>1, <1>5 DEF At
<1>8. \A g \in Heads \ {h} : \A i \in Nat : A2(g, i) = A(g, i)
  BY <1>4
<1>9. last = A(h, k) /\ last \in Heads \cup Nodes /\ last # n
  BY <1>1, <1>2
<1>10. /\ nx2 \in [Heads \cup Nodes -> Heads \cup Nodes \cup {NULL}]
       /\ pv2 \in [Heads \cup Nodes -> Heads \cup Nodes \cup {NULL}]
       /\ nx2[n] = h /\ nx2[last] = n /\ pv2[n] = last /\ pv2[h] = n
       /\ \A x \in (Heads \cup Nodes) \ {n, last} : nx2[x] = nx[x]
       /\ \A x \in (Heads \cup Nodes) \ {n, h} : pv2[x] = pv[x]
  <2>1. h \in Heads \cup Nodes /\ n \in Heads \cup Nodes /\ h # n
    BY DEF Structs
  <2>2. /\ nx \in [Heads \cup Nodes -> Heads \cup Nodes \cup {NULL}]
        /\ pv \in [Heads \cup Nodes -> Heads \cup Nodes \cup {NULL}]
    BY DEF Linked
  <2>3. last # n /\ last \in Heads \cup Nodes
    BY <1>9
  <2> QED BY <2>1, <2>2, <2>3
<1>11. \A g \in Heads : \A i \in 0 .. Len(qs[g]) :
          nx[A(g, i)] = A(g, i + 1) /\ pv[A(g, i + 1)] = A(g, i)
  BY DEF Linked
<1>12. \A f, g \in Heads : \A i \in 0 .. Len(qs[f]), j \in 0 .. Len(qs[g]) :
          A(f, i) = A(g, j) => f = g /\ i = j
  BY DEF Linked
<1>13. \A m \in Nodes : \/ nx[m] \in {m, NULL}
                        \/ \E g \in Heads : \E i \in 1 .. Len(qs[g]) : qs[g][i] = m
  BY DEF Linked
<1>14. \A i \in 1 .. k : qs2[h][i] = qs[h][i] /\ qs2[h][k + 1] = n
  BY <1>1, <1>5
<1> HIDE DEF nx2, pv2, qs2, k, A, A2
<1>15. ASSUME NEW g \in Heads, NEW i \in 0 .. Len(qs2[g])
       PROVE  nx2[A2(g, i)] = A2(g, i + 1) /\ pv2[A2(g, i + 1)] = A2(g, i)
  <2>1. CASE g # h
    <3>1. Len(qs2[g]) = Len(qs[g]) /\ i \in Nat /\ i + 1 \in Nat
      BY <1>1, <1>4, <2>1
    <3>2. A(g, i) # n /\ A(g, i + 1) # n /\ A(g, i) # last
      BY <1>1, <1>2, <1>5, <1>9, <1>12, <2>1, <3>1
    <3>3. A(g, i + 1) # h
      BY <1>1, <1>12, <2>1, <3>1 DEF Structs
    <3>4. nx2[A(g, i)] = A(g, i + 1) /\ pv2[A(g, i + 1)] = A(g, i)
      BY <1>1, <1>10, <1>11, <3>1, <3>2, <3>3
    <3> QED BY <1>8, <2>1, <3>1, <3>4
  <2>2. CASE g = h /\ i < k
    <3>1. i \in 0 .. k /\ i + 1 \in 1 .. k /\ i \in Nat /\ i + 1 \in Nat
      BY <1>5, <2>2
    <3>2. A(h, i) # n /\ A(h, i + 1) # n /\ A(h, i) # last /\ A(h, i + 1) # h
      BY <1>1, <1>2, <1>5, <1>9, <1>12, <2>2, <3>1 DEF k, Structs
    <3>3. nx2[A(h, i)] = A(h, i + 1) /\ pv2[A(h, i + 1)] = A(h, i)
      BY <1>1, <1>10, <1>11, <3>1, <3>2 DEF k
    <3> QED BY <1>6, <2>2, <3>1, <3>3
  <2>3. CASE g = h /\ i = k
    BY <1>5, <1>6, <1>7, <1>9, <1>10, <2>3
  <2>4. CASE g = h /\ i = k + 1
    BY <1>5, <1>7, <1>10, <2>4
  <2> QED BY <1>5, <2>1, <2>2, <2>3, <2>4
<1>16. ASSUME NEW f \in Heads, NEW g \in Heads, NEW i \in 0 .. Len(qs2[f]), NEW j \in 0 .. Len(qs2[g]),
              A2(f, i) = A2(g, j)
       PROVE  f = g /\ i = j
  <2>1. \A e \in Heads : \A l \in 0 .. Len(qs2[e]) :
           \/ e = h /\ l = k + 1 /\ A2(e, l) = n
           \/ l \in 0 .. Len(qs[e]) /\ A2(e, l) = A(e, l)
    BY <1>1, <1>4, <1>5, <1>6, <1>7, <1>8 DEF k
  <2> QED BY <1>1, <1>2, <1>12, <1>16, <2>1
<1>17. ASSUME NEW m \in Nodes
       PROVE  \/ nx2[m] \in {m, NULL}
              \/ \E g \in Heads : \E i \in 1 .. Len(qs2[g]) : qs2[g][i] = m
  <2>1. CASE m = n
    <3>1. k + 1 \in 1 .. Len(qs2[h]) /\ qs2[h][k + 1] = n
      BY <1>5
    <3> QED BY <2>1, <3>1
  <2>2. CASE m # n /\ nx[m] \in {m, NULL}
    <3>1. m # last
      BY <1>1, <1>5, <1>9, <2>2 DEF Structs, k
    <3> QED BY <1>10, <2>2, <3>1
  <2>3. ASSUME NEW g \in Heads, NEW i \in 1 .. Len(qs[g]), qs[g][i] = m
        PROVE  \E l \in 1 .. Len(qs2[g]) : qs2[g][l] = m
    <3>1. CASE g = h
      <4>1. i \in 1 .. k /\ i \in 1 .. Len(qs2[h])
        BY <1>5, <3>1 DEF k
      <4> QED BY <1>14, <2>3, <3>1, <4>1
    <3>2. CASE g # h
      BY <1>4, <2>3, <3>2
    <3> QED BY <3>1, <3>2
  <2> QED BY <1>13, <2>1, <2>2, <2>3
<1>18. Linked(nx2, pv2, qs2)
  BY <1>3, <1>10, <1>15, <1>16, <1>17 DEF Linked, A2
<1> QED BY <1>18 DEF nx2, pv2, qs2

\* A sequence without its element at place p.
LEMMA Shortened ==
    ASSUME NEW S, NEW s \in Seq(S), NEW p \in 1 .. Len(s), NEW r, r = L!Abstract!Without(s, p)
    PROVE  /\ r \in Seq(S)
           /\ Len(r) = Len(s) - 1
           /\ \A i \in 1 .. Len(s) - 1 : r[i] = IF i < p THEN s[i] ELSE s[i + 1]
<1> DEFINE a == SubSeq(s, 1, p - 1)
           b == SubSeq(s, p + 1, Len(s))
<1>1. Len(s) \in Nat /\ p \in Nat /\ p >= 1 /\ p <= Len(s)
  OBVIOUS
<1>2. a \in Seq(S) /\ Len(a) = p - 1 /\ \A i \in 1 .. p - 1 : a[i] = s[i]
  BY <1>1
<1>3. b \in Seq(S) /\ Len(b) = Len(s) - p /\ \A i \in 1 .. Len(s) - p : b[i] = s[p + i]
  BY <1>1
<1>4. r = a \o b
  BY DEF L!Abstract!Without
<1> HIDE DEF a, b
<1>5. r \in Seq(S) /\ Len(r) = Len(a) + Len(b)
  <2>1. \A u, v \in Seq(S) : u \o v \in Seq(S) /\ Len(u \o v) = Len(u) + Len(v)
    OBVIOUS
  <2> QED BY <1>2, <1>3, <1>4, <2>1
<1>6. \A i \in 1 .. Len(r) : r[i] = IF i <= Len(a) THEN a[i] ELSE b[i - Len(a)]
  BY <1>2, <1>3, <1>4, <1>5
<1>7. ASSUME NEW i \in 1 .. Len(s) - 1 PROVE r[i] = IF i < p THEN s[i] ELSE s[i + 1]
  <2>1. i \in Nat /\ i \in 1 .. Len(r)
    BY <1>1, <1>2, <1>3, <1>5
  <2>2. CASE i < p
    BY <1>1, <1>2, <1>6, <2>1, <2>2
  <2>3. CASE ~ (i < p)
    <3>1. i - (p - 1) \in 1 .. Len(s) - p /\ p + (i - (p - 1)) = i + 1 /\ ~ (i <= p - 1)
      BY <1>1, <2>1, <2>3
    <3>2. r[i] = b[i - (p - 1)]
      BY <1>2, <1>6, <2>1, <3>1
    <3>3. b[i - (p - 1)] = s[p + (i - (p - 1))]
      BY <1>3, <3>1
    <3> QED BY <2>3, <3>1, <3>2, <3>3
  <2> QED BY <2>2, <2>3
<1> QED BY <1>1, <1>2, <1>3, <1>5, <1>7

\* The pointers that LIST_DEL and LIST_DEL_HEAD leave link the list without the
\* node at place p.
LEMMA Deleted ==
    ASSUME Structs, NEW nx, NEW pv, NEW qs, Linked(nx, pv, qs),
           NEW h \in Heads, NEW p \in 1 .. Len(qs[h]), NEW n, n = qs[h][p]
    PROVE  Linked([nx EXCEPT ![pv[n]] = nx[n], ![n] = NULL], [pv EXCEPT ![nx[n]] = pv[n], ![n] = NULL],
                  [qs EXCEPT ![h] = L!Abstract!Without(qs[h], p)])
<1> DEFINE nx2 == [nx EXCEPT ![pv[n]] = nx[n], ![n] = NULL]
           pv2 == [pv EXCEPT ![nx[n]] = pv[n], ![n] = NULL]
           qs2 == [qs EXCEPT ![h] = L!Abstract!Without(qs[h], p)]
           k == Len(qs[h])
           A(g, i) == At(qs[g], g, i)
           A2(g, i) == At(qs2[g], g, i)
<1>1. \A g \in Heads : /\ qs[g] \in Seq(Nodes) /\ Len(qs[g]) \in Nat
                       /\ A(g, 0) = g /\ A(g, Len(qs[g]) + 1) = g
                       /\ \A i \in 1 .. Len(qs[g]) : /\ A(g, i) \in Nodes
                                                     /\ A(g, i) = qs[g][i]
                                                     /\ nx[qs[g][i]] \notin {qs[g][i], NULL}
                       /\ \A i \in Nat : A(g, i) \in Heads \cup Nodes
  BY Places
<1>2. k \in Nat /\ p \in Nat /\ p >= 1 /\ p <= k /\ p - 1 \in 0 .. k /\ p - 1 \in Nat /\ p + 1 \in Nat
  BY <1>1
<1>3. L!Abstract!Without(qs[h], p) \in Seq(Nodes)
  BY <1>1, Shortened
<1>4. Len(L!Abstract!Without(qs[h], p)) = k - 1
  BY <1>1, Shortened
<1>5. \A i \in 1 .. k - 1 : L!Abstract!Without(qs[h], p)[i] = IF i < p THEN qs[h][i] ELSE qs[h][i + 1]
  <2> DEFINE r == L!Abstract!Without(qs[h], p)
  <2> HIDE DEF r
  <2>1. \A i \in 1 .. k - 1 : r[i] = IF i < p THEN qs[h][i] ELSE qs[h][i + 1]
    <3> DEFINE s == qs[h]
    <3>1. r = L!Abstract!Without(s, p) /\ s \in Seq(Nodes) /\ p \in 1 .. Len(s)
      BY <1>1 DEF r
    <3> HIDE DEF s
    <3>2. \A i \in 1 .. Len(s) - 1 : r[i] = IF i < p THEN s[i] ELSE s[i + 1]
      BY <3>1, Shortened, ZenonT(60)
    <3> QED BY <3>2 DEF s
  <2> QED BY <2>1 DEF r
<1>6. qs2 \in [Heads -> Seq(Nodes)] /\ qs \in [Heads -> Seq(Nodes)]
  BY <1>3 DEF Linked
<1>7. /\ \A g \in Heads \ {h} : qs2[g] = qs[g]
      /\ Len(qs2[h]) = k - 1
      /\ \A i \in 1 .. k - 1 : qs2[h][i] = IF i < p THEN qs[h][i] ELSE qs[h][i + 1]
  BY <1>4, <1>5, <1>6
<1>8. ASSUME NEW i \in 0 .. k PROVE A2(h, i) = IF i < p THEN A(h, i) ELSE A(h, i + 1)
  <2>1. i \in Nat /\ i + 1 \in Nat
    OBVIOUS
  <2>2. A2(h, i) = IF i \in 1 .. k - 1 THEN qs2[h][i] ELSE h
    BY <1>7 DEF At
  <2>3. A(h, i) = (IF i \in 1 .. k THEN qs[h][i] ELSE h)
        /\ A(h, i + 1) = (IF i + 1 \in 1 .. k THEN qs[h][i + 1] ELSE h)
    BY DEF At
  <2>4. i \in 1 .. k - 1 => qs2[h][i] = IF i < p THEN qs[h][i] ELSE qs[h][i + 1]
    BY <1>7
  <2> HIDE DEF A, A2, k, qs2
  <2> QED
    BY <1>2, <2>1, <2>2, <2>3, <2>4
<1>9. \A g \in Heads \ {h} : \A i \in Nat : A2(g, i) = A(g, i)
  BY <1>7
<1>10. \A g \in Heads : \A i \in 0 .. Len(qs[g]) :
          nx[A(g, i)] = A(g, i + 1) /\ pv[A(g, i + 1)] = A(g, i)
  BY DEF Linked
<1>11. \A f, g \in Heads : \A i \in 0 .. Len(qs[f]), j \in 0 .. Len(qs[g]) :
          A(f, i) = A(g, j) => f = g /\ i = j
  BY DEF Linked
<1>12. \A m \in Nodes : \/ nx[m] \in {m, NULL}
                        \/ \E g \in Heads : \E i \in 1 .. Len(qs[g]) : qs[g][i] = m
  BY DEF Linked
<1>13. n = A(h, p) /\ n \in Nodes
  BY <1>1
<1> HIDE DEF A, A2
<1>14. nx[n] = A(h, p + 1) /\ pv[n] = A(h, p - 1)
  <2>1. p \in 0 .. k /\ p - 1 \in 0 .. Len(qs[h]) /\ (p - 1) + 1 = p
    BY <1>2
  <2> QED BY <1>10, <1>13, <2>1 DEF k
<1>15. A(h, p - 1) # n /\ A(h, p + 1) # n
  <2>1. A(h, p - 1) # n
    BY <1>2, <1>11, <1>13
  <2>2. CASE p = k
    BY <1>1, <1>13, <2>1, <2>2 DEF Structs
  <2>3. CASE p # k
    BY <1>2, <1>11, <1>13, <2>1, <2>3
  <2> QED BY <2>1, <2>2, <2>3
<1>16. /\ nx2 \in [Heads \cup Nodes -> Heads \cup Nodes \cup {NULL}]
       /\ pv2 \in [Heads \cup Nodes -> Heads \cup Nodes \cup {NULL}]
       /\ nx2[n] = NULL /\ nx2[A(h, p - 1)] = A(h, p + 1) /\ pv2[A(h, p + 1)] = A(h, p - 1)
       /\ \A x \in (Heads \cup Nodes) \ {n, A(h, p - 1)} : nx2[x] = nx[x]
       /\ \A x \in (Heads \cup Nodes) \ {n, A(h, p + 1)} : pv2[x] = pv[x]
  <2> DEFINE a == A(h, p - 1)
             b == A(h, p + 1)
  <2>1. a \in Heads \cup Nodes /\ b \in Heads \cup Nodes /\ a # n /\ b # n /\ n \in Heads \cup Nodes
    BY <1>1, <1>2, <1>13, <1>15
  <2>2. /\ nx \in [Heads \cup Nodes -> Heads \cup Nodes \cup {NULL}]
        /\ pv \in [Heads \cup Nodes -> Heads \cup Nodes \cup {NULL}]
    BY DEF Linked
  <2>3. nx2 = [nx EXCEPT ![a] = b, ![n] = NULL] /\ pv2 = [pv EXCEPT ![b] = a, ![n] = NULL]
    BY <1>14
  <2> HIDE DEF a, b, nx2, pv2
  <2>4. /\ nx2 \in [Heads \cup Nodes -> Heads \cup Nodes \cup {NULL}]
        /\ pv2 \in [Heads \cup Nodes -> Heads \cup Nodes \cup {NULL}]
        /\ nx2[n] = NULL /\ nx2[a] = b /\ pv2[b] = a
        /\ \A x \in (Heads \cup Nodes) \ {n, a} : nx2[x] = nx[x]
        /\ \A x \in (Heads \cup Nodes) \ {n, b} : pv2[x] = pv[x]
    BY <2>1, <2>2, <2>3
  <2> QED BY <2>4 DEF a, b
<1> HIDE DEF nx2, pv2, qs2, k
<1>17. \A f, g \in Heads : \A i \in 1 .. Len(qs[f]) + 1, j \in 1 .. Len(qs[g]) + 1 :
          A(f, i) = A(g, j) => f = g /\ i = j
  <2> SUFFICES ASSUME NEW f \in Heads, NEW g \in Heads,
                      NEW i \in 1 .. Len(qs[f]) + 1, NEW j \in 1 .. Len(qs[g]) + 1,
                      A(f, i) = A(g, j)
               PROVE  f = g /\ i = j
    OBVIOUS
  <2>1. Len(qs[f]) \in Nat /\ Len(qs[g]) \in Nat
    BY <1>1
  <2>2. CASE i <= Len(qs[f]) /\ j <= Len(qs[g])
    <3>1. i \in 0 .. Len(qs[f]) /\ j \in 0 .. Len(qs[g])
      BY <2>1, <2>2
    <3> QED BY <1>11, <3>1
  <2>3. CASE i = Len(qs[f]) + 1 /\ j = Len(qs[g]) + 1
    <3>1. f = g
      BY <1>1, <2>3
    <3> QED BY <2>3, <3>1
  <2>4. CASE i \in 1 .. Len(qs[f]) /\ j = Len(qs[g]) + 1
    BY <1>1, <2>4 DEF Structs
  <2>5. CASE i = Len(qs[f]) + 1 /\ j \in 1 .. Len(qs[g])
    BY <1>1, <2>5 DEF Structs
  <2> QED BY <2>1, <2>2, <2>3, <2>4, <2>5
<1>18. ASSUME NEW g \in Heads, NEW i \in 0 .. Len(qs[g]), g # h \/ i \notin {p - 1, p}
       PROVE  nx2[A(g, i)] = A(g, i + 1) /\ pv2[A(g, i + 1)] = A(g, i)
  <2>1. Len(qs[g]) \in Nat /\ i \in Nat /\ i + 1 \in Nat /\ i + 1 \in 1 .. Len(qs[g]) + 1
    BY <1>1
  <2>2. A(g, i) # n /\ A(g, i) # A(h, p - 1)
    <3>1. p \in 0 .. Len(qs[h]) /\ p - 1 \in 0 .. Len(qs[h])
      BY <1>2 DEF k
    <3> QED BY <1>11, <1>13, <1>18, <3>1
  <2>3. A(g, i + 1) # n /\ A(g, i + 1) # A(h, p + 1)
    <3>1. p \in 1 .. Len(qs[h]) + 1 /\ p + 1 \in 1 .. Len(qs[h]) + 1
      BY <1>2 DEF k
    <3>2. g # h \/ (i + 1 # p /\ i + 1 # p + 1)
      BY <1>2, <1>18, <2>1
    <3> QED BY <1>13, <1>17, <2>1, <3>1, <3>2
  <2>4. A(g, i) \in Heads \cup Nodes /\ A(g, i + 1) \in Heads \cup Nodes
    BY <1>1, <2>1
  <2> QED BY <1>10, <1>16, <2>2, <2>3, <2>4
<1>19. ASSUME NEW g \in Heads, NEW i \in 0 .. Len(qs2[g])
       PROVE  nx2[A2(g, i)] = A2(g, i + 1) /\ pv2[A2(g, i + 1)] = A2(g, i)
  <2>1. CASE g # h
    <3>1. Len(qs2[g]) = Len(qs[g]) /\ i \in Nat /\ i + 1 \in Nat
      BY <1>1, <1>7, <2>1
    <3> QED BY <1>9, <1>18, <2>1, <3>1
  <2>2. CASE g = h /\ i < p - 1
    <3>1. i \in 0 .. k /\ i + 1 \in 0 .. k /\ i < p /\ i + 1 < p /\ i \notin {p - 1, p}
      BY <1>2, <1>7, <2>2
    <3>2. nx2[A(h, i)] = A(h, i + 1) /\ pv2[A(h, i + 1)] = A(h, i)
      BY <1>18, <3>1 DEF k
    <3> QED BY <1>8, <2>2, <3>1, <3>2
  <2>3. CASE g = h /\ i = p - 1
    <3>1. i \in 0 .. k /\ i < p /\ i + 1 = p /\ p \in 0 .. k /\ ~ (p < p)
      BY <1>2, <2>3
    <3>2. A2(h, i) = A(h, p - 1) /\ A2(h, i + 1) = A(h, p + 1)
      BY <1>8, <2>3, <3>1
    <3> QED BY <1>16, <2>3, <3>2
  <2>4. CASE g = h /\ i >= p
    <3>1. /\ i \in 0 .. k /\ i + 1 \in 0 .. k /\ ~ (i < p) /\ ~ (i + 1 < p)
          /\ i + 1 \notin {p - 1, p}
      BY <1>2, <1>7, <2>4
    <3>2. nx2[A(h, i + 1)] = A(h, i + 1 + 1) /\ pv2[A(h, i + 1 + 1)] = A(h, i + 1)
      BY <1>18, <3>1 DEF k
    <3> QED BY <1>8, <2>4, <3>1, <3>2
  <2>5. i \in Nat
    BY <1>1, <1>2, <1>7
  <2> QED BY <1>2, <2>1, <2>2, <2>3, <2>4, <2>5
<1>20. ASSUME NEW f \in Heads, NEW g \in Heads, NEW i \in 0 .. Len(qs2[f]), NEW j \in 0 .. Len(qs2[g]),
              A2(f, i) = A2(g, j)
       PROVE  f = g /\ i = j
  <2> DEFINE Old(e, l) == IF e # h \/ l < p THEN l ELSE l + 1
  <2>1. \A e \in Heads : \A l \in 0 .. Len(qs2[e]) :
           Old(e, l) \in 0 .. Len(qs[e]) /\ A2(e, l) = A(e, Old(e, l))
    <3> SUFFICES ASSUME NEW e \in Heads, NEW l \in 0 .. Len(qs2[e])
                 PROVE  Old(e, l) \in 0 .. Len(qs[e]) /\ A2(e, l) = A(e, Old(e, l))
      OBVIOUS
    <3>1. CASE e # h
      BY <1>1, <1>7, <1>9, <3>1
    <3>2. CASE e = h
      <4>1. l \in 0 .. k /\ l <= k - 1 /\ Len(qs[e]) = k
        BY <1>2, <1>7, <3>2 DEF k
      <4>2. A2(h, l) = IF l < p THEN A(h, l) ELSE A(h, l + 1)
        BY <1>8, <4>1
      <4> QED
        BY <1>2, <3>2, <4>1, <4>2
    <3> QED
      BY <3>1, <3>2
  <2>2. f = g /\ Old(f, i) = Old(g, j)
    <3> HIDE DEF Old
    <3> QED BY <1>11, <1>20, <2>1
  <2>3. i \in Nat /\ j \in Nat
    BY <1>1, <1>2, <1>7
  <2> QED BY <1>2, <2>2, <2>3
<1>21. ASSUME NEW m \in Nodes
       PROVE  \/ nx2[m] \in {m, NULL}
              \/ \E g \in Heads : \E i \in 1 .. Len(qs2[g]) : qs2[g][i] = m
  <2>1. CASE m = n
    BY <1>16, <2>1
  <2>2. CASE m # n /\ nx[m] \in {m, NULL}
    <3>1. m # A(h, p - 1)
      <4>1. CASE p = 1
        BY <1>1, <4>1 DEF Structs
      <4>2. CASE p # 1
        <5>1. p - 1 \in 1 .. Len(qs[h])
          BY <1>2, <4>2 DEF k
        <5> QED BY <1>1, <2>2, <5>1
      <4> QED BY <4>1, <4>2
    <3> QED BY <1>16, <2>2, <3>1
  <2>3. ASSUME m # n, NEW g \in Heads, NEW i \in 1 .. Len(qs[g]), qs[g][i] = m
        PROVE  \E l \in 1 .. Len(qs2[g]) : qs2[g][l] = m
    <3>1. CASE g # h
      BY <1>7, <2>3, <3>1
    <3>2. CASE g = h /\ i < p
      <4>1. i \in 1 .. k - 1
        BY <1>2, <2>3, <3>2
      <4> QED BY <1>7, <2>3, <3>2, <4>1
    <3>3. CASE g = h /\ i > p
      <4>1. i - 1 \in 1 .. k - 1 /\ ~ (i - 1 < p) /\ (i - 1) + 1 = i
        BY <1>2, <2>3, <3>3 DEF k
      <4> QED BY <1>7, <2>3, <3>3, <4>1
    <3>4. g = h => i # p
      BY <2>3
    <3>5. i \in Nat
      BY <1>1
    <3> QED BY <1>2, <3>1, <3>2, <3>3, <3>4, <3>5
  <2> QED BY <1>12, <2>1, <2>2, <2>3
<1>22. Linked(nx2, pv2, qs2)
  BY <1>6, <1>16, <1>19, <1>20, <1>21 DEF Linked, A2
<1> QED BY <1>22 DEF nx2, pv2, qs2

\* The lists that the abstract specification sees.
LEMMA Seen ==
    ASSUME Structs, NEW qs, NEW qs2, Linked(next, prev, qs), Linked(next', prev', qs2)
    PROVE  /\ [h \in Heads |-> L!Walk(h)] = qs
           /\ [h \in Heads |-> L!Walk(h)]' = qs2
<1>1. qs \in [Heads -> Seq(Nodes)] /\ qs2 \in [Heads -> Seq(Nodes)]
  BY DEF Linked
<1>2. \A h \in Heads : L!Walk(h) = qs[h] /\ L!Walk(h)' = qs2[h]
  BY WalkIs
<1> QED BY <1>1, <1>2

\* LIST_ENQUEUE appends.
LEMMA EnqueueStep ==
    ASSUME Structs, NEW qs, Linked(next, prev, qs), NEW h \in Heads, NEW n \in Nodes,
           L!LIST_ENQUEUE(h, n)
    PROVE  LInv' /\ L!Abstract!Enqueue(h, n)
<1> DEFINE last == At(qs[h], h, Len(qs[h]))
           qs2 == [qs EXCEPT ![h] = Append(qs[h], n)]
<1>1. qs[h] \in Seq(Nodes) /\ Len(qs[h]) \in Nat
  BY DEF Linked
<1>2. L!LastFrom(h) = last
  BY <1>1, WalkIs DEF L!LastFrom, At
<1>3. next[n] \in {n, NULL}
  BY DEF L!LIST_ENQUEUE, L!Unlinked
<1>4. next' = [next EXCEPT ![last] = n, ![n] = h] /\ prev' = [prev EXCEPT ![n] = last, ![h] = n]
  BY <1>2 DEF L!LIST_ENQUEUE, L!LIST_ADD_TAIL
<1>5. Linked(next', prev', qs2)
  BY <1>3, <1>4, Enqueued
<1>6. qs2 \in [Heads -> Seq(Nodes)]
  BY <1>5 DEF Linked
<1>7. LInv'
  BY <1>5, <1>6 DEF LInv
<1>8. [g \in Heads |-> L!Walk(g)] = qs /\ [g \in Heads |-> L!Walk(g)]' = qs2
  BY <1>5, Seen
<1>9. ~ L!Abstract!On(n)
  <2>1. ASSUME NEW g \in Heads, NEW i \in 1 .. Len(qs[g]), qs[g][i] = n PROVE FALSE
    BY <1>3, <2>1, Places
  <2> QED BY <1>8, <2>1 DEF L!Abstract!On
<1>10. ret' = NULL
  BY DEF L!LIST_ENQUEUE
<1> QED BY <1>7, <1>8, <1>9, <1>10 DEF L!Abstract!Enqueue

\* LIST_DEL takes the node off its list.
LEMMA DeleteStep ==
    ASSUME Structs, NEW qs, Linked(next, prev, qs), NEW n \in Nodes, L!LIST_DEL(n)
    PROVE  LInv' /\ L!Abstract!Delete(n)
<1>1. PICK h \in Heads : \E i \in 1 .. Len(qs[h]) : qs[h][i] = n
  BY DEF Linked, L!LIST_DEL, L!Unlinked
<1>2. PICK p \in 1 .. Len(qs[h]) : qs[h][p] = n
  BY <1>1
<1> DEFINE qs2 == [qs EXCEPT ![h] = L!Abstract!Without(qs[h], p)]
<1>3. /\ next' = [next EXCEPT ![prev[n]] = next[n], ![n] = NULL]
      /\ prev' = [prev EXCEPT ![next[n]] = prev[n], ![n] = NULL]
  BY DEF L!LIST_DEL, L!Unlink
<1>4. Linked(next', prev', qs2)
  BY <1>2, <1>3, Deleted
<1>5. qs2 \in [Heads -> Seq(Nodes)]
  BY <1>4 DEF Linked
<1>6. LInv'
  BY <1>4, <1>5 DEF LInv
<1>7. [g \in Heads |-> L!Walk(g)] = qs /\ [g \in Heads |-> L!Walk(g)]' = qs2
  BY <1>4, Seen
<1>8. ret' = NULL
  BY DEF L!LIST_DEL
<1> QED BY <1>2, <1>6, <1>7, <1>8 DEF L!Abstract!Delete

\* LIST_DEQUEUE takes the first node, if there is one.
LEMMA DequeueStep ==
    ASSUME Structs, NEW qs, Linked(next, prev, qs), NEW h \in Heads, L!LIST_DEQUEUE(h)
    PROVE  LInv' /\ L!Abstract!Dequeue(h)
<1>1. qs \in [Heads -> Seq(Nodes)] /\ qs[h] \in Seq(Nodes) /\ Len(qs[h]) \in Nat
  BY DEF Linked
<1>2. next[h] = IF qs[h] = <<>> THEN h ELSE qs[h][1]
  <2>1. Round(next, h, qs[h])
    BY DEF Linked, Round
  <2>2. \A s \in Seq(Nodes) : Round(next, h, s) => next[h] = IF s = <<>> THEN h ELSE s[1]
    BY Ring
  <2> QED BY <1>1, <2>1, <2>2
<1>3. CASE qs[h] = <<>>
  <2>1. next' = next /\ prev' = prev /\ ret' = NULL
    BY <1>2, <1>3 DEF L!LIST_DEQUEUE
  <2>2. LInv'
    BY <1>1, <2>1 DEF LInv
  <2>3. [g \in Heads |-> L!Walk(g)] = qs /\ [g \in Heads |-> L!Walk(g)]' = qs
    BY <2>1, Seen
  <2>4. qs = [qs EXCEPT ![h] = <<>>]
    BY <1>1, <1>3
  <2> QED BY <1>3, <2>1, <2>2, <2>3, <2>4 DEF L!Abstract!Dequeue
<1>4. CASE qs[h] # <<>>
  <2> DEFINE n == qs[h][1]
             qs2 == [qs EXCEPT ![h] = L!Abstract!Without(qs[h], 1)]
  <2>1. 1 \in 1 .. Len(qs[h]) /\ n \in Nodes
    BY <1>1, <1>4
  <2>2. n # h
    BY <2>1 DEF Structs
  <2>3. /\ next' = [next EXCEPT ![prev[n]] = next[n], ![n] = NULL]
        /\ prev' = [prev EXCEPT ![next[n]] = prev[n], ![n] = NULL]
        /\ ret' = n
    BY <1>2, <1>4, <2>2 DEF L!LIST_DEQUEUE, L!Unlink
  <2>4. Linked(next', prev', qs2)
    BY <2>1, <2>3, Deleted
  <2>5. qs2 \in [Heads -> Seq(Nodes)]
    BY <2>4 DEF Linked
  <2>6. LInv'
    BY <2>4, <2>5 DEF LInv
  <2>7. [g \in Heads |-> L!Walk(g)] = qs /\ [g \in Heads |-> L!Walk(g)]' = qs2
    BY <2>4, Seen
  <2>8. L!Abstract!Without(qs[h], 1) = Tail(qs[h])
    <3> DEFINE s == qs[h]
               r == L!Abstract!Without(s, 1)
    <3>1. s \in Seq(Nodes) /\ Len(s) \in Nat /\ 1 \in 1 .. Len(s)
      BY <1>1, <2>1
    <3> HIDE DEF s
    <3>2. /\ r \in Seq(Nodes) /\ Len(r) = Len(s) - 1
          /\ \A i \in 1 .. Len(s) - 1 : r[i] = IF i < 1 THEN s[i] ELSE s[i + 1]
      BY <3>1, Shortened
    <3>3. Tail(s) \in Seq(Nodes) /\ Len(Tail(s)) = Len(s) - 1
      BY <3>1
    <3>4. \A i \in 1 .. Len(s) - 1 : Tail(s)[i] = s[i + 1]
      BY <3>1, <3>3
    <3> HIDE DEF r
    <3>5. \A i \in 1 .. Len(r) : r[i] = Tail(s)[i]
      BY <3>1, <3>2, <3>4
    <3>6. r = Tail(s)
      BY <3>2, <3>3, <3>5
    <3> QED BY <3>6 DEF r, s
  <2>9. n = Head(qs[h])
    BY <1>1, <1>4
  <2> QED BY <1>4, <2>3, <2>6, <2>7, <2>8, <2>9 DEF L!Abstract!Dequeue
<1> QED BY <1>3, <1>4

\* The macros of lib/list.h implement queues, for any lists and nodes: a walk
\* along next from a head is the queue, LIST_ENQUEUE appends to it, LIST_DEQUEUE
\* takes its first node and LIST_DEL any node of it, and no operation disturbs
\* another list.
THEOREM ListsAreQueues == ASSUME Structs PROVE L!Spec => Refines
<1>1. ASSUME L!Init PROVE LInv /\ L!Abstract!Init
  <2> DEFINE qs == [h \in Heads |-> <<>>]
  <2>1. qs \in [Heads -> Seq(Nodes)] /\ \A h \in Heads : Len(qs[h]) = 0 /\ \A i : At(qs[h], h, i) = h
    BY DEF At
  <2>2. \A x \in Heads \cup Nodes : next[x] = x /\ prev[x] = x
    BY <1>1 DEF L!Init
  <2>3. /\ next \in [Heads \cup Nodes -> Heads \cup Nodes \cup {NULL}]
        /\ prev \in [Heads \cup Nodes -> Heads \cup Nodes \cup {NULL}]
    BY <1>1 DEF L!Init
  <2>4. Linked(next, prev, qs)
    <3> HIDE DEF qs
    <3> QED BY <2>1, <2>2, <2>3 DEF Linked
  <2>5. [h \in Heads |-> L!Walk(h)] = qs
    BY <2>1, <2>4, WalkIs
  <2> QED BY <1>1, <2>1, <2>4, <2>5 DEF LInv, L!Init, L!Abstract!Init
<1>2. ASSUME LInv, [L!Next]_(L!vars) PROVE LInv' /\ [L!Abstract!Next]_(L!Abstract!vars)
  <2>1. PICK qs \in [Heads -> Seq(Nodes)] : Linked(next, prev, qs)
    BY <1>2 DEF LInv
  <2>2. CASE \E h \in Heads, n \in Nodes : L!LIST_ENQUEUE(h, n)
    BY <2>1, <2>2, EnqueueStep DEF L!Abstract!Next
  <2>3. CASE \E h \in Heads : L!LIST_DEQUEUE(h)
    BY <2>1, <2>3, DequeueStep DEF L!Abstract!Next
  <2>4. CASE \E n \in Nodes : L!LIST_DEL(n)
    BY <2>1, <2>4, DeleteStep DEF L!Abstract!Next
  <2>5. CASE UNCHANGED L!vars
    <3>1. next' = next /\ prev' = prev /\ ret' = ret
      BY <2>5 DEF L!vars
    <3>2. [h \in Heads |-> L!Walk(h)]' = [h \in Heads |-> L!Walk(h)]
      BY <2>1, <3>1, Seen
    <3> QED BY <2>1, <3>1, <3>2 DEF LInv, L!Abstract!vars
  <2> QED BY <1>2, <2>2, <2>3, <2>4, <2>5 DEF L!Next
<1> QED BY <1>1, <1>2, PTL DEF L!Spec, Refines, L!Refines, L!Abstract!Spec
=============================================================================
