--------------------------- MODULE KeyboardProofs ---------------------------
(***************************************************************************)
(* NoPhantom and Fifo for a ring of any size and any number of scan codes. *)
(***************************************************************************)
EXTENDS Keyboard, TLAPS

\* A number is the quotient times the divisor, and a remainder below it.
LEMMA Division ==
    ASSUME NEW K \in Nat \ {0}, NEW a \in Nat
    PROVE  a \div K \in Nat /\ a % K \in 0 .. K - 1 /\ a = K * (a \div K) + (a % K)
<1>1. a = K * (a \div K) + (a % K)
  BY Z3
<1>2. a % K \in 0 .. K - 1
  OBVIOUS
<1>3. a \div K \in Nat
  OBVIOUS
<1> QED
  BY <1>1, <1>2, <1>3

\* The next multiple is at least K away.
LEMMA Multiples ==
    ASSUME NEW K \in Nat \ {0}, NEW q \in Nat, NEW p \in Nat, q < p
    PROVE  K * q + K <= K * p
OBVIOUS

\* Quotient and remainder are determined.
LEMMA Unique ==
    ASSUME NEW K \in Nat \ {0}, NEW q \in Nat, NEW p \in Nat,
           NEW r \in 0 .. K - 1, NEW s \in 0 .. K - 1, K * q + r = K * p + s
    PROVE  q = p /\ r = s
<1>1. ~ (q < p)
  BY Multiples
<1>2. ~ (p < q)
  BY Multiples
<1> QED
  BY <1>1, <1>2

\* The index that wraps at K stays the number of steps modulo K.
LEMMA RingStep ==
    ASSUME NEW K \in Nat \ {0}, NEW a \in Nat
    PROVE  (a + 1) % K = ((a % K) + 1) % K
<1> DEFINE b == a + 1
           q == a \div K
           r == a % K
           p == b \div K
           s == b % K
<1>1. q \in Nat /\ r \in 0 .. K - 1 /\ a = K * q + r
  BY Division
<1>2. b \in Nat /\ b = a + 1
  OBVIOUS
<1> HIDE DEF b
<1>3. p \in Nat /\ s \in 0 .. K - 1 /\ b = K * p + s
  BY <1>2, Division
<1> HIDE DEF q, r, p, s
<1>4. CASE r = K - 1
  <2>1. K * (q + 1) + 0 = K * p + s
    BY <1>1, <1>2, <1>3, <1>4
  <2>2. s = 0
    BY <1>1, <1>3, <2>1, Unique
  <2>3. K % K = 0
    OBVIOUS
  <2> QED
    BY <1>4, <2>2, <2>3 DEF b, r, s
<1>5. CASE r # K - 1
  <2>1. K * q + (r + 1) = K * p + s /\ r + 1 \in 0 .. K - 1
    BY <1>1, <1>2, <1>3, <1>5
  <2>2. s = r + 1
    BY <1>1, <1>3, <2>1, Unique
  <2>3. (r + 1) % K = r + 1
    BY <2>1
  <2> QED
    BY <2>2, <2>3 DEF b, r, s
<1> QED
  BY <1>4, <1>5

\* Fewer than K steps apart are different places of the ring.
LEMMA RingApart ==
    ASSUME NEW K \in Nat \ {0}, NEW a \in Nat, NEW b \in Nat, a < b, b - a < K
    PROVE  a % K # b % K
<1> DEFINE q == a \div K
           r == a % K
           p == b \div K
           s == b % K
<1>1. q \in Nat /\ r \in 0 .. K - 1 /\ a = K * q + r
  BY Division
<1>2. p \in Nat /\ s \in 0 .. K - 1 /\ b = K * p + s
  BY Division
<1> HIDE DEF q, r, p, s
<1>3. ASSUME r = s PROVE FALSE
  <2>1. K * q < K * p
    BY <1>1, <1>2, <1>3
  <2>2. ~ (p < q)
    BY <1>1, <1>2, <2>1, Multiples
  <2>3. p # q
    BY <1>1, <1>2, <2>1
  <2>4. K * q + K <= K * p
    BY <1>1, <1>2, <2>2, <2>3, Multiples
  <2> QED
    BY <1>1, <1>2, <1>3, <2>4
<1> QED
  BY <1>3 DEF r, s

\* What the steps of get_byte_from_kbuf keep: a byte that was counted stays
\* counted until the reader stores count, and the register holds a count that
\* the handler can only have raised since.
IInv ==
    /\ count \in Nat /\ stored \in Nat /\ taken \in Nat /\ reg \in Nat
    /\ count <= KEYBOARD_IN_BYTES
    /\ pc \in {"mask", "take", "load"} => count > 0
    /\ pc = "store" => 0 < reg /\ reg <= count
    /\ NoPhantom

\* Every step keeps IInv: the interrupt raises count and stored together, and
\* the store of count-- writes at most count - 1.
LEMMA NextInv == IInv /\ [Next]_vars => IInv'
<1> SUFFICES ASSUME IInv, [Next]_vars PROVE IInv'
  OBVIOUS
<1> USE KeyboardAssumption DEF IInv, NoPhantom, ring
<1>1. CASE keyboard_handler
  <2>1. CASE count >= KEYBOARD_IN_BYTES
    BY <1>1, <2>1 DEF keyboard_handler
  <2>2. CASE ~ (count >= KEYBOARD_IN_BYTES)
    BY <1>1, <2>2 DEF keyboard_handler
  <2> QED
    BY <2>1, <2>2
<1>2. CASE get_byte_test
  BY <1>2 DEF get_byte_test
<1>3. CASE get_byte_mask
  BY <1>3 DEF get_byte_mask
<1>4. CASE get_byte_take
  BY <1>4 DEF get_byte_take
<1>5. CASE get_byte_load
  BY <1>5 DEF get_byte_load
<1>6. CASE get_byte_store
  BY <1>6 DEF get_byte_store
<1>7. CASE get_byte_unmask
  BY <1>7 DEF get_byte_unmask
<1>8. CASE UNCHANGED vars
  BY <1>8 DEF vars
<1> QED
  BY <1>1, <1>2, <1>3, <1>4, <1>5, <1>6, <1>7, <1>8
     DEF Next, get_byte_from_kbuf

\* The count of the ring never exceeds the bytes that wait in it (keyboard.c:
\* kb_buf.count), although disable_irq_n does not keep the handler away.
THEOREM CountsArrived == Spec => []NoPhantom
<1>1. Init => IInv
  BY KeyboardAssumption DEF Init, IInv, NoPhantom
<1>2. IInv => NoPhantom
  BY DEF IInv
<1> QED
  BY <1>1, <1>2, NextInv, PTL DEF Spec

-----------------------------------------------------------------------------
(* The order of the bytes *)

\* The bytes that tail has passed.
Passed == IF pc \in {"load", "store"} THEN taken + 1 ELSE taken

\* The indices count modulo the size, and a byte that waits is in its place.
PlaceInv ==
    /\ data \in [Slot -> Nat] /\ over \in BOOLEAN
    /\ head = stored % KEYBOARD_IN_BYTES
    /\ tail = Passed % KEYBOARD_IN_BYTES
    /\ ~ over => /\ stored - taken <= KEYBOARD_IN_BYTES
                 /\ \A k \in Nat : taken < k + 1 /\ k + 1 <= stored
                                     => data[k % KEYBOARD_IN_BYTES] = k + 1
                 /\ Fifo

\* The interrupt puts the byte where no byte waits.
LEMMA PutPlace == ASSUME IInv, PlaceInv, keyboard_handler PROVE PlaceInv'
<1> DEFINE K == KEYBOARD_IN_BYTES
<1>0. K \in Nat \ {0} /\ stored \in Nat /\ taken \in Nat
  BY KeyboardAssumption DEF IInv
<1>1. UNCHANGED <<tail, taken, pc, scan_code>>
  BY DEF keyboard_handler
<1>2. CASE UNCHANGED <<data, head, stored, over>>
  BY <1>1, <1>2 DEF PlaceInv, Passed, Fifo
<1>3. CASE /\ data' = [data EXCEPT ![head] = stored + 1]
           /\ head' = Succ(head)
           /\ stored' = stored + 1
           /\ over' = (over \/ stored - taken >= K)
  <2>1. head' = stored' % K
    BY <1>0, <1>3, RingStep DEF PlaceInv, Succ
  <2>2. stored + 1 \in Nat /\ data \in [Slot -> Nat]
    BY <1>0 DEF PlaceInv
  <2>3. data' \in [Slot -> Nat]
    BY <1>3, <2>2
  <2>4. head \in Slot
    BY <1>0, Division DEF PlaceInv, Slot
  <2>5. ASSUME ~ over' PROVE ~ over /\ ~ (stored - taken >= K)
    BY <1>3, <2>5, Zenon
  <2>6. ASSUME ~ over', NEW k \in Nat, taken' < k + 1, k + 1 <= stored'
        PROVE  data'[k % K] = k + 1
    <3>1. ~ over /\ stored - taken < K
      BY <1>0, <2>5, <2>6
    <3>2. k % K \in Slot
      BY <1>0, Division DEF Slot
    <3>3. CASE k = stored
      BY <1>0, <1>3, <2>2, <2>4, <3>3 DEF PlaceInv
    <3>4. CASE k # stored
      <4>1. k < stored /\ stored - k < K /\ taken < k + 1 /\ k + 1 <= stored
        BY <1>0, <1>1, <1>3, <2>6, <3>1, <3>4
      <4>2. k % K # stored % K
        BY <1>0, <4>1, RingApart
      <4>3. data[k % K] = k + 1
        BY <3>1, <4>1 DEF PlaceInv
      <4> QED
        BY <1>3, <2>2, <3>2, <4>2, <4>3 DEF PlaceInv
    <3> QED
      BY <3>3, <3>4
  <2>7. ~ over' => stored' - taken' <= K
    BY <1>0, <1>1, <1>3, <2>5
  <2>8. over' \in BOOLEAN
    BY <1>3, Zenon
  <2> QED
    BY <1>1, <2>1, <2>3, <2>5, <2>6, <2>7, <2>8 DEF PlaceInv, Passed, Fifo
<1> QED
  BY <1>2, <1>3 DEF keyboard_handler

\* The byte that [ttyd] takes is the oldest one.
LEMMA TakePlace == ASSUME IInv, PlaceInv, get_byte_take PROVE PlaceInv'
<1> DEFINE K == KEYBOARD_IN_BYTES
<1>0. K \in Nat \ {0} /\ stored \in Nat /\ taken \in Nat /\ taken + 1 <= stored
  BY KeyboardAssumption DEF IInv, NoPhantom, get_byte_take
<1>1. /\ pc = "take" /\ pc' = "load" /\ scan_code' = data[tail] /\ tail' = Succ(tail)
      /\ UNCHANGED <<data, head, stored, taken, over>>
  BY DEF get_byte_take
<1>2. Passed = taken /\ Passed' = taken + 1
  BY <1>1 DEF Passed
<1>3. tail' = Passed' % K
  BY <1>0, <1>1, <1>2, RingStep DEF PlaceInv, Succ
<1>4. ~ over => data[taken % K] = taken + 1
  BY <1>0 DEF PlaceInv
<1>5. ~ over' => Fifo'
  BY <1>1, <1>2, <1>4 DEF PlaceInv, Fifo
<1> QED
  BY <1>1, <1>3, <1>5 DEF PlaceInv

\* Every step keeps the places.
LEMMA NextPlace == IInv /\ PlaceInv /\ [Next]_vars => PlaceInv'
<1> SUFFICES ASSUME IInv, PlaceInv, [Next]_vars PROVE PlaceInv'
  OBVIOUS
<1>0. stored \in Nat /\ taken \in Nat
  BY DEF IInv
<1>1. CASE keyboard_handler
  BY <1>1, PutPlace
<1>2. CASE get_byte_test
  BY <1>2 DEF get_byte_test, ring, PlaceInv, Passed, Fifo
<1>3. CASE get_byte_mask
  BY <1>3 DEF get_byte_mask, ring, PlaceInv, Passed, Fifo
<1>4. CASE get_byte_take
  BY <1>4, TakePlace
<1>5. CASE get_byte_load
  BY <1>5 DEF get_byte_load, ring, PlaceInv, Passed, Fifo
<1>6. CASE get_byte_store
  <2>1. /\ pc = "store" /\ pc' = "unmask" /\ taken' = taken + 1
        /\ UNCHANGED <<data, head, tail, stored, over, scan_code>>
    BY <1>6 DEF get_byte_store
  <2>2. Passed' = Passed
    BY <2>1 DEF Passed
  <2>3. ~ over => scan_code = taken + 1
    BY <2>1 DEF PlaceInv, Fifo
  <2>4. ~ over' => Fifo'
    BY <2>1, <2>3 DEF Fifo
  <2>5. ~ over' => stored' - taken' <= KEYBOARD_IN_BYTES
    BY <1>0, <2>1, KeyboardAssumption DEF PlaceInv
  <2>6. ~ over' => \A k \in Nat : taken' < k + 1 /\ k + 1 <= stored'
                                    => data'[k % KEYBOARD_IN_BYTES] = k + 1
    BY <1>0, <2>1 DEF PlaceInv
  <2> QED
    BY <2>1, <2>2, <2>4, <2>5, <2>6 DEF PlaceInv
<1>7. CASE get_byte_unmask
  BY <1>7 DEF get_byte_unmask, ring, PlaceInv, Passed, Fifo
<1>8. CASE UNCHANGED vars
  BY <1>8 DEF vars, ring, PlaceInv, Passed, Fifo
<1> QED
  BY <1>1, <1>2, <1>3, <1>4, <1>5, <1>6, <1>7, <1>8
     DEF Next, get_byte_from_kbuf

\* [ttyd] gets the scan codes in the order of their arrival and each one once,
\* until the handler has written over one that waits (keyboard.c:27), for a
\* ring of any size.
THEOREM InOrder == Spec => []Fifo
<1>1. Init => IInv
  BY KeyboardAssumption DEF Init, IInv, NoPhantom
<1>2. ASSUME Init PROVE PlaceInv
  <2>1. 0 % KEYBOARD_IN_BYTES = 0
    BY KeyboardAssumption
  <2>2. data \in [Slot -> Nat] /\ head = 0 /\ tail = 0 /\ stored = 0 /\ taken = 0
    BY <1>2 DEF Init
  <2>3. Passed = 0 /\ Fifo
    BY <1>2 DEF Init, Passed, Fifo
  <2>4. over \in BOOLEAN
    BY <1>2 DEF Init
  <2>5. stored - taken <= KEYBOARD_IN_BYTES
    BY <2>2, KeyboardAssumption
  <2> QED
    BY <2>1, <2>2, <2>3, <2>4, <2>5 DEF PlaceInv
<1>3. PlaceInv => Fifo
  BY DEF PlaceInv, Fifo
<1> QED
  BY <1>1, <1>2, <1>3, NextInv, NextPlace, PTL DEF Spec
=============================================================================
