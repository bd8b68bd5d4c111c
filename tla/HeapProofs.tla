----------------------------- MODULE HeapProofs -----------------------------
(***************************************************************************)
(* Proofs about Heap as MCMem instantiates it: blocks never overlap, and   *)
(* the counter of a page is the number of its users.                       *)
(***************************************************************************)
EXTENDS MCMem, TLAPS

\* A header fits into a page, and kmemalign refuses a size of 0.  m bytes are
\* the least that is asked for: a page has room for fewer blocks than a byte
\* can count.
HeapSizes(m) ==
    /\ PAGE_SIZE \in Nat \ {0} /\ HDR \in Nat \ {0} /\ NR_PAGES \in Nat \ {0} /\ BYTE \in Nat \ {0}
    /\ HDR < PAGE_SIZE
    /\ m \in Nat \ {0}
    /\ \A r \in Requests : r[1] \in Nat /\ r[2] \in Nat /\ r[2] >= m
    /\ (PAGE_SIZE - 1) \div (HDR + m) + 3 < BYTE

HType ==
    /\ blk \in SUBSET (0 .. H!end) /\ H!heap \in blk /\ H!end \in blk
    /\ size \in [blk -> Nat]
    /\ prev \in [blk -> blk] /\ next \in [blk -> blk]
    /\ counts \in [H!PageNo -> 0 .. BYTE - 1]
    /\ upages \in SUBSET H!PageNo
    /\ pc \in {"idle", "search", "loop", "link", "obtain", "unlink"}
    /\ align \in Nat /\ req \in Nat /\ saddr \in Nat /\ eaddr \in Nat
    /\ block \in blk

\* The blocks, and the block that the call in progress is about.
Blocks(m) ==
    /\ size[H!heap] = 0 /\ size[H!end] = 0
    /\ \A b \in blk \ {H!heap, H!end} : size[b] >= m
    /\ \A b \in blk : prev[next[b]] = b /\ next[prev[b]] = b
    /\ pc \in {"search", "loop", "link"} => req >= m
    /\ pc = "obtain" => saddr \in blk \ {H!heap, H!end}
    /\ pc = "unlink" => block \in blk \ {H!heap, H!end}

\* The block on the list whose pages are not counted: kmemalign has not counted
\* them yet, kfree does not count them any more.
Pending == IF pc = "obtain" THEN {saddr} ELSE IF pc = "unlink" THEN {block} ELSE {}

On(p) == {b \in blk \ {H!end} : p \in H!PagesOf(b)}

Counted ==
    \A p \in H!PageNo : counts[p] = Cardinality(On(p) \ Pending) + Cardinality({p} \cap upages)

\* Where the space behind block b ends; a block may reach over "end".
Limit(b) == IF next[b] = H!end THEN H!Top ELSE next[b]

\* The pages behind that of saddr and up to e have no user.
Free(e) ==
    \A p \in 0 .. NR_PAGES - 1 : H!Page(saddr) < p /\ p * PAGE_SIZE < e => counts[p] = 0

Searching ==
    pc = "loop" => /\ block # H!end
                   /\ H!BLOCK_END(block) <= saddr
                   /\ eaddr <= Limit(block)
                   /\ saddr <= eaddr /\ ~ H!AtNext => \E k \in Nat : eaddr = k * PAGE_SIZE
                   /\ Free(eaddr)

Found ==
    pc = "link" => /\ block # H!end
                   /\ H!BLOCK_END(block) <= saddr
                   /\ saddr + HDR + req <= Limit(block)
                   /\ Free(saddr + HDR + req)

\* The pages of the blocks that are counted and of tasks have users.
HasUsers ==
    \A p \in H!PageNo :
        /\ \A b \in blk \ {H!end} : b \notin Pending /\ p \in H!PagesOf(b) => counts[p] > 0
        /\ p \in upages => counts[p] > 0
        /\ counts[p] = 0 => On(p) \ Pending = {} /\ p \notin upages

\* A page has fewer blocks than a byte can count.
Small ==
    \A p \in H!PageNo :
        IsFiniteSet(On(p)) /\ Cardinality(On(p)) \in Nat /\ Cardinality(On(p)) + 1 < BYTE

\* How the two summands of a counter change.
Sums ==
    \A S, U, p :
        /\ Cardinality({p} \cap U) = IF p \in U THEN 1 ELSE 0
        /\ IsFiniteSet(S) =>
              /\ Cardinality(S) \in Nat
              /\ \A x \in S : Cardinality(S \ {x}) = Cardinality(S) - 1 /\ Cardinality(S) > 0

HInv(m) == HType /\ Blocks(m) /\ Counted /\ Searching /\ Found /\ MemoryApart

-----------------------------------------------------------------------------
(* Pages and addresses *)

\* A number is the quotient times the divisor, and a remainder below it.
LEMMA Division ==
    ASSUME NEW K \in Nat \ {0}, NEW a \in Nat
    PROVE  a \div K \in Nat /\ a % K \in 0 .. K - 1 /\ a = K * (a \div K) + (a % K)
<1>1. a = K * (a \div K) + (a % K)
  BY Z3
<1>2. a % K \in 0 .. K - 1
  OBVIOUS
<1>3. a \div K \in Nat
  OBVIOUS
<1> QED
  BY <1>1, <1>2, <1>3

\* The next multiple is at least K away.
LEMMA Multiples ==
    ASSUME NEW K \in Nat \ {0}, NEW q \in Nat, NEW p \in Nat, q < p
    PROVE  K * q + K <= K * p
OBVIOUS

\* Pages and the addresses in them.
LEMMA PageOf ==
    ASSUME NEW m, HeapSizes(m), NEW a \in Nat
    PROVE  H!Page(a) \in Nat /\ H!Page(a) * PAGE_SIZE <= a /\ a < H!Page(a) * PAGE_SIZE + PAGE_SIZE
<1> DEFINE q == a \div PAGE_SIZE
           r == a % PAGE_SIZE
<1>1. PAGE_SIZE \in Nat \ {0}
  BY DEF HeapSizes
<1>2. q \in Nat /\ r \in 0 .. PAGE_SIZE - 1 /\ a = PAGE_SIZE * q + r
  BY <1>1, Division
<1> HIDE DEF q, r
<1>3. q * PAGE_SIZE = PAGE_SIZE * q /\ PAGE_SIZE * q \in Nat
  BY <1>1, <1>2
<1>4. q * PAGE_SIZE <= a /\ a < q * PAGE_SIZE + PAGE_SIZE
  BY <1>1, <1>2, <1>3
<1> QED BY <1>2, <1>4 DEF q, H!Page

\* Pages begin PAGE_SIZE apart.
LEMMA PageOrder ==
    ASSUME NEW m, HeapSizes(m), NEW p \in Nat, NEW q \in Nat
    PROVE  /\ p * PAGE_SIZE \in Nat /\ (p + 1) * PAGE_SIZE = p * PAGE_SIZE + PAGE_SIZE
           /\ p < q => p * PAGE_SIZE + PAGE_SIZE <= q * PAGE_SIZE
           /\ p <= q => p * PAGE_SIZE <= q * PAGE_SIZE
<1>1. PAGE_SIZE \in Nat \ {0}
  BY DEF HeapSizes
<1>2. p * PAGE_SIZE = PAGE_SIZE * p /\ q * PAGE_SIZE = PAGE_SIZE * q /\ PAGE_SIZE * p \in Nat /\ PAGE_SIZE * q \in Nat
  BY <1>1
<1>3. p < q => PAGE_SIZE * p + PAGE_SIZE <= PAGE_SIZE * q
  BY <1>1, Multiples
<1>4. (p + 1) * PAGE_SIZE = p * PAGE_SIZE + PAGE_SIZE
  BY <1>1
<1>5. p = q \/ p < q \/ q < p
  OBVIOUS
<1>6. p <= q => p * PAGE_SIZE <= q * PAGE_SIZE
  BY <1>1, <1>2, <1>3, <1>5
<1> QED BY <1>1, <1>2, <1>3, <1>4, <1>6

\* An address is in the page whose bounds it lies between.
LEMMA PageIs ==
    ASSUME NEW m, HeapSizes(m), NEW p \in Nat, NEW a \in Nat,
           p * PAGE_SIZE <= a, a < p * PAGE_SIZE + PAGE_SIZE
    PROVE  H!Page(a) = p
<1> DEFINE q == H!Page(a)
<1>1. PAGE_SIZE \in Nat \ {0}
  BY DEF HeapSizes
<1>2. q \in Nat /\ q * PAGE_SIZE <= a /\ a < q * PAGE_SIZE + PAGE_SIZE
  BY PageOf
<1> HIDE DEF q
<1>3. /\ q * PAGE_SIZE \in Nat /\ p * PAGE_SIZE \in Nat
      /\ p < q => p * PAGE_SIZE + PAGE_SIZE <= q * PAGE_SIZE
      /\ q < p => q * PAGE_SIZE + PAGE_SIZE <= p * PAGE_SIZE
  BY <1>2, PageOrder
<1>4. ~ (p < q) /\ ~ (q < p)
  BY <1>1, <1>2, <1>3
<1> QED BY <1>2, <1>4 DEF q

\* Rounding up to whole pages: a page begins before the end of a block if it
\* begins before the end of the last page of the block.
LEMMA CeilPage ==
    ASSUME NEW m, HeapSizes(m), NEW e \in Nat, NEW p \in Nat
    PROVE  p * PAGE_SIZE < H!ALIGN_CEIL(e, PAGE_SIZE) <=> p * PAGE_SIZE < e
<1> DEFINE c == e + PAGE_SIZE - 1
           q == c \div PAGE_SIZE
<1>1. PAGE_SIZE \in Nat \ {0}
  BY DEF HeapSizes
<1>2. c \in Nat
  BY <1>1
<1>3. q \in Nat /\ q * PAGE_SIZE <= c /\ c < q * PAGE_SIZE + PAGE_SIZE
  BY <1>2, PageOf DEF H!Page
<1> HIDE DEF q
<1>4. /\ q * PAGE_SIZE \in Nat /\ p * PAGE_SIZE \in Nat
      /\ p < q => p * PAGE_SIZE + PAGE_SIZE <= q * PAGE_SIZE
      /\ q <= p => q * PAGE_SIZE <= p * PAGE_SIZE
  BY <1>3, PageOrder
<1>5. p * PAGE_SIZE < q * PAGE_SIZE <=> p * PAGE_SIZE < e
  BY <1>1, <1>2, <1>3, <1>4
<1>6. H!ALIGN_CEIL(e, PAGE_SIZE) = q * PAGE_SIZE
  BY DEF H!ALIGN_CEIL, q
<1> QED BY <1>5, <1>6

\* The loops over the pages of a block stop at its end.
LEMMA PagesAre ==
    ASSUME NEW m, HeapSizes(m), NEW b \in Nat, NEW p \in Nat, H!BLOCK_END(b) \in Nat
    PROVE  p \in H!PagesOf(b) <=> /\ p \in 0 .. NR_PAGES - 1
                                  /\ H!Page(b) <= p
                                  /\ p * PAGE_SIZE < H!BLOCK_END(b)
BY CeilPage DEF H!PagesOf

\* The type of what the definitions of Heap compute.
LEMMA HeapTypes ==
    ASSUME NEW m, HeapSizes(m), HType
    PROVE  /\ H!Top \in Nat /\ H!end \in Nat /\ H!heap = 0 /\ H!end = H!Top - HDR /\ H!end > 0
           /\ blk \in SUBSET Nat
           /\ \A b \in blk : b <= H!end /\ H!BLOCK_END(b) \in Nat /\ H!BLOCK_END(b) = b + HDR + size[b]
           /\ H!Top = NR_PAGES * PAGE_SIZE
<1>1. /\ PAGE_SIZE \in Nat \ {0} /\ NR_PAGES \in Nat \ {0} /\ HDR \in Nat /\ HDR < PAGE_SIZE
  BY DEF HeapSizes
<1>2. 1 * PAGE_SIZE <= NR_PAGES * PAGE_SIZE /\ NR_PAGES * PAGE_SIZE \in Nat
  BY <1>1, PageOrder
<1>3. H!Top \in Nat /\ H!end \in Nat /\ H!heap = 0 /\ H!end = H!Top - HDR /\ H!end > 0 /\ H!Top = NR_PAGES * PAGE_SIZE
  BY <1>1, <1>2 DEF H!Top, H!end, H!heap
<1>4. ASSUME NEW b \in blk
      PROVE  b \in Nat /\ b <= H!end /\ H!BLOCK_END(b) \in Nat /\ H!BLOCK_END(b) = b + HDR + size[b]
  <2>1. b \in Nat /\ b <= H!end /\ size[b] \in Nat
    BY <1>3 DEF HType
  <2> QED BY <1>1, <2>1 DEF H!BLOCK_END
<1> QED BY <1>3, <1>4

\* A block is on the page where it begins.
LEMMA FirstPage ==
    ASSUME NEW m, HeapSizes(m), HType, NEW b \in blk
    PROVE  /\ H!Page(b) \in 0 .. NR_PAGES - 1
           /\ H!Page(b) \in H!PagesOf(b)
<1>1. /\ PAGE_SIZE \in Nat \ {0} /\ NR_PAGES \in Nat \ {0} /\ HDR \in Nat \ {0}
  BY DEF HeapSizes
<1>2. /\ b \in Nat /\ b <= H!end /\ H!end = H!Top - HDR /\ H!Top \in Nat /\ H!Top = NR_PAGES * PAGE_SIZE
      /\ H!BLOCK_END(b) \in Nat /\ H!BLOCK_END(b) = b + HDR + size[b] /\ size[b] \in Nat
  BY HeapTypes DEF HType
<1>3. H!Page(b) \in Nat /\ H!Page(b) * PAGE_SIZE <= b /\ b < H!Page(b) * PAGE_SIZE + PAGE_SIZE
  BY <1>2, PageOf
<1>4. H!Page(b) * PAGE_SIZE \in Nat /\ (NR_PAGES <= H!Page(b) => NR_PAGES * PAGE_SIZE <= H!Page(b) * PAGE_SIZE)
  BY <1>1, <1>3, PageOrder
<1> DEFINE x == H!Page(b) * PAGE_SIZE
<1>5. ~ (NR_PAGES <= H!Page(b)) /\ x < H!BLOCK_END(b)
  <2> HIDE DEF x
  <2> QED BY <1>1, <1>2, <1>3, <1>4 DEF x
<1>6. H!Page(b) \in 0 .. NR_PAGES - 1
  BY <1>1, <1>3, <1>5
<1> QED BY <1>2, <1>3, <1>5, <1>6, PagesAre

-----------------------------------------------------------------------------
(* The steps that do not count *)

\* An operation that leaves the list alone.
LEMMA ListKept ==
    ASSUME UNCHANGED H!list
    PROVE  /\ H!BlocksApart' = H!BlocksApart
           /\ \A p : On(p)' = On(p)
           /\ \A b : H!BLOCK_END(b)' = H!BLOCK_END(b) /\ H!PagesOf(b)' = H!PagesOf(b)
<1>1. blk' = blk /\ size' = size /\ next' = next /\ prev' = prev
  BY DEF H!list
<1>2. \A b : H!BLOCK_END(b)' = H!BLOCK_END(b)
  BY <1>1 DEF H!BLOCK_END
<1>3. \A b : H!PagesOf(b)' = H!PagesOf(b)
  BY <1>2 DEF H!PagesOf
<1>4. \A p : On(p)' = On(p)
  BY <1>1, <1>3 DEF On
<1>5. H!BlocksApart' = H!BlocksApart
  BY <1>1, <1>2, Zenon DEF H!BlocksApart
<1> QED BY <1>2, <1>3, <1>4, <1>5

\* What a step of a search for free space leaves true.
LEMMA Keeps ==
    ASSUME NEW m, HInv(m), UNCHANGED <<H!list, counts, upages>>,
           pc \notin {"obtain", "unlink"}, pc' \in {"idle", "search", "loop", "link"},
           align' \in Nat, req' \in Nat, saddr' \in Nat, eaddr' \in Nat, block' \in blk,
           pc' = "idle" \/ req' >= m
    PROVE  HType' /\ Blocks(m)' /\ Counted' /\ MemoryApart'
<1>1. blk' = blk /\ size' = size /\ next' = next /\ prev' = prev /\ counts' = counts /\ upages' = upages
  BY DEF H!list
<1>2. HType'
  BY <1>1 DEF HInv, HType, H!PageNo, H!Stray, H!heap, H!end, H!Top
<1>3. Blocks(m)'
  BY <1>1 DEF HInv, Blocks, H!heap, H!end, H!Top
<1>4. UNCHANGED H!list
  OBVIOUS
<1>5. Pending = {} /\ Pending' = {}
  BY DEF Pending
<1>6. Counted'
  BY <1>1, <1>4, <1>5, ListKept DEF HInv, Counted, H!PageNo, H!Stray
<1>7. H!BlocksApart' /\ H!SharedOnlyFirst'
  <2>1. H!BlocksApart'
    BY <1>4, ListKept DEF HInv, MemoryApart, H!MemoryApart
  <2>2. \A b : H!PagesOf(b)' = H!PagesOf(b)
    BY <1>4, ListKept
  <2>3. H!SharedOnlyFirst'
    BY <1>1, <2>2 DEF HInv, MemoryApart, H!MemoryApart, H!SharedOnlyFirst, H!heap, H!end, H!Top, H!Page
  <2> QED BY <2>1, <2>3
<1> QED BY <1>2, <1>3, <1>6, <1>7 DEF MemoryApart, H!MemoryApart

\* The block before the free space.
LEMMA Before ==
    ASSUME NEW m, HeapSizes(m), HInv(m), block # H!end
    PROVE  /\ block \in blk /\ block \in Nat /\ next[block] \in blk /\ next[block] \in Nat
           /\ H!BLOCK_END(block) \in Nat
           /\ block < next[block] /\ next[block] <= H!end
           /\ H!end <= H!Top /\ H!Top \in Nat /\ H!end \in Nat /\ HDR \in Nat \ {0} /\ PAGE_SIZE \in Nat \ {0}
           /\ H!Top = NR_PAGES * PAGE_SIZE /\ NR_PAGES \in Nat \ {0}
           /\ Limit(block) \in Nat /\ next[block] <= Limit(block) /\ Limit(block) <= H!Top
           /\ next[block] # H!end => Limit(block) = next[block]
           /\ next[block] = H!end => Limit(block) = H!Top
<1>1. HType /\ H!BlocksApart
  BY DEF HInv, MemoryApart, H!MemoryApart
<1>2. block \in blk /\ next[block] \in blk
  BY <1>1 DEF HType
<1>3. block < next[block]
  BY <1>1, <1>2 DEF H!BlocksApart
<1>4. HDR \in Nat \ {0} /\ PAGE_SIZE \in Nat \ {0} /\ NR_PAGES \in Nat \ {0}
  BY DEF HeapSizes
<1>5. /\ block \in Nat /\ next[block] \in Nat /\ H!BLOCK_END(block) \in Nat /\ next[block] <= H!end
      /\ H!end = H!Top - HDR /\ H!Top \in Nat /\ H!end \in Nat /\ H!Top = NR_PAGES * PAGE_SIZE
  BY <1>1, <1>2, HeapTypes
<1> QED BY <1>2, <1>3, <1>4, <1>5 DEF Limit

\* link_block puts a block between two that are apart.
LEMMA link_blockInv ==
    ASSUME NEW m, HeapSizes(m), HInv(m), HasUsers, H!link_block
    PROVE  HInv(m)'
<1> DEFINE c == next[block]
           s == saddr
<1>1. /\ pc = "link" /\ pc' = "obtain" /\ counts' = counts /\ upages' = upages
      /\ align' = align /\ req' = req /\ block' = block /\ saddr' = saddr /\ eaddr' = eaddr
      /\ blk' = blk \cup {s}
      /\ size' = [b \in blk \cup {s} |-> IF b = s THEN req ELSE size[b]]
      /\ next' = [b \in blk \cup {s} |-> IF b = s THEN c ELSE IF b = block THEN s ELSE next[b]]
      /\ prev' = [b \in blk \cup {s} |-> IF b = s THEN block ELSE IF b = c THEN s ELSE prev[b]]
  BY DEF H!link_block, H!Goto, H!call
<1>2. /\ HType /\ Blocks(m) /\ Counted /\ H!BlocksApart /\ H!SharedOnlyFirst
      /\ block # H!end /\ H!BLOCK_END(block) <= s /\ s + HDR + req <= Limit(block) /\ Free(s + HDR + req)
  BY <1>1 DEF HInv, Found, MemoryApart, H!MemoryApart
<1>3. /\ block \in blk /\ block \in Nat /\ c \in blk /\ c \in Nat /\ block < c
      /\ HDR \in Nat \ {0} /\ PAGE_SIZE \in Nat \ {0} /\ NR_PAGES \in Nat
      /\ H!BLOCK_END(block) \in Nat /\ H!BLOCK_END(block) = block + HDR + size[block] /\ size[block] \in Nat
      /\ c # H!end => Limit(block) = c
      /\ c = H!end => Limit(block) = H!Top
  BY <1>2, Before, HeapTypes DEF HType
<1>4. s \in Nat /\ req \in Nat /\ req >= m /\ m \in Nat \ {0} /\ m >= 1
  BY <1>1 DEF HInv, HType, Blocks, HeapSizes
<1>5. H!end \in Nat /\ H!Top \in Nat /\ H!end = H!Top - HDR /\ H!heap = 0 /\ \A b \in blk : b \in Nat /\ b <= H!end
  BY <1>2, HeapTypes
<1>6. block < s /\ s < c /\ s < H!end /\ s + HDR + req <= H!Top
  <2>1. c <= H!end
    BY <1>3, <1>5
  <2>2. block < s
    BY <1>2, <1>3, <1>4
  <2>3. CASE c = H!end
    BY <1>2, <1>3, <1>4, <1>5, <2>2, <2>3
  <2>4. CASE c # H!end
    BY <1>2, <1>3, <1>4, <1>5, <2>1, <2>2, <2>4
  <2> QED BY <2>3, <2>4
<1>7. \A d \in blk : d <= block \/ d >= c
  BY <1>2, <1>3 DEF H!BlocksApart
<1>8. s \notin blk /\ s # H!end /\ s # H!heap
  BY <1>3, <1>4, <1>5, <1>6, <1>7
<1>9. HType'
  <2>1. size \in [blk -> Nat] /\ next \in [blk -> blk] /\ prev \in [blk -> blk] /\ H!heap \in blk /\ H!end \in blk
    BY <1>2 DEF HType
  <2>2. size' \in [blk' -> Nat]
    BY <1>1, <1>4, <2>1
  <2>3. next' \in [blk' -> blk'] /\ prev' \in [blk' -> blk']
    BY <1>1, <1>3, <2>1
  <2>4. blk' \in SUBSET (0 .. H!end)
    BY <1>1, <1>4, <1>5, <1>6
  <2>5. pc' \in {"idle", "search", "loop", "link", "obtain", "unlink"}
    BY <1>1
  <2> QED BY <1>1, <1>2, <1>3, <2>1, <2>2, <2>3, <2>4, <2>5 DEF HType, H!PageNo, H!Stray, H!heap, H!end, H!Top
<1>10. /\ \A b \in blk : size'[b] = size[b]
       /\ \A b \in blk \ {block} : next'[b] = next[b]
       /\ \A b \in blk \ {c} : prev'[b] = prev[b]
       /\ size'[s] = req /\ next'[s] = c /\ prev'[s] = block /\ next'[block] = s /\ prev'[c] = s
  BY <1>1, <1>3, <1>8
<1>11. \A b \in blk : prev[next[b]] = b /\ next[prev[b]] = b /\ next[b] \in blk /\ prev[b] \in blk
  BY <1>2 DEF Blocks, HType
<1>12. \A b \in blk' : prev'[next'[b]] = b /\ next'[prev'[b]] = b
  <2> SUFFICES ASSUME NEW b \in blk' PROVE prev'[next'[b]] = b /\ next'[prev'[b]] = b
    OBVIOUS
  <2>1. b = s \/ b \in blk
    BY <1>1
  <2>2. prev'[next'[b]] = b
    <3>1. CASE b = s
      BY <1>10, <3>1
    <3>2. CASE b = block
      BY <1>10, <3>2
    <3>3. CASE b \in blk \ {block}
      <4>1. next'[b] = next[b] /\ next[b] \in blk /\ next[b] # c
        BY <1>3, <1>10, <1>11, <3>3
      <4> QED BY <1>10, <1>11, <3>3, <4>1
    <3> QED BY <2>1, <3>1, <3>2, <3>3
  <2>3. next'[prev'[b]] = b
    <3>1. CASE b = s
      BY <1>10, <3>1
    <3>2. CASE b = c
      BY <1>10, <3>2
    <3>3. CASE b \in blk \ {c}
      <4>1. prev'[b] = prev[b] /\ prev[b] \in blk /\ prev[b] # block
        BY <1>3, <1>10, <1>11, <3>3
      <4> QED BY <1>10, <1>11, <3>3, <4>1
    <3> QED BY <2>1, <3>1, <3>2, <3>3
  <2> QED BY <2>2, <2>3
<1>13. Blocks(m)'
  <2>1. H!heap \in blk /\ H!end \in blk
    BY <1>2 DEF HType
  <2>2. size'[H!heap] = 0 /\ size'[H!end] = 0
    BY <1>2, <1>10, <2>1 DEF Blocks
  <2>3. \A b \in blk' \ {H!heap, H!end} : size'[b] >= m
    BY <1>1, <1>2, <1>4, <1>10 DEF Blocks
  <2>4. saddr' \in blk' \ {H!heap, H!end}
    BY <1>1, <1>8
  <2> QED BY <1>1, <1>12, <2>2, <2>3, <2>4 DEF Blocks, H!heap, H!end, H!Top
<1>14. /\ \A b \in blk : H!BLOCK_END(b)' = H!BLOCK_END(b) /\ H!PagesOf(b)' = H!PagesOf(b)
       /\ H!BLOCK_END(s)' = s + HDR + req
  <2>1. \A b \in blk : H!BLOCK_END(b)' = H!BLOCK_END(b)
    BY <1>10 DEF H!BLOCK_END
  <2>2. H!BLOCK_END(s)' = s + HDR + req
    BY <1>1, <1>10 DEF H!BLOCK_END
  <2> QED BY <2>1, <2>2 DEF H!PagesOf
<1>15. Counted'
  <2>1. Pending = {} /\ Pending' = {s}
    BY <1>1 DEF Pending
  <2>2. \A p : On(p)' \ {s} = On(p)
    <3> SUFFICES ASSUME NEW p, NEW b PROVE b \in On(p)' \ {s} <=> b \in On(p)
      OBVIOUS
    <3>1. b \in On(p) <=> b \in blk /\ b # H!end /\ p \in H!PagesOf(b)
      BY DEF On
    <3>2. b \in On(p)' <=> b \in blk' /\ b # H!end /\ p \in H!PagesOf(b)'
      BY DEF On, H!end, H!Top
    <3> QED BY <1>1, <1>8, <1>14, <3>1, <3>2
  <2>3. \A p : On(p)' \ Pending' = On(p) \ Pending
    BY <2>1, <2>2
  <2> QED BY <1>1, <1>2, <2>3 DEF Counted, H!PageNo, H!Stray
<1>16. H!BlocksApart'
  <2>1. next'[H!end] = H!heap
    BY <1>2, <1>10 DEF H!BlocksApart, HType
  <2>2. ASSUME NEW b \in blk', b # H!end
        PROVE  /\ b < next'[b]
               /\ next'[b] # H!end => H!BLOCK_END(b)' <= next'[b]
               /\ H!BLOCK_END(b)' <= H!Top
               /\ \A d \in blk' : d <= b \/ d >= next'[b]
    <3>1. CASE b = s
      BY <1>1, <1>2, <1>3, <1>4, <1>5, <1>6, <1>7, <1>10, <1>14, <3>1
    <3>2. CASE b = block
      <4>1. H!BLOCK_END(block) <= H!Top
        BY <1>2, <1>3 DEF H!BlocksApart
      <4>2. \A d \in blk' : d <= block \/ d >= s
        BY <1>1, <1>3, <1>4, <1>5, <1>6, <1>7
      <4> QED BY <1>2, <1>3, <1>6, <1>10, <1>14, <3>2, <4>1, <4>2
    <3>3. CASE b # s /\ b # block
      <4>1. b \in blk \ {H!end} /\ b \in Nat /\ next'[b] = next[b] /\ next[b] \in Nat
        BY <1>1, <1>5, <1>10, <1>11, <2>2, <3>3
      <4>2. /\ b < next[b] /\ (next[b] # H!end => H!BLOCK_END(b) <= next[b]) /\ H!BLOCK_END(b) <= H!Top
            /\ \A d \in blk : d <= b \/ d >= next[b]
        BY <1>2, <4>1 DEF H!BlocksApart
      <4>3. s <= b \/ s >= next[b]
        BY <1>3, <1>4, <1>6, <1>7, <3>3, <4>1, <4>2
      <4> QED BY <1>1, <1>14, <4>1, <4>2, <4>3
    <3> QED BY <3>1, <3>2, <3>3
  <2> QED BY <1>12, <2>1, <2>2 DEF H!BlocksApart, H!end, H!Top, H!heap
<1>17. H!SharedOnlyFirst'
  <2>1. ASSUME NEW b \in blk \ {H!heap, H!end} PROVE H!PagesOf(b)' \cap upages \subseteq {H!Page(b)}
    BY <1>2, <1>14 DEF H!SharedOnlyFirst
  <2>2. ASSUME NEW p \in H!PagesOf(s)', p # H!Page(s) PROVE p \notin upages
    <3>1. p \in 0 .. NR_PAGES - 1 /\ H!Page(s) <= p /\ p * PAGE_SIZE < H!ALIGN_CEIL(s + HDR + req, PAGE_SIZE)
      BY <1>1, <1>14, <2>2 DEF H!PagesOf, H!Page, H!ALIGN_CEIL
    <3>2. p \in Nat /\ s + HDR + req \in Nat /\ H!Page(s) \in Nat
      BY <1>3, <1>4, <3>1, PageOf
    <3>3. p * PAGE_SIZE < s + HDR + req
      BY <3>1, <3>2, CeilPage
    <3>4. H!Page(s) < p
      BY <2>2, <3>1, <3>2
    <3>5. counts[p] = 0
      BY <1>2, <3>1, <3>3, <3>4 DEF Free
    <3>6. p \in H!PageNo
      BY <3>1 DEF H!PageNo
    <3> QED BY <3>5, <3>6 DEF HasUsers
  <2>3. ASSUME NEW b \in blk' \ {H!heap, H!end} PROVE H!PagesOf(b)' \cap upages \subseteq {H!Page(b)}
    BY <1>1, <2>1, <2>2
  <2> QED BY <1>1, <2>3 DEF H!SharedOnlyFirst, H!heap, H!end, H!Top, H!Page
<1>18. Searching' /\ Found'
  BY <1>1 DEF Searching, Found
<1> QED BY <1>9, <1>13, <1>15, <1>16, <1>17, <1>18 DEF HInv, MemoryApart, H!MemoryApart

\* unlink_block joins the neighbours of the block.
LEMMA unlink_blockInv ==
    ASSUME NEW m, HeapSizes(m), HInv(m), H!unlink_block
    PROVE  HInv(m)'
<1> DEFINE a == prev[block]
           c == next[block]
           o == block
           keep == blk \ {block}
<1>1. /\ pc = "unlink" /\ pc' = "idle" /\ upages' = upages /\ counts' = counts
      /\ align' = 0 /\ req' = 1 /\ block' = H!heap /\ saddr' = H!heap /\ eaddr' = H!heap
      /\ blk' = keep
      /\ size' = [b \in keep |-> size[b]]
      /\ next' = [b \in keep |-> IF b = a THEN c ELSE next[b]]
      /\ prev' = [b \in keep |-> IF b = c THEN a ELSE prev[b]]
  BY DEF H!unlink_block, H!Return
<1>2. HType /\ Blocks(m) /\ Counted /\ H!BlocksApart /\ H!SharedOnlyFirst /\ o \in blk \ {H!heap, H!end}
  BY <1>1 DEF HInv, Blocks, MemoryApart, H!MemoryApart
<1>3. /\ size \in [blk -> Nat] /\ next \in [blk -> blk] /\ prev \in [blk -> blk]
      /\ H!heap \in blk /\ H!end \in blk /\ H!heap = 0
  BY <1>2 DEF HType, H!heap
<1>4. \A b \in blk : prev[next[b]] = b /\ next[prev[b]] = b /\ next[b] \in blk /\ prev[b] \in blk
  BY <1>2, <1>3 DEF Blocks
<1>5. a \in blk /\ c \in blk /\ next[a] = o /\ prev[c] = o
  BY <1>2, <1>4
<1>6. \A b \in blk : b \in Nat
  BY <1>2, HeapTypes
<1>7. a # H!end /\ next[H!end] = H!heap
  BY <1>2, <1>5 DEF H!BlocksApart
<1>8. \A b \in blk \ {H!end} : /\ b < next[b]
                               /\ next[b] # H!end => H!BLOCK_END(b) <= next[b]
                               /\ H!BLOCK_END(b) <= H!Top
                               /\ \A d \in blk : d <= b \/ d >= next[b]
  BY <1>2 DEF H!BlocksApart
<1>9. a < o /\ o < c
  BY <1>2, <1>5, <1>7, <1>8
<1>10. a \in keep /\ c \in keep /\ H!heap \in keep /\ H!end \in keep
  BY <1>2, <1>3, <1>5, <1>6, <1>9
<1>11. /\ \A b \in keep : size'[b] = size[b]
       /\ \A b \in keep \ {a} : next'[b] = next[b]
       /\ \A b \in keep \ {c} : prev'[b] = prev[b]
       /\ next'[a] = c /\ prev'[c] = a
  BY <1>1, <1>10
<1>12. \A b \in keep : (next[b] = o => b = a) /\ (prev[b] = o => b = c)
  BY <1>4
<1> HIDE DEF a, c, keep
<1>13. HType'
  <2>1. size' \in [keep -> Nat]
    BY <1>1, <1>3 DEF keep
  <2>2. next' \in [keep -> keep] /\ prev' \in [keep -> keep]
    <3>1. \A b \in keep : next'[b] \in keep /\ prev'[b] \in keep
      BY <1>4, <1>10, <1>11, <1>12 DEF keep
    <3> QED BY <1>1, <3>1
  <2>3. keep \in SUBSET (0 .. H!end)
    BY <1>2 DEF keep, HType
  <2>4. H!heap \in Nat
    BY <1>3
  <2> QED BY <1>1, <1>2, <1>10, <2>1, <2>2, <2>3, <2>4 DEF HType, H!PageNo, H!Stray, H!heap, H!end, H!Top
<1>14. \A b \in keep : prev'[next'[b]] = b /\ next'[prev'[b]] = b
  <2> SUFFICES ASSUME NEW b \in keep PROVE prev'[next'[b]] = b /\ next'[prev'[b]] = b
    OBVIOUS
  <2>1. prev'[next'[b]] = b
    <3>1. CASE b = a
      BY <1>11, <3>1
    <3>2. CASE b # a
      <4>1. next'[b] = next[b] /\ next[b] \in keep /\ next[b] # c
        BY <1>4, <1>5, <1>11, <1>12, <3>2 DEF keep
      <4> QED BY <1>4, <1>11, <4>1 DEF keep
    <3> QED BY <3>1, <3>2
  <2>2. next'[prev'[b]] = b
    <3>1. CASE b = c
      BY <1>11, <3>1
    <3>2. CASE b # c
      <4>1. prev'[b] = prev[b] /\ prev[b] \in keep /\ prev[b] # a
        BY <1>4, <1>5, <1>11, <1>12, <3>2 DEF keep
      <4> QED BY <1>4, <1>11, <4>1 DEF keep
    <3> QED BY <3>1, <3>2
  <2> QED BY <2>1, <2>2
<1>15. Blocks(m)'
  <2>1. size'[H!heap] = 0 /\ size'[H!end] = 0
    BY <1>2, <1>10, <1>11 DEF Blocks
  <2>2. \A b \in keep \ {H!heap, H!end} : size'[b] >= m
    BY <1>2, <1>11 DEF Blocks, keep
  <2> QED BY <1>1, <1>14, <2>1, <2>2 DEF Blocks, H!heap, H!end, H!Top
<1>16. \A b \in keep : H!BLOCK_END(b)' = H!BLOCK_END(b) /\ H!PagesOf(b)' = H!PagesOf(b)
  <2>1. \A b \in keep : H!BLOCK_END(b)' = H!BLOCK_END(b)
    BY <1>11 DEF H!BLOCK_END
  <2> QED BY <2>1 DEF H!PagesOf
<1>17. Counted'
  <2>1. Pending = {o} /\ Pending' = {}
    BY <1>1 DEF Pending
  <2>2. \A p : On(p)' = On(p) \ {o}
    <3> SUFFICES ASSUME NEW p, NEW b PROVE b \in On(p)' <=> b \in On(p) \ {o}
      OBVIOUS
    <3>1. b \in On(p) <=> b \in blk /\ b # H!end /\ p \in H!PagesOf(b)
      BY DEF On
    <3>2. b \in On(p)' <=> b \in blk' /\ b # H!end /\ p \in H!PagesOf(b)'
      BY DEF On, H!end, H!Top
    <3> QED BY <1>1, <1>16, <3>1, <3>2 DEF keep
  <2>3. \A p : On(p)' \ Pending' = On(p) \ Pending
    BY <2>1, <2>2
  <2> QED BY <1>1, <1>2, <2>3 DEF Counted, H!PageNo, H!Stray
<1>18. H!BlocksApart'
  <2>1. next'[H!end] = H!heap
    BY <1>7, <1>10, <1>11
  <2>2. ASSUME NEW b \in keep, b # H!end
        PROVE  /\ b < next'[b]
               /\ next'[b] # H!end => H!BLOCK_END(b)' <= next'[b]
               /\ H!BLOCK_END(b)' <= H!Top
               /\ \A d \in keep : d <= b \/ d >= next'[b]
    <3>1. CASE b = a
      <4>1. H!BLOCK_END(a) <= o /\ H!BLOCK_END(a) <= H!Top /\ H!BLOCK_END(a) \in Nat
        BY <1>2, <1>5, <1>7, <1>8, HeapTypes
      <4>2. a \in Nat /\ o \in Nat /\ c \in Nat
        BY <1>2, <1>5, <1>6
      <4>3. \A d \in keep : d <= a \/ d >= c
        <5> SUFFICES ASSUME NEW d \in keep PROVE d <= a \/ d >= c
          OBVIOUS
        <5>1. d \in Nat /\ d # o /\ (d <= a \/ d >= o) /\ (d <= o \/ d >= c)
          <6>1. next[o] = c
            BY DEF c
          <6> QED BY <1>2, <1>5, <1>6, <1>7, <1>8, <6>1 DEF keep
        <5> QED BY <4>2, <5>1
      <4> QED BY <1>9, <1>10, <1>11, <1>16, <3>1, <4>1, <4>2, <4>3
    <3>2. CASE b # a
      <4>1. b \in blk \ {H!end} /\ next'[b] = next[b]
        BY <1>11, <2>2, <3>2 DEF keep
      <4> QED BY <1>8, <1>16, <4>1 DEF keep
    <3> QED BY <3>1, <3>2
  <2> QED BY <1>1, <1>14, <2>1, <2>2 DEF H!BlocksApart, H!end, H!Top, H!heap
<1>19. H!SharedOnlyFirst'
  <2>1. \A b \in keep \ {H!heap, H!end} : H!PagesOf(b)' \cap upages \subseteq {H!Page(b)}
    BY <1>2, <1>16 DEF H!SharedOnlyFirst, keep
  <2> QED BY <1>1, <2>1 DEF H!SharedOnlyFirst, H!heap, H!end, H!Top, H!Page
<1>20. Searching' /\ Found'
  BY <1>1 DEF Searching, Found
<1> QED BY <1>13, <1>15, <1>17, <1>18, <1>19, <1>20 DEF HInv, MemoryApart, H!MemoryApart

\* kmemalign begins with the first block.
LEMMA kmemalignInv ==
    ASSUME NEW m, HeapSizes(m), HInv(m), NEW r \in Requests, H!kmemalign(r[1], r[2])
    PROVE  HInv(m)'
<1>1. r[1] \in Nat /\ r[2] \in Nat /\ r[2] >= m
  BY DEF HeapSizes
<1>2. /\ UNCHANGED <<H!list, counts, upages>> /\ pc = "idle" /\ pc' = "search"
      /\ align' = r[1] /\ req' = r[2] /\ saddr' = saddr /\ eaddr' = eaddr /\ block' = H!heap
  BY DEF H!kmemalign, H!Goto
<1>3. saddr \in Nat /\ eaddr \in Nat /\ H!heap \in blk
  BY DEF HInv, HType
<1>4. HType' /\ Blocks(m)' /\ Counted' /\ MemoryApart'
  BY <1>1, <1>2, <1>3, Keeps
<1>5. Searching' /\ Found'
  BY <1>2 DEF Searching, Found
<1> QED BY <1>4, <1>5 DEF HInv

\* search_interspace begins behind the block.
LEMMA CeilIs ==
    ASSUME NEW x \in Nat, NEW a \in Nat \ {0}
    PROVE  H!ALIGN_CEIL(x, a) \in Nat /\ H!ALIGN_CEIL(x, a) >= x
<1> DEFINE c == x + a - 1
           q == c \div a
           r == c % a
<1>1. c \in Nat /\ c = x + a - 1
  OBVIOUS
<1> HIDE DEF c
<1>2. q \in Nat /\ r \in 0 .. a - 1 /\ c = a * q + r
  BY <1>1, Division
<1> HIDE DEF q, r
<1>3. a * q \in Nat /\ a * q >= x /\ q * a = a * q
  BY <1>1, <1>2
<1> QED BY <1>3 DEF H!ALIGN_CEIL, q, c

\* The search begins behind block, and looks no further than its page and
\* block->next.
LEMMA search_beginInv ==
    ASSUME NEW m, HeapSizes(m), HInv(m), H!search_begin
    PROVE  HInv(m)'
<1> DEFINE a == IF align = 0 THEN 1 ELSE align
           x == H!BLOCK_END(block) + HDR
           s == H!ALIGN_CEIL(x, a) - HDR
           t == (H!Page(s) + 1) * PAGE_SIZE
           n == next[block]
<1>1. /\ UNCHANGED <<H!list, counts, upages>> /\ pc = "search" /\ pc' = "loop"
      /\ align' = align /\ req' = req /\ block' = block /\ block # H!end
      /\ saddr' = s /\ eaddr' = IF t <= n THEN t ELSE n
  BY DEF H!search_begin, H!Goto
<1>2. /\ block \in blk /\ n \in Nat /\ H!BLOCK_END(block) \in Nat /\ HDR \in Nat \ {0} /\ PAGE_SIZE \in Nat \ {0}
      /\ Limit(block) \in Nat /\ n <= Limit(block)
  BY <1>1, Before
<1>3. align \in Nat /\ req \in Nat /\ req >= m
  BY <1>1 DEF HInv, HType, Blocks
<1>4. H!ALIGN_CEIL(x, a) \in Nat /\ H!ALIGN_CEIL(x, a) >= x
  BY <1>2, <1>3, CeilIs
<1>5. s \in Nat /\ H!BLOCK_END(block) <= s
  <2> DEFINE c == H!ALIGN_CEIL(x, a)
  <2> HIDE DEF c
  <2>1. c - HDR \in Nat /\ H!BLOCK_END(block) <= c - HDR
    BY <1>2, <1>4 DEF c
  <2> QED BY <2>1 DEF c
<1> HIDE DEF s
<1>6. H!Page(s) \in Nat /\ H!Page(s) * PAGE_SIZE <= s /\ s < H!Page(s) * PAGE_SIZE + PAGE_SIZE
  BY <1>5, PageOf
<1>7. t \in Nat /\ t = H!Page(s) * PAGE_SIZE + PAGE_SIZE /\ H!Page(s) * PAGE_SIZE \in Nat
  BY <1>2, <1>6, PageOrder
<1> DEFINE e == IF t <= n THEN t ELSE n
<1>8. e = IF t <= n THEN t ELSE n
  OBVIOUS
<1>9. e \in Nat /\ e <= n /\ e <= t
  <2> HIDE DEF t, e, n
  <2> QED BY <1>2, <1>7, <1>8
<1>10. HType' /\ Blocks(m)' /\ Counted' /\ MemoryApart'
  BY <1>1, <1>2, <1>3, <1>5, <1>9, Keeps
<1>11. ASSUME s <= e, H!Page(s) # H!Page(n) PROVE \E k \in Nat : e = k * PAGE_SIZE
  <2>1. CASE t <= n
    BY <1>6, <1>8, <2>1
  <2>2. CASE ~ (t <= n)
    <3>1. H!Page(s) * PAGE_SIZE <= n /\ n < H!Page(s) * PAGE_SIZE + PAGE_SIZE
      <4> DEFINE y == H!Page(s) * PAGE_SIZE
      <4> HIDE DEF y, n, t, e
      <4> QED BY <1>2, <1>5, <1>6, <1>7, <1>8, <1>11, <2>2 DEF y
    <3>2. H!Page(n) = H!Page(s)
      BY <1>2, <1>6, <3>1, PageIs
    <3> QED BY <1>11, <3>2
  <2> QED BY <2>1, <2>2
<1>12. ASSUME NEW p \in 0 .. NR_PAGES - 1, H!Page(s) < p, p * PAGE_SIZE < e PROVE FALSE
  <2>1. NR_PAGES \in Nat /\ p \in Nat
    BY DEF HeapSizes
  <2>2. t <= p * PAGE_SIZE /\ p * PAGE_SIZE \in Nat
    BY <1>6, <1>7, <1>12, <2>1, PageOrder
  <2> DEFINE y == p * PAGE_SIZE
  <2> HIDE DEF t, e, y
  <2> QED BY <1>7, <1>9, <1>12, <2>2 DEF y
<1>13. next' = next
  BY <1>1 DEF H!list
<1>14. H!BLOCK_END(block)' = H!BLOCK_END(block)
  BY <1>1 DEF H!BLOCK_END, H!list
<1>15. Limit(block)' = Limit(block)
  BY <1>1, <1>13 DEF Limit, H!end, H!Top
<1>16. Free(eaddr)'
  BY <1>1, <1>12 DEF Free, H!Page
<1>17. H!AtNext' <=> H!Page(s) = H!Page(n)
  BY <1>1, <1>13 DEF H!AtNext, H!IN_SAME_PAGE, H!Page
<1>18. Searching'
  <2>1. (block # H!end)' /\ (H!BLOCK_END(block) <= saddr)'
    BY <1>1, <1>5, <1>14 DEF H!end, H!Top
  <2>2. (eaddr <= Limit(block))'
    <3> HIDE DEF e
    <3> QED BY <1>1, <1>2, <1>9, <1>15 DEF e
  <2>3. (saddr <= eaddr)' /\ ~ H!AtNext' => \E k \in Nat : eaddr' = k * PAGE_SIZE
    BY <1>1, <1>11, <1>17
  <2> QED BY <1>16, <2>1, <2>2, <2>3 DEF Searching
<1>19. Found'
  BY <1>1 DEF Found
<1> QED BY <1>10, <1>18, <1>19 DEF HInv

\* The end of the list is the end of the call.
LEMMA search_failsInv ==
    ASSUME NEW m, HeapSizes(m), HInv(m), H!search_fails
    PROVE  HInv(m)'
<1>1. /\ UNCHANGED <<H!list, counts, upages>> /\ pc = "search" /\ pc' = "idle"
      /\ align' = 0 /\ req' = 1 /\ block' = H!heap /\ saddr' = H!heap /\ eaddr' = H!heap
  BY DEF H!search_fails, H!Return
<1>2. H!heap \in blk /\ H!heap \in Nat
  BY DEF HInv, HType, H!heap
<1>3. HType' /\ Blocks(m)' /\ Counted' /\ MemoryApart'
  BY <1>1, <1>2, Keeps
<1> QED BY <1>1, <1>3 DEF HInv, Searching, Found

\* There is no room behind block: the search goes on with block->next.
LEMMA search_nextInv ==
    ASSUME NEW m, HeapSizes(m), HInv(m), H!search_next
    PROVE  HInv(m)'
<1>1. /\ UNCHANGED <<H!list, counts, upages>> /\ pc = "loop" /\ pc' = "search"
      /\ align' = align /\ req' = req /\ block' = next[block] /\ saddr' = saddr /\ eaddr' = eaddr
  BY DEF H!search_next, H!Goto
<1>2. next[block] \in blk /\ align \in Nat /\ req \in Nat /\ req >= m /\ saddr \in Nat /\ eaddr \in Nat
  BY <1>1 DEF HInv, HType, Blocks
<1>3. HType' /\ Blocks(m)' /\ Counted' /\ MemoryApart'
  BY <1>1, <1>2, Keeps
<1> QED BY <1>1, <1>3 DEF HInv, Searching, Found

\* What a search has found is free.
LEMMA search_foundInv ==
    ASSUME NEW m, HeapSizes(m), HInv(m), H!search_found
    PROVE  HInv(m)'
<1>1. /\ UNCHANGED <<H!list, counts, upages>> /\ pc = "loop" /\ pc' = "link"
      /\ align' = align /\ req' = req /\ block' = block /\ saddr' = saddr /\ eaddr' = eaddr
      /\ ~ (eaddr < saddr) /\ eaddr - saddr >= HDR + req
  BY DEF H!search_found, H!Goto, H!call, H!TooFar, H!Fits
<1>2. block \in blk /\ align \in Nat /\ req \in Nat /\ req >= m /\ saddr \in Nat /\ eaddr \in Nat
  BY <1>1 DEF HInv, HType, Blocks
<1>3. HType' /\ Blocks(m)' /\ Counted' /\ MemoryApart'
  BY <1>1, <1>2, Keeps
<1>4. block # H!end /\ H!BLOCK_END(block) <= saddr /\ eaddr <= Limit(block) /\ Free(eaddr)
  BY <1>1 DEF HInv, Searching
<1>5. /\ Limit(block) \in Nat /\ HDR \in Nat /\ PAGE_SIZE \in Nat /\ NR_PAGES \in Nat
      /\ saddr + HDR + req <= eaddr /\ saddr + HDR + req <= Limit(block)
  BY <1>1, <1>2, <1>4, Before
<1>6. Free(saddr + HDR + req)
  <2> SUFFICES ASSUME NEW p \in 0 .. NR_PAGES - 1, H!Page(saddr) < p, p * PAGE_SIZE < saddr + HDR + req
               PROVE  counts[p] = 0
    BY DEF Free
  <2> DEFINE y == p * PAGE_SIZE
  <2>1. y \in Nat
    BY <1>5
  <2>2. y < eaddr
    <3> HIDE DEF y
    <3> QED BY <1>2, <1>5, <2>1 DEF y
  <2> QED BY <1>4, <2>2 DEF Free
<1>7. next' = next
  BY <1>1 DEF H!list
<1>8. H!BLOCK_END(block)' = H!BLOCK_END(block)
  BY <1>1 DEF H!BLOCK_END, H!list
<1>9. Limit(block)' = Limit(block)
  BY <1>1, <1>7 DEF Limit, H!end, H!Top
<1>10. Free(saddr + HDR + req)'
  BY <1>1, <1>6 DEF Free, H!Page
<1>11. Found'
  BY <1>1, <1>4, <1>5, <1>8, <1>9, <1>10 DEF Found, H!end, H!Top
<1>12. Searching'
  BY <1>1 DEF Searching
<1> QED BY <1>3, <1>11, <1>12 DEF HInv

\* An address that is the start of page k.
LEMMA Start ==
    ASSUME NEW m, HeapSizes(m), NEW k \in Nat
    PROVE  k * PAGE_SIZE \in Nat /\ H!Page(k * PAGE_SIZE) = k
<1>1. PAGE_SIZE \in Nat \ {0}
  BY DEF HeapSizes
<1> DEFINE a == k * PAGE_SIZE
<1>2. a \in Nat
  BY PageOrder
<1>3. a <= a /\ a < a + PAGE_SIZE
  <2> HIDE DEF a
  <2> QED BY <1>1, <1>2
<1> QED BY <1>2, <1>3, PageIs

\* A free page before block->next belongs to the free space.
LEMMA search_extendInv ==
    ASSUME NEW m, HeapSizes(m), HInv(m), HasUsers, H!search_extend
    PROVE  HInv(m)'
<1> DEFINE n == next[block]
<1>1. /\ UNCHANGED <<H!list, counts, upages>> /\ pc = "loop" /\ pc' = "loop"
      /\ align' = align /\ req' = req /\ block' = block /\ saddr' = saddr /\ eaddr' = eaddr + PAGE_SIZE
      /\ ~ (eaddr < saddr) /\ ~ H!AtNext /\ H!PageFree
  BY DEF H!search_extend, H!TooFar
<1>2. block \in blk /\ align \in Nat /\ req \in Nat /\ req >= m /\ saddr \in Nat /\ eaddr \in Nat
  BY <1>1 DEF HInv, HType, Blocks
<1>3. /\ block # H!end /\ H!BLOCK_END(block) <= saddr /\ eaddr <= Limit(block) /\ Free(eaddr)
      /\ saddr <= eaddr /\ ~ H!AtNext => \E k \in Nat : eaddr = k * PAGE_SIZE
  BY <1>1 DEF HInv, Searching
<1>4. saddr <= eaddr
  BY <1>1, <1>2
<1>5. PICK k \in Nat : eaddr = k * PAGE_SIZE
  BY <1>1, <1>3, <1>4
<1>6. H!Page(eaddr) = k
  BY <1>5, Start
<1>7. k \in 0 .. NR_PAGES - 1 /\ counts[k] = 0
  <2>1. (IF k \in 0 .. NR_PAGES - 1 THEN counts[k] ELSE BYTE - 1) = 0
    BY <1>1, <1>6 DEF H!PageFree, H!page_users
  <2>2. BYTE - 1 # 0
    <3>1. PAGE_SIZE - 1 \in Nat /\ HDR + m \in Nat \ {0} /\ BYTE \in Nat
      BY DEF HeapSizes
    <3>2. (PAGE_SIZE - 1) \div (HDR + m) \in Nat
      BY <3>1, Division
    <3> QED BY <3>1, <3>2 DEF HeapSizes
  <2> QED BY <2>1, <2>2
<1>8. /\ n \in blk /\ n \in Nat /\ Limit(block) \in Nat /\ PAGE_SIZE \in Nat \ {0} /\ NR_PAGES \in Nat
      /\ n # H!end => Limit(block) = n
      /\ n = H!end => Limit(block) = NR_PAGES * PAGE_SIZE
  BY <1>3, Before
<1>9. eaddr + PAGE_SIZE <= Limit(block)
  <2>1. CASE n = H!end
    <3>1. k < NR_PAGES
      BY <1>7, <1>8
    <3> QED BY <1>5, <1>8, <2>1, <3>1, PageOrder
  <2>2. CASE n # H!end
    <3>1. ASSUME n < eaddr + PAGE_SIZE PROVE FALSE
      <4>1. H!Page(n) = k
        BY <1>3, <1>5, <1>8, <2>2, <3>1, PageIs
      <4>2. k \in H!PagesOf(n)
        BY <1>8, <4>1, FirstPage DEF HInv
      <4>3. n \in blk \ {H!end} /\ n \notin Pending /\ k \in H!PageNo
        BY <1>1, <1>7, <1>8, <2>2 DEF Pending, H!PageNo
      <4>4. counts[k] > 0
        BY <4>2, <4>3 DEF HasUsers
      <4> QED BY <1>7, <4>4
    <3> QED BY <1>2, <1>8, <2>2, <3>1
  <2> QED BY <2>1, <2>2
<1>10. Free(eaddr + PAGE_SIZE)
  <2> SUFFICES ASSUME NEW p \in 0 .. NR_PAGES - 1, H!Page(saddr) < p, p * PAGE_SIZE < eaddr + PAGE_SIZE
               PROVE  counts[p] = 0
    BY DEF Free
  <2>1. p \in Nat
    BY <1>8
  <2>2. /\ p * PAGE_SIZE \in Nat
        /\ p < k => p * PAGE_SIZE + PAGE_SIZE <= eaddr
        /\ k < p => eaddr + PAGE_SIZE <= p * PAGE_SIZE
    BY <1>5, <2>1, PageOrder
  <2> DEFINE y == p * PAGE_SIZE
  <2>3. p = k \/ y < eaddr
    <3> HIDE DEF y
    <3> QED BY <1>2, <1>8, <2>1, <2>2 DEF y
  <2> QED BY <1>3, <1>7, <2>3 DEF Free
<1>11. HType' /\ Blocks(m)' /\ Counted' /\ MemoryApart'
  BY <1>1, <1>2, <1>8, Keeps
<1>12. next' = next
  BY <1>1 DEF H!list
<1>13. H!BLOCK_END(block)' = H!BLOCK_END(block)
  BY <1>1 DEF H!BLOCK_END, H!list
<1>14. Limit(block)' = Limit(block)
  BY <1>1, <1>12 DEF Limit, H!end, H!Top
<1>15. Free(eaddr)'
  BY <1>1, <1>10 DEF Free, H!Page
<1>16. \E l \in Nat : eaddr' = l * PAGE_SIZE
  <2>1. eaddr' = (k + 1) * PAGE_SIZE /\ k + 1 \in Nat
    BY <1>1, <1>5, PageOrder
  <2> QED BY <2>1
<1>17. Searching'
  BY <1>1, <1>3, <1>9, <1>13, <1>14, <1>15, <1>16 DEF Searching, H!end, H!Top
<1>18. Found'
  BY <1>1 DEF Found
<1> QED BY <1>11, <1>17, <1>18 DEF HInv

\* After the pages that are used the search goes on with the next page that is
\* free, or with the page of block->next.
LEMMA search_resetInv ==
    ASSUME NEW m, HeapSizes(m), HInv(m), H!search_reset
    PROVE  HInv(m)'
<1> DEFINE n == next[block]
<1>0. PICK o \in H!Ahead : (\A p \in H!Ahead : o <= p) /\ saddr' = o * PAGE_SIZE
  BY DEF H!search_reset
<1> DEFINE s == o * PAGE_SIZE
           e == IF H!IN_SAME_PAGE(s, n) THEN n ELSE s + PAGE_SIZE
<1>1. /\ UNCHANGED <<H!list, counts, upages>> /\ pc = "loop" /\ pc' = "loop"
      /\ align' = align /\ req' = req /\ block' = block /\ saddr' = s /\ eaddr' = e
      /\ ~ (eaddr < saddr) /\ ~ H!AtNext
  BY <1>0 DEF H!search_reset, H!TooFar, H!IN_SAME_PAGE, H!Page
<1>2. block \in blk /\ align \in Nat /\ req \in Nat /\ req >= m /\ saddr \in Nat /\ eaddr \in Nat
  BY <1>1 DEF HInv, HType, Blocks
<1>3. /\ block # H!end /\ H!BLOCK_END(block) <= saddr /\ eaddr <= Limit(block)
      /\ saddr <= eaddr /\ ~ H!AtNext => \E k \in Nat : eaddr = k * PAGE_SIZE
  BY <1>1 DEF HInv, Searching
<1>4. saddr <= eaddr
  BY <1>1, <1>2
<1>5. PICK k \in Nat : eaddr = k * PAGE_SIZE
  BY <1>1, <1>3, <1>4
<1>6. H!Page(eaddr) = k
  BY <1>5, Start
<1>7. /\ n \in blk /\ n \in Nat /\ Limit(block) \in Nat /\ PAGE_SIZE \in Nat \ {0} /\ NR_PAGES \in Nat \ {0}
      /\ n # H!end => Limit(block) = n
      /\ n <= Limit(block) /\ H!BLOCK_END(block) \in Nat
  BY <1>3, Before
<1>9. o \in H!Ahead /\ \A p \in H!Ahead : o <= p
  BY <1>0
<1>10. o \in Nat /\ o \in 0 .. NR_PAGES - 1 /\ o >= k
  BY <1>6, <1>7, <1>9 DEF H!Ahead
<1>11. H!Page(n) \in 0 .. NR_PAGES - 1
  BY <1>7, FirstPage DEF HInv
<1>12. H!Page(n) * PAGE_SIZE <= n /\ n < H!Page(n) * PAGE_SIZE + PAGE_SIZE /\ H!Page(n) \in Nat
  BY <1>7, PageOf
<1>13. k <= H!Page(n)
  <2>1. CASE n = H!end
    <3>1. HDR \in Nat /\ HDR < PAGE_SIZE
      BY DEF HeapSizes
    <3>2. n = NR_PAGES * PAGE_SIZE - HDR
      BY <2>1 DEF H!end, H!Top
    <3>3. H!Page(n) + 1 < NR_PAGES => (H!Page(n) + 1) * PAGE_SIZE + PAGE_SIZE <= NR_PAGES * PAGE_SIZE
      BY <1>7, <1>12, PageOrder
    <3>4. (H!Page(n) + 1) * PAGE_SIZE = H!Page(n) * PAGE_SIZE + PAGE_SIZE /\ H!Page(n) * PAGE_SIZE \in Nat
      BY <1>12, PageOrder
    <3> DEFINE x == H!Page(n) * PAGE_SIZE
               y == NR_PAGES * PAGE_SIZE
               z == (H!Page(n) + 1) * PAGE_SIZE
    <3>5. y \in Nat
      BY <1>7
    <3>6. ~ (H!Page(n) + 1 < NR_PAGES)
      <4> HIDE DEF x, y, z, n
      <4> QED BY <1>7, <1>12, <3>1, <3>2, <3>3, <3>4, <3>5 DEF x, y, z
    <3> QED BY <1>7, <1>10, <1>12, <3>6
  <2>2. CASE n # H!end
    <3>1. eaddr <= n
      BY <1>3, <1>7, <2>2
    <3>2. H!Page(n) < k => H!Page(n) * PAGE_SIZE + PAGE_SIZE <= eaddr
      BY <1>5, <1>12, PageOrder
    <3>3. H!Page(n) * PAGE_SIZE \in Nat
      BY <1>12, PageOrder
    <3> DEFINE x == H!Page(n) * PAGE_SIZE
    <3>4. ~ (H!Page(n) < k)
      <4> HIDE DEF x, n
      <4> QED BY <1>2, <1>7, <1>12, <3>1, <3>2, <3>3 DEF x
    <3> QED BY <1>12, <3>4
  <2> QED BY <2>1, <2>2
<1>14. o <= H!Page(n)
  BY <1>6, <1>9, <1>11, <1>13 DEF H!Ahead
<1>15. s \in Nat /\ H!Page(s) = o /\ eaddr <= s
  BY <1>5, <1>10, Start, PageOrder
<1>16. e = IF o = H!Page(n) THEN n ELSE s + PAGE_SIZE
  BY <1>15 DEF H!IN_SAME_PAGE
<1>17. o < H!Page(n) => s + PAGE_SIZE <= H!Page(n) * PAGE_SIZE
  BY <1>10, <1>12, PageOrder
<1> DEFINE x == H!Page(n) * PAGE_SIZE
<1>18. x \in Nat
  BY <1>12, PageOrder
<1>19. e \in Nat /\ e <= n /\ e <= s + PAGE_SIZE /\ H!BLOCK_END(block) <= s
  <2> HIDE DEF x, n, s, e
  <2>1. e \in Nat /\ e <= n /\ H!BLOCK_END(block) <= s
    BY <1>2, <1>3, <1>4, <1>7, <1>10, <1>12, <1>14, <1>15, <1>16, <1>17, <1>18 DEF x
  <2>2. CASE o = H!Page(n)
    <3>1. s = x
      BY <2>2 DEF s, x
    <3> QED BY <1>7, <1>12, <1>16, <1>18, <2>1, <2>2, <3>1 DEF x
  <2>3. CASE o # H!Page(n)
    BY <1>7, <1>15, <1>16, <2>1, <2>3
  <2> QED BY <2>2, <2>3
<1>20. HType' /\ Blocks(m)' /\ Counted' /\ MemoryApart'
  BY <1>1, <1>2, <1>15, <1>19, Keeps
<1>21. next' = next
  BY <1>1 DEF H!list
<1>22. H!BLOCK_END(block)' = H!BLOCK_END(block)
  BY <1>1 DEF H!BLOCK_END, H!list
<1>23. Limit(block)' = Limit(block)
  BY <1>1, <1>21 DEF Limit, H!end, H!Top
<1>24. ASSUME NEW p \in 0 .. NR_PAGES - 1, H!Page(s) < p, p * PAGE_SIZE < e PROVE FALSE
  <2>1. p \in Nat
    BY <1>7
  <2>2. s + PAGE_SIZE <= p * PAGE_SIZE /\ p * PAGE_SIZE \in Nat
    BY <1>10, <1>15, <1>24, <2>1, PageOrder
  <2> DEFINE y == p * PAGE_SIZE
  <2> HIDE DEF y, e, s
  <2> QED BY <1>7, <1>15, <1>19, <1>24, <2>2 DEF y
<1>25. Free(eaddr)'
  BY <1>1, <1>24 DEF Free, H!Page
<1>26. ~ H!AtNext' => \E l \in Nat : eaddr' = l * PAGE_SIZE
  <2> SUFFICES ASSUME ~ H!AtNext' PROVE \E l \in Nat : eaddr' = l * PAGE_SIZE
    OBVIOUS
  <2>1. o # H!Page(n)
    BY <1>1, <1>15, <1>21 DEF H!AtNext, H!IN_SAME_PAGE, H!Page
  <2>2. eaddr' = (o + 1) * PAGE_SIZE /\ o + 1 \in Nat
    BY <1>1, <1>10, <1>16, <2>1, PageOrder
  <2> QED BY <2>2
<1>27. Searching'
  <2>1. (H!BLOCK_END(block) <= saddr)' /\ (block # H!end)'
    BY <1>1, <1>3, <1>19, <1>22 DEF H!end, H!Top
  <2>2. (eaddr <= Limit(block))'
    <3> HIDE DEF e, n
    <3> QED BY <1>1, <1>7, <1>19, <1>23
  <2> QED BY <1>25, <1>26, <2>1, <2>2 DEF Searching
<1>28. Found'
  BY <1>1 DEF Found
<1> QED BY <1>20, <1>27, <1>28 DEF HInv

\* Counting in a byte.
LEMMA CountModulo ==
    ASSUME NEW m, HeapSizes(m), NEW u \in 0 .. BYTE - 1
    PROVE  /\ u + 1 < BYTE => (u + 1) % BYTE = u + 1
           /\ u > 0 => (u + BYTE - 1) % BYTE = u - 1
           /\ 1 \in 0 .. BYTE - 1
<1>1. BYTE \in Nat /\ BYTE > 3
  <2>1. PAGE_SIZE - 1 \in Nat /\ HDR + m \in Nat \ {0} /\ BYTE \in Nat
    BY DEF HeapSizes
  <2>2. (PAGE_SIZE - 1) \div (HDR + m) \in Nat
    BY <2>1, Division
  <2> QED BY <2>1, <2>2 DEF HeapSizes
<1> QED BY <1>1

\* obtain_page, once for every page of the new block.
LEMMA obtain_pagesInv ==
    ASSUME NEW m, HeapSizes(m), HInv(m), Small, Sums, H!obtain_pages
    PROVE  HInv(m)'
<1>1. /\ pc = "obtain" /\ pc' = "idle" /\ upages' = upages /\ UNCHANGED H!list
      /\ align' = 0 /\ req' = 1 /\ block' = H!heap /\ saddr' = H!heap /\ eaddr' = H!heap
      /\ counts' = [p \in H!PageNo |-> IF p \in H!PagesOf(saddr) THEN (counts[p] + 1) % BYTE ELSE counts[p]]
  BY DEF H!obtain_pages, H!Return
<1>2. blk' = blk /\ size' = size /\ next' = next /\ prev' = prev
  BY <1>1 DEF H!list
<1>3. HType /\ Blocks(m) /\ Counted /\ H!BlocksApart /\ H!SharedOnlyFirst /\ saddr \in blk \ {H!heap, H!end}
  BY <1>1 DEF HInv, Blocks, MemoryApart, H!MemoryApart
<1>4. Pending = {saddr} /\ Pending' = {}
  BY <1>1 DEF Pending
<1>5. ASSUME NEW p \in H!PageNo
      PROVE  /\ counts'[p] \in 0 .. BYTE - 1
             /\ counts'[p] = Cardinality(On(p)) + Cardinality({p} \cap upages)
  <2> DEFINE S == On(p)
             K == Cardinality(S)
             u == Cardinality({p} \cap upages)
  <2>1. IsFiniteSet(S) /\ K \in Nat /\ K + 1 < BYTE
    BY <1>3 DEF Small
  <2>2. /\ u = IF p \in upages THEN 1 ELSE 0
        /\ \A x \in S : Cardinality(S \ {x}) = K - 1 /\ K > 0
        /\ \A x : x \notin S => S \ {x} = S
    BY <2>1 DEF Sums
  <2>3. counts[p] = Cardinality(S \ {saddr}) + u /\ counts[p] \in 0 .. BYTE - 1
    BY <1>3, <1>4 DEF Counted, HType
  <2>4. saddr \in S <=> p \in H!PagesOf(saddr)
    BY <1>3 DEF On
  <2>5. BYTE \in Nat
    BY DEF HeapSizes
  <2> HIDE DEF S, K, u
  <2>6. CASE saddr \in S
    <3>1. counts[p] + 1 = K + u /\ counts[p] + 1 < BYTE
      BY <2>1, <2>2, <2>3, <2>5, <2>6
    <3>2. (counts[p] + 1) % BYTE = counts[p] + 1
      BY <2>3, <3>1, CountModulo
    <3>3. counts'[p] = counts[p] + 1
      BY <1>1, <2>4, <2>6, <3>2
    <3>4. counts'[p] = K + u /\ counts'[p] \in 0 .. BYTE - 1
      BY <2>3, <2>5, <3>1, <3>3
    <3> QED BY <3>4 DEF K, u, S
  <2>7. CASE saddr \notin S
    <3>1. counts'[p] = counts[p]
      BY <1>1, <2>4, <2>7
    <3>2. counts'[p] = K + u /\ counts'[p] \in 0 .. BYTE - 1
      BY <2>2, <2>3, <2>7, <3>1 DEF K
    <3> QED BY <3>2 DEF K, u, S
  <2> QED BY <2>6, <2>7
<1>6. HType'
  <2>1. counts' \in [H!PageNo -> 0 .. BYTE - 1]
    BY <1>1, <1>5
  <2>2. H!heap \in blk /\ H!heap \in Nat
    BY <1>3 DEF HType, H!heap
  <2> QED BY <1>1, <1>2, <1>3, <2>1, <2>2 DEF HType, H!PageNo, H!Stray, H!heap, H!end, H!Top
<1>7. Blocks(m)'
  BY <1>1, <1>2, <1>3 DEF Blocks, H!heap, H!end, H!Top
<1>8. Counted'
  BY <1>1, <1>4, <1>5, ListKept DEF Counted, H!PageNo, H!Stray
<1>9. H!BlocksApart'
  BY <1>1, <1>3, ListKept
<1>10. H!SharedOnlyFirst'
  BY <1>1, <1>2, <1>3, ListKept DEF H!SharedOnlyFirst, H!heap, H!end, H!Top, H!Page
<1>11. Searching' /\ Found'
  BY <1>1 DEF Searching, Found
<1> QED BY <1>6, <1>7, <1>8, <1>9, <1>10, <1>11 DEF HInv, MemoryApart, H!MemoryApart

\* kfree gives the pages back.
LEMMA kfreeInv ==
    ASSUME NEW m, HeapSizes(m), HInv(m), Small, Sums, NEW b \in blk, H!kfree(b)
    PROVE  HInv(m)'
<1>1. /\ pc = "idle" /\ pc' = "unlink" /\ upages' = upages /\ UNCHANGED H!list
      /\ align' = align /\ req' = req /\ block' = b /\ saddr' = saddr /\ eaddr' = eaddr
      /\ counts' = [p \in H!PageNo |-> IF p \in H!PagesOf(b) THEN (counts[p] + BYTE - 1) % BYTE ELSE counts[p]]
      /\ b \in blk \ {H!heap, H!end}
  BY DEF H!kfree, H!Goto
<1>2. blk' = blk /\ size' = size /\ next' = next /\ prev' = prev
  BY <1>1 DEF H!list
<1>3. HType /\ Blocks(m) /\ Counted /\ H!BlocksApart /\ H!SharedOnlyFirst
  BY <1>1 DEF HInv, MemoryApart, H!MemoryApart
<1>4. Pending = {} /\ Pending' = {b}
  BY <1>1 DEF Pending
<1>5. ASSUME NEW p \in H!PageNo
      PROVE  /\ counts'[p] \in 0 .. BYTE - 1
             /\ counts'[p] = Cardinality(On(p) \ {b}) + Cardinality({p} \cap upages)
  <2> DEFINE S == On(p)
             K == Cardinality(S)
             u == Cardinality({p} \cap upages)
  <2>1. IsFiniteSet(S) /\ K \in Nat
    BY <1>3 DEF Small
  <2>2. /\ u = IF p \in upages THEN 1 ELSE 0
        /\ \A x \in S : Cardinality(S \ {x}) = K - 1 /\ K > 0
        /\ \A x : x \notin S => S \ {x} = S
    BY <2>1 DEF Sums
  <2>3. counts[p] = K + u /\ counts[p] \in 0 .. BYTE - 1
    <3>1. S \ {} = S
      OBVIOUS
    <3> QED BY <1>3, <1>4, <3>1 DEF Counted, HType
  <2>4. b \in S <=> p \in H!PagesOf(b)
    BY <1>1 DEF On
  <2>5. BYTE \in Nat
    BY DEF HeapSizes
  <2> HIDE DEF S, K, u
  <2>6. CASE b \in S
    <3>1. counts[p] > 0 /\ counts[p] - 1 = Cardinality(S \ {b}) + u
      BY <2>1, <2>2, <2>3, <2>6
    <3>2. (counts[p] + BYTE - 1) % BYTE = counts[p] - 1
      BY <2>3, <3>1, CountModulo
    <3>3. counts'[p] = counts[p] - 1
      BY <1>1, <2>4, <2>6, <3>2
    <3>4. counts'[p] = Cardinality(S \ {b}) + u /\ counts'[p] \in 0 .. BYTE - 1
      BY <2>3, <2>5, <3>1, <3>3
    <3> QED BY <3>4 DEF u, S
  <2>7. CASE b \notin S
    <3>1. counts'[p] = counts[p]
      BY <1>1, <2>4, <2>7
    <3>2. counts'[p] = Cardinality(S \ {b}) + u /\ counts'[p] \in 0 .. BYTE - 1
      BY <2>2, <2>3, <2>7, <3>1 DEF K
    <3> QED BY <3>2 DEF u, S
  <2> QED BY <2>6, <2>7
<1>6. HType'
  <2>1. counts' \in [H!PageNo -> 0 .. BYTE - 1]
    BY <1>1, <1>5
  <2> QED BY <1>1, <1>2, <1>3, <2>1 DEF HType, H!PageNo, H!Stray, H!heap, H!end, H!Top
<1>7. Blocks(m)'
  BY <1>1, <1>2, <1>3 DEF Blocks, H!heap, H!end, H!Top
<1>8. Counted'
  BY <1>1, <1>4, <1>5, ListKept DEF Counted, H!PageNo, H!Stray
<1>9. H!BlocksApart'
  BY <1>1, <1>3, ListKept
<1>10. H!SharedOnlyFirst'
  BY <1>1, <1>2, <1>3, ListKept DEF H!SharedOnlyFirst, H!heap, H!end, H!Top, H!Page
<1>11. Searching' /\ Found'
  BY <1>1 DEF Searching, Found
<1> QED BY <1>6, <1>7, <1>8, <1>9, <1>10, <1>11 DEF HInv, MemoryApart, H!MemoryApart

-----------------------------------------------------------------------------
(* Counting.  The facts about finite sets come late in this module: they     *)
(* would make every obligation above larger.                               *)

\* alloc_page and free_page change the counter of one page, between calls.
LEMMA PageStep ==
    ASSUME NEW m, HeapSizes(m), HInv(m), pc = "idle", UNCHANGED <<H!list, pc, H!call>>,
           NEW p \in H!PageNo, NEW v \in 0 .. BYTE - 1, counts' = [counts EXCEPT ![p] = v],
           upages' \in SUBSET H!PageNo,
           \A q \in H!PageNo \ {p} : q \in upages' <=> q \in upages,
           v = Cardinality(On(p)) + Cardinality({p} \cap upages'),
           p \in upages' => p \in upages \/ On(p) = {}
    PROVE  HInv(m)'
<1>1. /\ blk' = blk /\ size' = size /\ next' = next /\ prev' = prev /\ UNCHANGED H!list
      /\ pc' = pc /\ align' = align /\ req' = req /\ block' = block /\ saddr' = saddr /\ eaddr' = eaddr
  BY DEF H!list, H!call
<1>2. HType /\ Blocks(m) /\ Counted /\ H!BlocksApart /\ H!SharedOnlyFirst
  BY DEF HInv, MemoryApart, H!MemoryApart
<1>3. Pending = {} /\ Pending' = {}
  BY <1>1 DEF Pending
<1>4. HType'
  <2>1. counts' \in [H!PageNo -> 0 .. BYTE - 1]
    BY <1>2 DEF HType
  <2> QED BY <1>1, <1>2, <2>1 DEF HType, H!PageNo, H!Stray, H!heap, H!end, H!Top
<1>5. Blocks(m)'
  BY <1>1, <1>2 DEF Blocks, H!heap, H!end, H!Top
<1>6. Counted'
  <2>1. ASSUME NEW q \in H!PageNo
        PROVE  counts'[q] = Cardinality(On(q)) + Cardinality({q} \cap upages')
    <3>1. CASE q = p
      BY <1>2, <3>1 DEF HType
    <3>2. CASE q # p
      <4>1. {q} \cap upages' = {q} \cap upages /\ On(q) \ {} = On(q) /\ counts'[q] = counts[q]
        BY <1>2, <3>2 DEF HType
      <4>2. counts[q] = Cardinality(On(q) \ {}) + Cardinality({q} \cap upages)
        BY <1>2, <1>3 DEF Counted
      <4> QED BY <4>1, <4>2
    <3> QED BY <3>1, <3>2
  <2>2. \A q : On(q)' \ Pending' = On(q)
    BY <1>1, <1>3, ListKept
  <2> QED BY <2>1, <2>2 DEF Counted, H!PageNo, H!Stray
<1>7. H!BlocksApart'
  BY <1>1, <1>2, ListKept
<1>8. H!SharedOnlyFirst'
  <2>1. ASSUME NEW b \in blk \ {H!heap, H!end}, NEW q \in H!PagesOf(b), q \in upages'
        PROVE  q = H!Page(b)
    <3>1. b \in On(q)
      BY <2>1 DEF On
    <3>2. q \in upages
      BY <2>1, <3>1
    <3> QED BY <1>2, <2>1, <3>2 DEF H!SharedOnlyFirst
  <2>2. \A b : H!PagesOf(b)' = H!PagesOf(b)
    BY <1>1, ListKept
  <2> QED BY <1>1, <2>1, <2>2 DEF H!SharedOnlyFirst, H!heap, H!end, H!Top, H!Page
<1>9. Searching' /\ Found'
  BY <1>1 DEF Searching, Found
<1> QED BY <1>4, <1>5, <1>6, <1>7, <1>8, <1>9 DEF HInv, MemoryApart, H!MemoryApart

\* A page that alloc_page finds has no block on it.
LEMMA alloc_pageInv ==
    ASSUME NEW m, HeapSizes(m), HInv(m), HasUsers, Small, Sums, H!alloc_page
    PROVE  HInv(m)'
<1>1. HType /\ Blocks(m) /\ Counted /\ H!BlocksApart
  BY DEF HInv, MemoryApart, H!MemoryApart
<1>2. PICK p \in DOMAIN counts : /\ counts[p] = 0
                                 /\ counts' = [counts EXCEPT ![p] = 1]
                                 /\ upages' = upages \cup {p}
  BY DEF H!alloc_page
<1>3. p \in H!PageNo /\ upages' \in SUBSET H!PageNo
  BY <1>1, <1>2 DEF HType
<1>4. pc = "idle" /\ UNCHANGED <<H!list, pc, H!call>>
  BY DEF H!alloc_page
<1>5. On(p) = {}
  BY <1>1, <1>2, <1>3, <1>4 DEF HasUsers, Pending
<1>6. Cardinality(On(p)) = 0 /\ Cardinality({p} \cap upages') = 1
  <2>1. {p} \cap {} = {}
    OBVIOUS
  <2> QED BY <1>2, <1>5, <2>1 DEF Sums
<1>7. 0 \in 0 .. BYTE - 1 /\ 1 \in 0 .. BYTE - 1
  <2>1. 0 \in 0 .. BYTE - 1
    BY <1>1, <1>2, <1>3 DEF HType
  <2> QED BY <2>1, CountModulo
<1>8. 1 = Cardinality(On(p)) + Cardinality({p} \cap upages')
  BY <1>6
<1> QED BY <1>2, <1>3, <1>4, <1>5, <1>7, <1>8, PageStep

\* free_page takes back the one that alloc_page counted.
LEMMA free_pageInv ==
    ASSUME NEW m, HeapSizes(m), HInv(m), Small, Sums, NEW p \in upages, H!free_page(p)
    PROVE  HInv(m)'
<1>1. HType /\ Blocks(m) /\ Counted /\ H!BlocksApart /\ p \in H!PageNo
  BY DEF HInv, HType, MemoryApart, H!MemoryApart
<1>2. /\ pc = "idle" /\ UNCHANGED <<H!list, pc, H!call>>
      /\ counts' = [counts EXCEPT ![p] = (counts[p] + BYTE - 1) % BYTE]
      /\ upages' = upages \ {p}
  BY DEF H!free_page
<1>3. IsFiniteSet(On(p)) /\ Cardinality(On(p)) \in Nat
  BY <1>1 DEF Small
<1>4. Cardinality({p} \cap upages) = 1 /\ Cardinality({p} \cap upages') = 0
  BY <1>2, <1>3 DEF Sums
<1>5. counts[p] = Cardinality(On(p)) + Cardinality({p} \cap upages) /\ counts[p] \in 0 .. BYTE - 1
  <2>1. On(p) \ {} = On(p) /\ Pending = {}
    BY <1>2 DEF Pending
  <2> QED BY <1>1, <2>1 DEF Counted, HType
<1>6. counts[p] > 0 /\ counts[p] - 1 = Cardinality(On(p)) + Cardinality({p} \cap upages')
  BY <1>3, <1>4, <1>5
<1>7. (counts[p] + BYTE - 1) % BYTE = counts[p] - 1
  BY <1>5, <1>6, CountModulo
<1>8. counts[p] - 1 \in 0 .. BYTE - 1 /\ BYTE \in Nat
  BY <1>5, <1>6 DEF HeapSizes
<1>9. upages' \in SUBSET H!PageNo /\ \A q \in H!PageNo \ {p} : q \in upages' <=> q \in upages
  BY <1>1, <1>2 DEF HType
<1>10. counts' = [counts EXCEPT ![p] = counts[p] - 1] /\ ~ (p \in upages')
  BY <1>2, <1>7
<1> QED BY <1>1, <1>2, <1>6, <1>8, <1>9, <1>10, PageStep

\* init_page and init_heap: two headers, and the counter of the first page.
LEMMA HeapInit ==
    ASSUME NEW m, HeapSizes(m), Sums, H!Init
    PROVE  HInv(m)
<1>1. /\ PAGE_SIZE \in Nat \ {0} /\ NR_PAGES \in Nat \ {0} /\ HDR \in Nat \ {0} /\ HDR < PAGE_SIZE
  BY DEF HeapSizes
<1>2. 1 * PAGE_SIZE <= NR_PAGES * PAGE_SIZE /\ NR_PAGES * PAGE_SIZE \in Nat /\ 1 * PAGE_SIZE = PAGE_SIZE
  BY <1>1, PageOrder
<1>3. H!Top \in Nat /\ H!end \in Nat /\ H!heap = 0 /\ H!end = H!Top - HDR /\ H!end > 0 /\ PAGE_SIZE <= H!Top
  BY <1>1, <1>2 DEF H!Top, H!end, H!heap
<1>4. /\ blk = {H!heap, H!end} /\ size = [b \in blk |-> 0]
      /\ prev = [b \in blk |-> IF b = H!heap THEN H!end ELSE H!heap]
      /\ next = [b \in blk |-> IF b = H!heap THEN H!end ELSE H!heap]
      /\ counts = [p \in H!PageNo |-> IF p = 0 THEN 1 ELSE 0]
      /\ upages = {} /\ pc = "idle" /\ align = 0 /\ req = 1
      /\ block = H!heap /\ saddr = H!heap /\ eaddr = H!heap
  BY DEF H!Init
<1>5. HType
  <2>1. 0 \in 0 .. BYTE - 1 /\ 1 \in 0 .. BYTE - 1
    <3>1. BYTE \in Nat /\ 0 \in 0 .. BYTE - 1
      BY DEF HeapSizes
    <3> QED BY <3>1, CountModulo
  <2>2. counts \in [H!PageNo -> 0 .. BYTE - 1]
    BY <1>4, <2>1
  <2>3. size \in [blk -> Nat] /\ prev \in [blk -> blk] /\ next \in [blk -> blk]
    BY <1>4
  <2> QED BY <1>3, <1>4, <2>2, <2>3 DEF HType
<1>6. Blocks(m)
  BY <1>3, <1>4 DEF Blocks
<1>7. H!BLOCK_END(H!heap) = HDR
  BY <1>1, <1>3, <1>4 DEF H!BLOCK_END
<1>8. H!BlocksApart
  BY <1>1, <1>3, <1>4, <1>7 DEF H!BlocksApart
<1>9. H!SharedOnlyFirst
  BY <1>4 DEF H!SharedOnlyFirst
<1>10. ASSUME NEW p \in H!PageNo PROVE On(p) = IF p = 0 THEN {H!heap} ELSE {}
  <2>1. p \in Nat
    BY <1>1 DEF H!PageNo, H!Stray
  <2>2. H!Page(0) = 0
    <3>1. 0 * PAGE_SIZE = 0
      BY <1>1
    <3> QED BY <1>1, <3>1, PageIs
  <2>3. p \in H!PagesOf(H!heap) <=> p \in 0 .. NR_PAGES - 1 /\ 0 <= p /\ p * PAGE_SIZE < HDR
    BY <1>1, <1>3, <1>7, <2>1, <2>2, PagesAre
  <2>4. /\ p # 0 => PAGE_SIZE <= p * PAGE_SIZE
        /\ p * PAGE_SIZE \in Nat
    <3>1. 0 < p => 0 * PAGE_SIZE + PAGE_SIZE <= p * PAGE_SIZE
      BY <2>1, PageOrder
    <3>2. 0 * PAGE_SIZE + PAGE_SIZE = PAGE_SIZE
      BY <1>1
    <3> QED BY <2>1, <3>1, <3>2, PageOrder
  <2>5. p \in H!PagesOf(H!heap) <=> p = 0
    <3>1. CASE p = 0
      <4>1. 0 * PAGE_SIZE = 0
        BY <1>1
      <4> QED BY <1>1, <2>3, <3>1, <4>1
    <3>2. CASE p # 0
      <4> DEFINE y == p * PAGE_SIZE
      <4>1. ~ (y < HDR)
        <5> HIDE DEF y
        <5> QED BY <1>1, <2>4, <3>2 DEF y
      <4> QED BY <2>3, <3>2, <4>1
    <3> QED BY <3>1, <3>2
  <2>6. blk \ {H!end} = {H!heap}
    BY <1>3, <1>4
  <2> QED BY <2>5, <2>6 DEF On
<1>11. Counted
  <2>1. Pending = {}
    BY <1>4 DEF Pending
  <2>2. Cardinality({}) = 0 /\ Cardinality({H!heap}) = 1
    <3>1. {0} \cap {} = {} /\ {H!heap} \cap {H!heap} = {H!heap}
      OBVIOUS
    <3> QED BY <3>1 DEF Sums
  <2>3. ASSUME NEW p \in H!PageNo
        PROVE  counts[p] = Cardinality(On(p) \ Pending) + Cardinality({p} \cap upages)
    <3>1. On(p) \ Pending = On(p) /\ {p} \cap upages = {}
      BY <1>4, <2>1
    <3> QED BY <1>4, <1>10, <2>2, <3>1
  <2> QED BY <2>3 DEF Counted
<1>12. Searching /\ Found
  BY <1>4 DEF Searching, Found
<1> QED BY <1>5, <1>6, <1>8, <1>9, <1>11, <1>12 DEF HInv, MemoryApart, H!MemoryApart

\* No block reaches into a later one.
LEMMA Gap ==
    ASSUME NEW m, HeapSizes(m), HType, H!BlocksApart,
           NEW b \in blk \ {H!end}, NEW c \in blk \ {H!end}, b < c
    PROVE  H!BLOCK_END(b) <= c
<1>1. b \in Nat /\ c \in Nat /\ next[b] \in blk /\ next[b] \in Nat /\ H!BLOCK_END(b) \in Nat /\ c <= H!end /\ H!end \in Nat
  BY HeapTypes DEF HType
<1>2. c >= next[b]
  BY <1>1 DEF H!BlocksApart
<1>3. next[b] # H!end
  BY <1>1, <1>2
<1>4. H!BLOCK_END(b) <= next[b]
  BY <1>3 DEF H!BlocksApart
<1> QED BY <1>1, <1>2, <1>4

\* Places that are a block's length apart have different quotients.
LEMMA Quotients ==
    ASSUME NEW D \in Nat \ {0}, NEW x \in Nat, NEW y \in Nat, x + D <= y
    PROVE  x \div D # y \div D
<1> DEFINE q == x \div D
           p == y \div D
<1>1. q \in Nat /\ x % D \in 0 .. D - 1 /\ x = D * q + (x % D)
  BY Division
<1>2. p \in Nat /\ y % D \in 0 .. D - 1 /\ y = D * p + (y % D)
  BY Division
<1> HIDE DEF q, p
<1>3. D * q \in Nat /\ D * p \in Nat
  BY <1>1, <1>2
<1>4. q # p
  BY <1>1, <1>2, <1>3
<1> QED BY <1>4 DEF q, p

\* Division keeps the order.
LEMMA QuotientLess ==
    ASSUME NEW D \in Nat \ {0}, NEW x \in Nat, NEW y \in Nat, x <= y
    PROVE  x \div D <= y \div D
<1> DEFINE q == x \div D
           p == y \div D
<1>1. q \in Nat /\ x % D \in 0 .. D - 1 /\ x = D * q + (x % D)
  BY Division
<1>2. p \in Nat /\ y % D \in 0 .. D - 1 /\ y = D * p + (y % D)
  BY Division
<1> HIDE DEF q, p
<1>3. D * q \in Nat /\ D * p \in Nat
  BY <1>1, <1>2
<1>4. ~ (p < q)
  <2>1. p < q => D * p + D <= D * q
    BY <1>1, <1>2, Multiples
  <2> QED BY <1>1, <1>2, <1>3, <2>1
<1>5. q <= p
  BY <1>1, <1>2, <1>4
<1> QED BY <1>5 DEF q, p

\* A page has fewer places for blocks than a byte can count: every block takes
\* one, by the distance from the beginning of the page, and the block that
\* begins before the page another.
LEMMA Places ==
    ASSUME NEW m, HeapSizes(m), HType, Blocks(m), H!BlocksApart, NEW p \in H!PageNo
    PROVE  \E N \in Nat : /\ N + 3 < BYTE
                         /\ \E f \in [On(p) -> 0 .. N + 1] :
                                \A b, c \in On(p) : f[b] = f[c] => b = c
<1> DEFINE D == HDR + m
           base == p * PAGE_SIZE
           N == (PAGE_SIZE - 1) \div D
           Rest(b) == H!Page(b) < p \/ b = H!heap
           f == [b \in On(p) |-> IF Rest(b) THEN 0 ELSE 1 + ((b - base) \div D)]
<1>1. /\ PAGE_SIZE \in Nat \ {0} /\ NR_PAGES \in Nat \ {0} /\ HDR \in Nat \ {0} /\ m \in Nat \ {0}
      /\ D \in Nat \ {0} /\ BYTE \in Nat /\ N + 3 < BYTE /\ HDR < PAGE_SIZE
  BY DEF HeapSizes
<1>2. p \in Nat /\ base \in Nat
  BY <1>1, PageOrder DEF H!PageNo, H!Stray
<1>3. N \in Nat
  <2>1. PAGE_SIZE - 1 \in Nat
    BY <1>1
  <2> QED BY <1>1, <2>1, Division
<1>4. ASSUME NEW b \in On(p)
      PROVE  /\ b \in blk \ {H!end} /\ b \in Nat /\ H!BLOCK_END(b) \in Nat /\ H!BLOCK_END(b) = b + HDR + size[b]
             /\ H!Page(b) \in Nat /\ H!Page(b) <= p /\ base < H!BLOCK_END(b)
             /\ Rest(b) \/ (H!Page(b) = p /\ base <= b /\ b < base + PAGE_SIZE /\ size[b] >= m)
  <2>1. b \in blk \ {H!end} /\ b \in Nat /\ H!BLOCK_END(b) \in Nat /\ H!BLOCK_END(b) = b + HDR + size[b] /\ p \in H!PagesOf(b)
    BY HeapTypes DEF On
  <2>2. H!Page(b) <= p /\ base < H!BLOCK_END(b)
    BY <1>2, <2>1, PagesAre
  <2>3. H!Page(b) \in Nat /\ H!Page(b) * PAGE_SIZE <= b /\ b < H!Page(b) * PAGE_SIZE + PAGE_SIZE
    BY <2>1, PageOf
  <2>4. b # H!heap => size[b] >= m
    BY <2>1 DEF Blocks
  <2> QED BY <1>2, <2>1, <2>2, <2>3, <2>4
<1>5. ASSUME NEW b \in On(p), NEW c \in On(p), Rest(b), Rest(c), b < c PROVE FALSE
  <2>1. H!BLOCK_END(b) <= c
    BY <1>4, <1>5, Gap
  <2>2. c # H!heap
    BY <1>4, <1>5 DEF H!heap
  <2>3. H!Page(c) < p
    BY <1>5, <2>2
  <2>4. c < H!Page(c) * PAGE_SIZE + PAGE_SIZE /\ H!Page(c) * PAGE_SIZE + PAGE_SIZE <= base
    BY <1>2, <1>4, <2>3, PageOf, PageOrder
  <2> DEFINE x == H!Page(c) * PAGE_SIZE
  <2>5. x \in Nat
    BY <1>1, <1>4
  <2> HIDE DEF x, base
  <2> QED BY <1>1, <1>2, <1>4, <2>1, <2>4, <2>5 DEF x
<1>6. ASSUME NEW b \in On(p), ~ Rest(b)
      PROVE  b - base \in Nat /\ (b - base) \div D \in 0 .. N
  <2>1. b - base \in Nat /\ b - base <= PAGE_SIZE - 1
    <3> HIDE DEF base
    <3> QED BY <1>1, <1>2, <1>4, <1>6
  <2>2. (b - base) \div D <= N
    BY <1>1, <2>1, QuotientLess
  <2>3. (b - base) \div D \in Nat
    BY <1>1, <2>1, Division
  <2> QED BY <1>3, <2>1, <2>2, <2>3
<1>7. ASSUME NEW b \in On(p), NEW c \in On(p), ~ Rest(b), ~ Rest(c), b < c
      PROVE  (b - base) \div D # (c - base) \div D
  <2>1. H!BLOCK_END(b) <= c
    BY <1>4, <1>7, Gap
  <2>2. (b - base) + D <= c - base /\ b - base \in Nat /\ c - base \in Nat
    <3>1. size[b] >= m /\ size[b] \in Nat
      BY <1>4, <1>7 DEF HType
    <3> HIDE DEF base
    <3> QED BY <1>1, <1>2, <1>4, <1>6, <1>7, <2>1, <3>1
  <2> QED BY <1>1, <2>2, Quotients
<1>8. f \in [On(p) -> 0 .. N + 1]
  <2> DEFINE g(b) == (b - base) \div D
  <2>1. \A b \in On(p) : ~ Rest(b) => g(b) \in 0 .. N
    BY <1>6
  <2> HIDE DEF g, Rest, N
  <2>2. \A b \in On(p) : (IF Rest(b) THEN 0 ELSE 1 + g(b)) \in 0 .. N + 1
    BY <1>3, <2>1
  <2>3. f = [b \in On(p) |-> IF Rest(b) THEN 0 ELSE 1 + g(b)]
    BY DEF g
  <2> QED BY <2>2, <2>3
<1>9. ASSUME NEW b \in On(p), NEW c \in On(p), f[b] = f[c] PROVE b = c
  <2> DEFINE g(x) == (x - base) \div D
  <2>1. \A x \in On(p) : f[x] = IF Rest(x) THEN 0 ELSE 1 + g(x)
    OBVIOUS
  <2>2. \A x \in On(p) : ~ Rest(x) => g(x) \in Nat
    BY <1>3, <1>6
  <2>3. \A x, y \in On(p) : ~ Rest(x) /\ ~ Rest(y) /\ x < y => g(x) # g(y)
    BY <1>7
  <2>4. \A x, y \in On(p) : Rest(x) /\ Rest(y) => ~ (x < y)
    BY <1>5
  <2>5. b \in Nat /\ c \in Nat
    BY <1>4
  <2> HIDE DEF g, f, Rest
  <2> QED BY <1>9, <2>1, <2>2, <2>3, <2>4, <2>5
<1> HIDE DEF N, f
<1> QED BY <1>1, <1>3, <1>8, <1>9

INSTANCE FiniteSetTheorems

\* So obtain_page does not wrap.
LEMMA Few ==
    ASSUME NEW m, HeapSizes(m), HType, Blocks(m), H!BlocksApart
    PROVE  Small
<1> SUFFICES ASSUME NEW p \in H!PageNo
             PROVE  IsFiniteSet(On(p)) /\ Cardinality(On(p)) \in Nat /\ Cardinality(On(p)) + 1 < BYTE
  BY DEF Small
<1>1. PICK N \in Nat : /\ N + 3 < BYTE
                       /\ \E f \in [On(p) -> 0 .. N + 1] : \A b, c \in On(p) : f[b] = f[c] => b = c
  BY Places
<1>2. PICK f \in [On(p) -> 0 .. N + 1] : \A b, c \in On(p) : f[b] = f[c] => b = c
  BY <1>1
<1>3. f \in Injection(On(p), 0 .. N + 1)
  BY <1>2 DEF Injection, IsInjective
<1>4. IsFiniteSet(0 .. N + 1) /\ Cardinality(0 .. N + 1) = N + 2
  <2>1. 0 \in Int /\ N + 1 \in Int
    OBVIOUS
  <2>2. IsFiniteSet(0 .. N + 1) /\ Cardinality(0 .. N + 1) = IF 0 > N + 1 THEN 0 ELSE (N + 1) - 0 + 1
    BY <2>1, FS_Interval
  <2> QED BY <2>2
<1>5. IsFiniteSet(On(p)) /\ Cardinality(On(p)) <= Cardinality(0 .. N + 1)
  BY <1>3, <1>4, FS_Injection
<1>6. Cardinality(On(p)) \in Nat
  BY <1>5, FS_CardinalityType
<1>7. BYTE \in Nat
  BY DEF HeapSizes
<1> QED BY <1>1, <1>4, <1>5, <1>6, <1>7

\* The counters tell which pages are in use.
LEMMA Busy ==
    ASSUME NEW m, HeapSizes(m), HType, Blocks(m), H!BlocksApart, Counted
    PROVE  HasUsers
<1> SUFFICES ASSUME NEW p \in H!PageNo
             PROVE  /\ \A b \in blk \ {H!end} : b \notin Pending /\ p \in H!PagesOf(b) => counts[p] > 0
                    /\ p \in upages => counts[p] > 0
                    /\ counts[p] = 0 => On(p) \ Pending = {} /\ p \notin upages
  BY DEF HasUsers
<1> DEFINE S == On(p) \ Pending
           U == {p} \cap upages
<1>1. IsFiniteSet(S) /\ Cardinality(S) \in Nat
  <2>1. IsFiniteSet(S)
    BY Few, FS_Subset DEF Small
  <2> QED BY <2>1, FS_CardinalityType
<1>2. IsFiniteSet(U) /\ Cardinality(U) \in Nat
  <2>1. IsFiniteSet(U)
    BY FS_Singleton, FS_Subset
  <2> QED BY <2>1, FS_CardinalityType
<1>3. (Cardinality(S) = 0 <=> S = {}) /\ (Cardinality(U) = 0 <=> U = {})
  BY <1>1, <1>2, FS_EmptySet
<1>4. counts[p] = Cardinality(S) + Cardinality(U)
  BY DEF Counted
<1> HIDE DEF S, U
<1>5. counts[p] = 0 => S = {} /\ U = {}
  BY <1>1, <1>2, <1>3, <1>4
<1>6. counts[p] = 0 \/ counts[p] > 0
  BY <1>1, <1>2, <1>4
<1> QED BY <1>5, <1>6 DEF S, U, On

\* The two summands of a page's counter.
LEMMA Summands ==
    Sums
<1> SUFFICES ASSUME NEW S, NEW U, NEW p
             PROVE  /\ Cardinality({p} \cap U) = IF p \in U THEN 1 ELSE 0
                    /\ IsFiniteSet(S) =>
                          /\ Cardinality(S) \in Nat
                          /\ \A x \in S : Cardinality(S \ {x}) = Cardinality(S) - 1 /\ Cardinality(S) > 0
  BY DEF Sums
<1>1. Cardinality({p} \cap U) = IF p \in U THEN 1 ELSE 0
  <2>1. CASE p \in U
    <3>1. {p} \cap U = {p}
      BY <2>1
    <3> QED BY <2>1, <3>1, FS_Singleton
  <2>2. CASE p \notin U
    <3>1. {p} \cap U = {}
      BY <2>2
    <3> QED BY <2>2, <3>1, FS_EmptySet
  <2> QED BY <2>1, <2>2
<1>2. IsFiniteSet(S) => Cardinality(S) \in Nat
  BY FS_CardinalityType
<1>3. ASSUME IsFiniteSet(S), NEW x \in S PROVE Cardinality(S \ {x}) = Cardinality(S) - 1 /\ Cardinality(S) > 0
  <2>1. Cardinality(S \ {x}) = Cardinality(S) - 1
    BY <1>3, FS_RemoveElement
  <2>2. Cardinality(S) # 0
    BY <1>3, FS_EmptySet
  <2> QED BY <1>2, <1>3, <2>1, <2>2
<1> QED BY <1>1, <1>2, <1>3

\* Every step keeps the invariant.
LEMMA HeapStep ==
    ASSUME NEW m, HeapSizes(m), HInv(m), [H!Next]_(H!vars)
    PROVE  HInv(m)'
<1>0. HasUsers /\ Small /\ Sums
  BY Busy, Few, Summands DEF HInv, MemoryApart, H!MemoryApart
<1>1. CASE \E r \in Requests : H!kmemalign(r[1], r[2])
  BY <1>1, kmemalignInv
<1>2. CASE H!search_begin \/ H!search_fails \/ H!search_next
  BY <1>2, search_beginInv, search_failsInv, search_nextInv
<1>3. CASE H!search_found \/ H!search_extend \/ H!search_reset
  BY <1>0, <1>3, search_foundInv, search_extendInv, search_resetInv
<1>4. CASE H!link_block \/ H!obtain_pages \/ H!unlink_block
  BY <1>0, <1>4, link_blockInv, obtain_pagesInv, unlink_blockInv
<1>5. CASE \E b \in blk : H!kfree(b)
  BY <1>0, <1>5, kfreeInv
<1>6. CASE H!alloc_page \/ \E p \in upages : H!free_page(p)
  BY <1>0, <1>6, alloc_pageInv, free_pageInv
<1>7. CASE UNCHANGED H!vars
  <2>1. /\ blk' = blk /\ size' = size /\ next' = next /\ prev' = prev /\ UNCHANGED H!list
        /\ counts' = counts /\ upages' = upages
        /\ pc' = pc /\ align' = align /\ req' = req /\ block' = block /\ saddr' = saddr /\ eaddr' = eaddr
    BY <1>7 DEF H!vars, H!list, H!call
  <2>2. HType' /\ Blocks(m)'
    BY <2>1 DEF HInv, HType, Blocks, H!PageNo, H!Stray, H!heap, H!end, H!Top
  <2>3. Pending' = Pending
    BY <2>1 DEF Pending
  <2>4. Counted'
    BY <2>1, <2>3, ListKept DEF HInv, Counted, H!PageNo, H!Stray
  <2>5. H!BlocksApart' /\ H!SharedOnlyFirst'
    BY <2>1, ListKept DEF HInv, MemoryApart, H!MemoryApart, H!SharedOnlyFirst, H!heap, H!end, H!Top, H!Page
  <2>6. Limit(block)' = Limit(block) /\ H!BLOCK_END(block)' = H!BLOCK_END(block) /\ H!AtNext' = H!AtNext
    BY <2>1 DEF Limit, H!BLOCK_END, H!AtNext, H!IN_SAME_PAGE, H!Page, H!end, H!Top
  <2>7. Free(eaddr)' = Free(eaddr) /\ Free(saddr + HDR + req)' = Free(saddr + HDR + req)
    BY <2>1 DEF Free, H!Page
  <2>8. Searching' /\ Found'
    BY <2>1, <2>6, <2>7 DEF HInv, Searching, Found, H!end, H!Top
  <2> QED BY <2>2, <2>4, <2>5, <2>8 DEF HInv, MemoryApart, H!MemoryApart
<1> QED BY <1>1, <1>2, <1>3, <1>4, <1>5, <1>6, <1>7 DEF H!Next

\* For every memory, page and header size and all requests of at least m bytes:
\* the blocks of the heap do not overlap, its list is in the order of their
\* addresses, and a page that a task holds is not given to a block, but for the
\* page in which the block begins (kmalloc.c: search_interspace).
THEOREM HeapApart == ASSUME NEW m, HeapSizes(m) PROVE H!Spec => []MemoryApart
<1>1. H!Init => HInv(m)
  BY HeapInit, Summands
<1>2. HInv(m) /\ [H!Next]_(H!vars) => HInv(m)'
  BY HeapStep
<1>3. HInv(m) => MemoryApart
  BY DEF HInv
<1> QED BY <1>1, <1>2, <1>3, PTL DEF H!Spec

\* Under the same assumptions _page_users of a page is the number of the blocks
\* and tasks on it whenever no call is in progress: obtain_page does not wrap,
\* and what kfree gives back is what kmemalign had taken.
THEOREM HeapCounted == ASSUME NEW m, HeapSizes(m) PROVE H!Spec => []PagesCounted
<1>1. H!Init => HInv(m)
  BY HeapInit, Summands
<1>2. HInv(m) /\ [H!Next]_(H!vars) => HInv(m)'
  BY HeapStep
<1>3. HInv(m) => PagesCounted
  <2> SUFFICES ASSUME HInv(m), pc = "idle", NEW p \in H!PageNo
               PROVE  counts[p] = H!Cardinality({b \in blk \ {H!end} : p \in H!PagesOf(b)})
                                  + H!Cardinality({p} \cap upages)
    BY DEF PagesCounted, H!PagesCounted
  <2>1. \A S : H!Cardinality(S) = Cardinality(S)
    BY Zenon DEF H!Cardinality, Cardinality
  <2>2. On(p) \ Pending = {b \in blk \ {H!end} : p \in H!PagesOf(b)}
    BY DEF On, Pending
  <2> QED BY <2>1, <2>2 DEF HInv, Counted
<1> QED BY <1>1, <1>2, <1>3, PTL DEF H!Spec
=============================================================================
