------------------------------ MODULE MmProofs ------------------------------
(***************************************************************************)
(* The properties of Mm for every number of tasks, frames and entries.     *)
(***************************************************************************)
EXTENDS Mm, WellFoundedInduction, TLAPS

\* A set of numbers that is not empty has a least element.
LEMMA Least ==
    ASSUME NEW S \in SUBSET Nat, S # {}
    PROVE  \E n \in S : \A m \in S : n <= m
<1> DEFINE R == OpToRel(<, Nat)
<1>1. IsWellFoundedOn(R, Nat)
  BY NatLessThanWellFounded
<1>2. \A x, y \in Nat : y < x => <<y, x>> \in R
  BY DEF OpToRel
<1> HIDE DEF R
<1>3. PICK x \in S : \A y \in S : ~ (<<y, x>> \in R)
  BY <1>1, WFMin
<1>4. \A y \in S : ~ (y < x)
  BY <1>2, <1>3
<1> QED BY <1>4

\* A byte counts to more than one, and the fixed segments fit into the GDT.
Sizes == /\ Frames \in Nat
         /\ UMOD \in Nat \ {0, 1}
         /\ GDT_SIZE \in Nat
         /\ FIXED \in 0 .. GDT_SIZE

-----------------------------------------------------------------------------
(* The scans of the two bitmaps *)

\* Scanning upwards finds the least free number (page.c: alloc_page,
\* descriptor.c: index_alloc).
LEMMA MinIsIn ==
  ASSUME NEW S \in SUBSET Nat, S # {}
  PROVE  Min(S) \in S
BY Least DEF Min

\* Counting up and down in UMOD.
LEMMA Modulo ==
  ASSUME Sizes, NEW u \in 0 .. UMOD - 1
  PROVE  /\ (u + 1) % UMOD = IF u = UMOD - 1 THEN 0 ELSE u + 1
         /\ (u + UMOD - 1) % UMOD = IF u = 0 THEN UMOD - 1 ELSE u - 1
BY DEF Sizes

\* alloc_page takes a frame that has no user, if there is one.
LEMMA FreshFrame ==
  ASSUME Sizes, NEW u \in [Frame -> 0 .. UMOD - 1]
  PROVE  FreeFrame(u) # 0 => FreeFrame(u) \in Frame /\ u[FreeFrame(u)] = 0
<1> SUFFICES ASSUME FreeFrame(u) # 0
             PROVE  FreeFrame(u) \in Frame /\ u[FreeFrame(u)] = 0
  OBVIOUS
<1> DEFINE S == {f \in Frame : u[f] = 0}
<1>1. S # {} /\ FreeFrame(u) = Min(S)
  BY DEF FreeFrame
<1>2. S \in SUBSET Nat
  BY DEF Frame, Sizes
<1>3. Min(S) \in S
  BY <1>1, <1>2, MinIsIn
<1> QED
  BY <1>1, <1>3

-----------------------------------------------------------------------------
(* The inductive invariant *)

TypeInv ==
    /\ users \in [Frame -> 0 .. UMOD - 1]
    /\ table \in [Frame -> [PTE -> Frame \cup {0}]]
    /\ dir \in [Task -> [PDE -> [tbl : Frame \cup {0}, rw : BOOLEAN]]]
    /\ status \in [Task -> {"none", "live", "term"}]
    /\ tss_sel \in [Task -> Nat]
    /\ bitmap \subseteq Index
    /\ gdt = [k \in Index |-> gdt[k]]
    /\ leaked \subseteq Frame
    /\ wrapped \in BOOLEAN /\ broken \in BOOLEAN

\* The frame is a table, and one of its pages.
IsTable(f) == \E t \in Task, d \in PDE : dir[t][d].tbl = f
IsPage(f) == \E g \in Frame, p \in PTE : IsTable(g) /\ table[g][p] = f

\* The properties of the frames, entry by entry.
FrameInv ==
    /\ \A t, s \in Task, d, e \in PDE :
         dir[t][d].tbl # 0 /\ dir[t][d].tbl = dir[s][e].tbl => d = e
    /\ \A f, g \in Frame, p, q \in PTE :
         IsTable(f) /\ IsTable(g) /\ table[f][p] # 0 /\ table[f][p] = table[g][q]
           => f = g /\ p = q
    /\ \A f \in Frame : ~ (IsTable(f) /\ IsPage(f))
    /\ \A f \in Frame : users[f] # 0 <=> IsTable(f) \/ IsPage(f) \/ f \in leaked
    /\ \A t, s \in Task, d \in PDE :
         dir[t][d].rw /\ dir[s][d].rw /\ dir[t][d].tbl = dir[s][d].tbl => t = s
    /\ \A t \in Task, d \in PDE : dir[t][d].rw => dir[t][d].tbl # 0
    /\ \A t \in Task : status[t] = "none" => dir[t] = NoDir

SelectorInv ==
    /\ SelectorsOwn
    /\ \A t \in Task : Exists(t) => tss_sel[t] \in Index /\ tss_sel[t] >= FIXED

IInv == TypeInv /\ SelectorInv /\ (~ wrapped /\ ~ broken => FrameInv)

\* The invariant implies the properties.
LEMMA Implied ==
  ASSUME Sizes, IInv
  PROVE  FrameHasOneUse /\ FramesAccounted /\ SingleWriter /\ SelectorsOwn
<1>1. ASSUME NEW f PROVE f \in InUse <=> f # 0 /\ IsTable(f)
  BY DEF InUse, Tables, IsTable
<1>2. InUse \subseteq Frame
  BY <1>1 DEF IInv, TypeInv, IsTable
<1>3. ASSUME NEW f \in Frame, NEW g PROVE g \in Pages(f) <=> g # 0 /\ \E p \in PTE : table[f][p] = g
  BY DEF Pages
<1>4. ASSUME NEW g PROVE g \in UNION {Pages(f) : f \in InUse} <=> g # 0 /\ IsPage(g)
  BY <1>1, <1>2, <1>3 DEF IsPage, Frame, Sizes
<1>5. \A g : g # 0 /\ IsPage(g) => g \in Frame
  BY DEF IInv, TypeInv, IsPage
<1>6. CASE wrapped \/ broken
  BY <1>6 DEF IInv, SelectorInv, FrameHasOneUse, FramesAccounted, SingleWriter
<1>7. CASE ~ wrapped /\ ~ broken
  <2> USE <1>7 DEF IInv, FrameInv
  <2>1. \A f \in Frame : f # 0
    BY DEF Frame, Sizes
  <2>2. FramesAccounted
    BY <1>1, <1>2, <1>4, <1>5, <2>1 DEF FramesAccounted, TypeInv
  <2>3. FrameHasOneUse
    <3>1. \A t, s \in Task : \A d, e \in PDE :
             dir[t][d].tbl # 0 /\ dir[t][d].tbl = dir[s][e].tbl => d = e
      OBVIOUS
    <3>2. \A f, g \in InUse : \A p, q \in PTE :
             table[f][p] # 0 /\ table[f][p] = table[g][q] => f = g /\ p = q
      BY <1>1, <1>2
    <3>3. \A f \in InUse : users[f] # 0
      BY <1>1, <1>2
    <3>4. \A f \in InUse : \A g \in Pages(f) : g \in Frame /\ IsPage(g)
      BY <1>1, <1>2, <1>3, <1>5 DEF IsPage
    <3>5. \A f \in InUse : \A g \in Pages(f) : users[g] # 0 /\ g \notin InUse
      BY <1>1, <3>4
    <3> QED
      BY <3>1, <3>2, <3>3, <3>5 DEF FrameHasOneUse
  <2>4. SingleWriter
    BY DEF SingleWriter
  <2> QED
    BY <2>2, <2>3, <2>4 DEF SelectorInv
<1> QED
  BY <1>6, <1>7

-----------------------------------------------------------------------------
(* The steps *)

\* The invariant holds after descriptor_setup.
LEMMA InitInv == ASSUME Sizes, Init PROVE IInv
<1> USE DEF Init, Sizes
<1>1. TypeInv
  <2>1. dir \in [Task -> [PDE -> [tbl : Frame \cup {0}, rw : BOOLEAN]]]
    BY DEF NoDir
  <2>2. table \in [Frame -> [PTE -> Frame \cup {0}]]
    BY DEF NoTable
  <2>3. gdt = [k \in Index |-> gdt[k]]
    OBVIOUS
  <2>4. bitmap \subseteq Index
    BY DEF Index
  <2>5. users \in [Frame -> 0 .. UMOD - 1]
    OBVIOUS
  <2>6. status \in [Task -> {"none", "live", "term"}] /\ tss_sel \in [Task -> Nat]
    OBVIOUS
  <2> QED
    BY <2>1, <2>2, <2>3, <2>4, <2>5, <2>6 DEF TypeInv
<1>2. SelectorInv
  BY DEF SelectorInv, SelectorsOwn, Exists, Index
<1>3. FrameInv
  <2>1. \A t \in Task, d \in PDE : dir[t][d].tbl = 0 /\ dir[t][d].rw = FALSE
    BY DEF NoDir
  <2>2. \A f \in Frame : ~ IsTable(f) /\ ~ IsPage(f) /\ f \notin leaked /\ users[f] = 0
    BY <2>1 DEF IsTable, IsPage, Frame
  <2> QED
    BY <2>1, <2>2 DEF FrameInv
<1> QED
  BY <1>1, <1>2, <1>3 DEF IInv

\* The invariant is about these variables.
LEMMA Stutter ==
  ASSUME IInv, broken' \in BOOLEAN, broken => broken',
         UNCHANGED <<users, table, dir, status, tss_sel, bitmap, gdt, leaked, wrapped>>
  PROVE  IInv'
<1> USE DEF IInv
<1>1. TypeInv'
  BY DEF TypeInv
<1>2. SelectorInv'
  BY DEF SelectorInv, SelectorsOwn, Exists
<1>3. ~ wrapped' /\ ~ broken' => FrameInv'
  BY DEF FrameInv, IsTable, IsPage
<1> QED
  BY <1>1, <1>2, <1>3

\* task_term changes the state of a task and nothing else.
LEMMA TermStep ==
  ASSUME Sizes, IInv, NEW t \in Task, status[t] = "live", task_term(t), UNCHANGED users
  PROVE  IInv'
<1> USE DEF IInv, task_term, gdtvars
<1>1. TypeInv'
  BY DEF TypeInv
<1>2. SelectorInv'
  BY DEF TypeInv, SelectorInv, SelectorsOwn, Exists
<1>3. ~ wrapped' /\ ~ broken' => FrameInv'
  <2>1. \A s \in Task : status'[s] = "none" => status[s] = "none"
    BY DEF TypeInv
  <2> QED
    BY <2>1 DEF FrameInv, IsTable, IsPage
<1> QED
  BY <1>1, <1>2, <1>3

\* An entry that index_alloc returns was free.
LEMMA FreshEntry ==
  ASSUME Sizes, IInv, index_alloc # GDT_SIZE
  PROVE  index_alloc \in Index \ bitmap /\ index_alloc \in Nat /\ index_alloc >= FIXED
<1>1. Index \ bitmap # {} /\ index_alloc = Min(Index \ bitmap)
  BY DEF index_alloc, IInv, TypeInv
<1>2. (Index \ bitmap) \in SUBSET Nat
  BY DEF Index, Sizes
<1>3. index_alloc \in Index \ bitmap
  BY <1>1, <1>2, MinIsIn
<1> QED
  BY <1>2, <1>3 DEF IInv, SelectorInv, SelectorsOwn, Sizes

\* A new task gets a selector of its own.
LEMMA InstallStep ==
  ASSUME Sizes, IInv, NEW t \in Task, status[t] = "none", index_alloc # GDT_SIZE,
         install_tss(t), status' = [status EXCEPT ![t] = "live"]
  PROVE  /\ SelectorInv' /\ bitmap' \subseteq Index /\ gdt' = [k \in Index |-> gdt'[k]]
         /\ tss_sel' \in [Task -> Nat]
<1> DEFINE k == index_alloc
<1>1. k \in Index \ bitmap /\ k \in Nat /\ k >= FIXED
  BY FreshEntry
<1> HIDE DEF k
<1>2. /\ bitmap' = bitmap \cup {k}
      /\ gdt' = [gdt EXCEPT ![k] = t]
      /\ tss_sel' = [tss_sel EXCEPT ![t] = k]
  BY DEF install_tss, k
<1>3. /\ bitmap' \subseteq Index /\ gdt' = [i \in Index |-> gdt'[i]]
      /\ tss_sel' \in [Task -> Nat]
  BY <1>1, <1>2 DEF IInv, TypeInv
<1>4. /\ tss_sel'[t] = k /\ gdt'[k] = t
      /\ \A s \in Task : s # t => tss_sel'[s] = tss_sel[s] /\ status'[s] = status[s]
      /\ \A i \in Index : i # k => gdt'[i] = gdt[i]
  BY <1>1, <1>2 DEF IInv, TypeInv
<1>5. \A s \in Task : Exists(s)' => /\ tss_sel'[s] \in bitmap' /\ gdt'[tss_sel'[s]] = s
                                    /\ tss_sel'[s] \in Index /\ tss_sel'[s] >= FIXED
  BY <1>1, <1>2, <1>4 DEF IInv, SelectorInv, SelectorsOwn, Exists
<1>6. \A i \in Index : i < FIXED => i \in bitmap' /\ gdt'[i] = "segment"
  BY <1>1, <1>2, <1>4 DEF IInv, SelectorInv, SelectorsOwn, Index, Sizes
<1> QED
  BY <1>3, <1>5, <1>6 DEF SelectorInv, SelectorsOwn

\* destroy_task gives the selector of the task back and leaves the others.
LEMMA UninstallStep ==
  ASSUME Sizes, IInv, NEW t \in Task, status[t] = "term",
         uninstall_tss(t), status' = [status EXCEPT ![t] = "none"]
  PROVE  /\ SelectorInv' /\ bitmap' \subseteq Index /\ gdt' = [k \in Index |-> gdt'[k]]
         /\ tss_sel' \in [Task -> Nat]
<1> DEFINE k == tss_sel[t]
<1>1. /\ k \in Index /\ k \in Nat /\ k >= FIXED /\ gdt[k] = t
  BY DEF IInv, TypeInv, SelectorInv, SelectorsOwn, Exists
<1>2. /\ bitmap' = bitmap \ {k}
      /\ gdt' = [gdt EXCEPT ![k] = "empty"]
      /\ tss_sel' = tss_sel
  BY DEF uninstall_tss
<1> HIDE DEF k
<1>3. /\ bitmap' \subseteq Index /\ gdt' = [i \in Index |-> gdt'[i]]
      /\ tss_sel' \in [Task -> Nat]
  BY <1>1, <1>2 DEF IInv, TypeInv
<1>4. /\ \A s \in Task : Exists(s)' => s # t /\ Exists(s)
      /\ \A i \in Index : i # k => gdt'[i] = gdt[i]
  BY <1>1, <1>2 DEF IInv, TypeInv, Exists
<1>5. \A s \in Task : Exists(s)' => /\ tss_sel'[s] \in bitmap' /\ gdt'[tss_sel'[s]] = s
                                    /\ tss_sel'[s] \in Index /\ tss_sel'[s] >= FIXED
  BY <1>1, <1>2, <1>4 DEF IInv, SelectorInv, SelectorsOwn
<1>6. \A i \in Index : i < FIXED => i \in bitmap' /\ gdt'[i] = "segment"
  BY <1>1, <1>2, <1>4 DEF IInv, SelectorInv, SelectorsOwn, Index, Sizes
<1> QED
  BY <1>3, <1>5, <1>6 DEF SelectorInv, SelectorsOwn

\* What map_page does: it ends the task and leaves the counters as they were;
\* or it maps a free frame into the table; or a free frame into another free
\* frame, which becomes the table.
Denied(t) == task_term(t) /\ UNCHANGED users

MapsInto(t, d, p, page) ==
    /\ page \in Frame /\ users[page] = 0
    /\ dir[t][d].tbl # 0
    /\ users' = [users EXCEPT ![page] = 1]
    /\ table' = [table EXCEPT ![dir[t][d].tbl] = [@ EXCEPT ![p] = page]]
    /\ UNCHANGED <<dir, status, gdtvars, leaked, wrapped, broken>>

MapsNew(t, d, p, page, tpage) ==
    /\ page \in Frame /\ users[page] = 0
    /\ tpage \in Frame /\ users[tpage] = 0 /\ page # tpage
    /\ dir[t][d].tbl = 0
    /\ users' = [users EXCEPT ![page] = 1, ![tpage] = 1]
    /\ table' = [table EXCEPT ![tpage] = [NoTable EXCEPT ![p] = page]]
    /\ dir' = [dir EXCEPT ![t][d] = [tbl |-> tpage, rw |-> TRUE]]
    /\ UNCHANGED <<status, gdtvars, leaked, wrapped, broken>>

\* The counter of a free frame goes to 1 and back (page.c).
LEMMA AllocFree ==
  ASSUME Sizes, NEW u \in [Frame -> 0 .. UMOD - 1], NEW f \in Frame, u[f] = 0
  PROVE  /\ alloc_page(u, f) = [u EXCEPT ![f] = 1]
         /\ alloc_page(u, f) \in [Frame -> 0 .. UMOD - 1]
         /\ free_page(alloc_page(u, f), f) = u
<1>1. (u[f] + 1) % UMOD = 1 /\ (1 + UMOD - 1) % UMOD = 0
  BY Modulo DEF Sizes
<1>2. alloc_page(u, f) = [u EXCEPT ![f] = 1]
  BY <1>1 DEF alloc_page
<1>3. [u EXCEPT ![f] = 1] \in [Frame -> 0 .. UMOD - 1]
  BY DEF Sizes
<1>4. free_page([u EXCEPT ![f] = 1], f) = u
  BY <1>1 DEF free_page
<1> QED
  BY <1>2, <1>3, <1>4

\* map_page has no other outcome (page_fault.c:31).
LEMMA MapOutcome ==
  ASSUME Sizes, TypeInv, NEW t \in Task, NEW d \in PDE, NEW p \in PTE, map_page(t, d, p)
  PROVE  \/ Denied(t)
         \/ \E page \in Frame : MapsInto(t, d, p, page)
         \/ \E page, tpage \in Frame : MapsNew(t, d, p, page, tpage)
<1> DEFINE page == FreeFrame(users)
           one == alloc_page(users, page)
           tpage == FreeFrame(one)
           old == dir[t][d].tbl
<1>1. page # 0 => page \in Frame /\ users[page] = 0
  BY FreshFrame DEF TypeInv
<1>2. CASE page = 0
  BY <1>2 DEF map_page, Denied
<1>3. CASE page # 0
  <2>1. one = [users EXCEPT ![page] = 1] /\ one \in [Frame -> 0 .. UMOD - 1]
    BY <1>1, <1>3, AllocFree DEF TypeInv
  <2>2. tpage # 0 => tpage \in Frame /\ one[tpage] = 0
    BY <2>1, FreshFrame
  <2>3. tpage # 0 => tpage # page /\ users[tpage] = 0
    BY <1>1, <1>3, <2>1, <2>2 DEF TypeInv
  <2>4. CASE old # 0
    <3>1. MapsInto(t, d, p, page)
      <4> HIDE DEF page, one, tpage
      <4>1. /\ users' = one
            /\ table' = [table EXCEPT ![old] = [@ EXCEPT ![p] = page]]
            /\ dir' = dir
            /\ UNCHANGED <<status, gdtvars, leaked, wrapped, broken>>
        BY <1>3, <2>4 DEF map_page, page, one, tpage
      <4> QED
        BY <1>1, <1>3, <2>1, <2>4, <4>1 DEF MapsInto
    <3> QED
      BY <1>1, <1>3, <3>1
  <2>5. CASE old = 0 /\ tpage = 0
    <3>1. users' = free_page(one, page) /\ task_term(t)
      BY <1>3, <2>5 DEF map_page
    <3>2. free_page(one, page) = users
      BY <1>1, <1>3, AllocFree DEF TypeInv
    <3> QED
      BY <3>1, <3>2 DEF Denied
  <2>6. CASE old = 0 /\ tpage # 0
    <3>1. MapsNew(t, d, p, page, tpage)
      <4>1. /\ users' = alloc_page(one, tpage)
            /\ table' = [table EXCEPT ![tpage] = [NoTable EXCEPT ![p] = page]]
            /\ dir' = [dir EXCEPT ![t][d] = [tbl |-> tpage, rw |-> TRUE]]
            /\ UNCHANGED <<status, gdtvars, leaked, wrapped, broken>>
        BY <1>3, <2>6 DEF map_page
      <4>2. alloc_page(one, tpage) = [users EXCEPT ![page] = 1, ![tpage] = 1]
        <5> HIDE DEF page, one, tpage
        <5>1. alloc_page(one, tpage) = [one EXCEPT ![tpage] = 1]
          BY <2>1, <2>2, <2>6, AllocFree
        <5> QED
          BY <2>1, <5>1
      <4> QED
        BY <1>1, <1>3, <2>2, <2>3, <2>6, <4>1, <4>2 DEF MapsNew
    <3> QED
      BY <1>1, <1>3, <2>2, <2>6, <3>1
  <2> QED
    BY <2>4, <2>5, <2>6
<1> QED
  BY <1>2, <1>3

\* A page is mapped into a table that is there, perhaps shared.
LEMMA MapsIntoStep ==
  ASSUME Sizes, IInv, ~ wrapped, ~ broken,
         NEW t \in Task, NEW d \in PDE, NEW p \in PTE, NEW page \in Frame,
         Mapped(t, d, p) = 0, MapsInto(t, d, p, page)
  PROVE  IInv'
<1> DEFINE tbl == dir[t][d].tbl
<1>1. /\ tbl \in Frame /\ IsTable(tbl) /\ table[tbl][p] = 0
      /\ users[page] = 0 /\ ~ IsTable(page) /\ ~ IsPage(page) /\ page \notin leaked
      /\ page # 0 /\ page # tbl
  BY DEF MapsInto, IInv, TypeInv, FrameInv, IsTable, Mapped, Frame, Sizes
<1>2. /\ users' = [users EXCEPT ![page] = 1]
      /\ table' = [table EXCEPT ![tbl] = [@ EXCEPT ![p] = page]]
      /\ UNCHANGED <<dir, status, tss_sel, bitmap, gdt, leaked, wrapped, broken>>
  BY DEF MapsInto, gdtvars
<1> HIDE DEF tbl
<1>3. TypeInv'
  BY <1>1, <1>2 DEF IInv, TypeInv, Sizes
<1>4. SelectorInv'
  BY <1>2 DEF IInv, SelectorInv, SelectorsOwn, Exists
<1>5. /\ table'[tbl][p] = page
      /\ \A f \in Frame, q \in PTE : f # tbl \/ q # p => table'[f][q] = table[f][q]
      /\ users'[page] = 1
      /\ \A f \in Frame : f # page => users'[f] = users[f]
  BY <1>1, <1>2 DEF IInv, TypeInv
<1>6. \A f : IsTable(f)' <=> IsTable(f)
  BY <1>2 DEF IsTable
<1>7. \A f \in Frame : IsPage(f)' <=> IsPage(f) \/ f = page
  BY <1>1, <1>5, <1>6 DEF IsPage, Frame, Sizes
<1>8. FrameInv'
  <2>1. \A f, g \in Frame, q, r \in PTE :
          IsTable(f)' /\ IsTable(g)' /\ table'[f][q] # 0 /\ table'[f][q] = table'[g][r]
            => f = g /\ q = r
    <3>1. \A f \in Frame, q \in PTE : IsTable(f) => table[f][q] # page
      BY <1>1 DEF IsPage
    <3> QED
      BY <1>1, <1>5, <1>6, <3>1 DEF IInv, FrameInv
  <2>2. \A f \in Frame : ~ (IsTable(f)' /\ IsPage(f)')
    BY <1>1, <1>6, <1>7 DEF IInv, FrameInv
  <2>3. \A f \in Frame : users'[f] # 0 <=> IsTable(f)' \/ IsPage(f)' \/ f \in leaked'
    BY <1>1, <1>2, <1>5, <1>6, <1>7 DEF IInv, FrameInv
  <2> QED
    BY <1>2, <2>1, <2>2, <2>3 DEF IInv, FrameInv
<1> QED
  BY <1>3, <1>4, <1>8 DEF IInv

\* A page is mapped into a new table.
LEMMA MapsNewStep ==
  ASSUME Sizes, IInv, ~ wrapped, ~ broken,
         NEW t \in Task, NEW d \in PDE, NEW p \in PTE,
         NEW page \in Frame, NEW tpage \in Frame,
         status[t] = "live", MapsNew(t, d, p, page, tpage)
  PROVE  IInv'
<1>1. /\ ~ IsTable(page) /\ ~ IsPage(page) /\ page \notin leaked /\ page # 0
      /\ ~ IsTable(tpage) /\ ~ IsPage(tpage) /\ tpage \notin leaked /\ tpage # 0
      /\ page # tpage /\ dir[t][d].tbl = 0
  BY DEF MapsNew, IInv, FrameInv, Frame, Sizes
<1>2. /\ users' = [users EXCEPT ![page] = 1, ![tpage] = 1]
      /\ table' = [table EXCEPT ![tpage] = [NoTable EXCEPT ![p] = page]]
      /\ dir' = [dir EXCEPT ![t][d] = [tbl |-> tpage, rw |-> TRUE]]
      /\ UNCHANGED <<status, tss_sel, bitmap, gdt, leaked, wrapped, broken>>
  BY DEF MapsNew, gdtvars
<1>3. TypeInv'
  <2>1. [NoTable EXCEPT ![p] = page] \in [PTE -> Frame \cup {0}]
    BY DEF NoTable
  <2>2. table' \in [Frame -> [PTE -> Frame \cup {0}]]
    BY <1>2, <2>1 DEF IInv, TypeInv
  <2>3. [tbl |-> tpage, rw |-> TRUE] \in [tbl : Frame \cup {0}, rw : BOOLEAN]
    OBVIOUS
  <2>4. dir' \in [Task -> [PDE -> [tbl : Frame \cup {0}, rw : BOOLEAN]]]
    BY <1>2, <2>3 DEF IInv, TypeInv
  <2>5. users' \in [Frame -> 0 .. UMOD - 1]
    <3>1. 1 \in 0 .. UMOD - 1
      BY DEF Sizes
    <3> QED
      BY <1>2, <3>1 DEF IInv, TypeInv
  <2> QED
    BY <1>2, <2>2, <2>4, <2>5 DEF IInv, TypeInv
<1>4. SelectorInv'
  BY <1>2 DEF IInv, SelectorInv, SelectorsOwn, Exists
<1>5. /\ table'[tpage][p] = page
      /\ \A q \in PTE : q # p => table'[tpage][q] = 0
      /\ \A f \in Frame : f # tpage => table'[f] = table[f]
      /\ users'[page] = 1 /\ users'[tpage] = 1
      /\ \A f \in Frame : f # page /\ f # tpage => users'[f] = users[f]
  BY <1>1, <1>2 DEF IInv, TypeInv, NoTable
<1>6. /\ dir'[t][d].tbl = tpage
      /\ \A s \in Task, e \in PDE : s # t \/ e # d => dir'[s][e] = dir[s][e]
  BY <1>2 DEF IInv, TypeInv
<1>7. \A f \in Frame : IsTable(f)' <=> IsTable(f) \/ f = tpage
  BY <1>1, <1>6 DEF IsTable, Frame, Sizes
<1>8. \A f \in Frame : IsPage(f)' <=> IsPage(f) \/ f = page
  BY <1>1, <1>5, <1>7 DEF IsPage, Frame, Sizes
<1>9. FrameInv'
  <2>1. \A s, u \in Task, e, h \in PDE :
          dir'[s][e].tbl # 0 /\ dir'[s][e].tbl = dir'[u][h].tbl => e = h
    BY <1>1, <1>6 DEF IInv, FrameInv, IsTable
  <2>2. \A f, g \in Frame, q, r \in PTE :
          IsTable(f)' /\ IsTable(g)' /\ table'[f][q] # 0 /\ table'[f][q] = table'[g][r]
            => f = g /\ q = r
    <3>1. \A f \in Frame, q \in PTE : IsTable(f) => table[f][q] # page
      BY <1>1 DEF IsPage
    <3> QED
      BY <1>1, <1>5, <1>7, <3>1 DEF IInv, FrameInv
  <2>3. \A f \in Frame : ~ (IsTable(f)' /\ IsPage(f)')
    BY <1>1, <1>7, <1>8 DEF IInv, FrameInv
  <2>4. \A f \in Frame : users'[f] # 0 <=> IsTable(f)' \/ IsPage(f)' \/ f \in leaked'
    <3>1. \A f \in Frame : users[f] # 0 <=> IsTable(f) \/ IsPage(f) \/ f \in leaked
      BY DEF IInv, FrameInv
    <3>2. leaked' = leaked
      BY <1>2
    <3> QED
      BY <1>5, <1>7, <1>8, <3>1, <3>2
  <2>5. \A s, u \in Task, e \in PDE :
          dir'[s][e].rw /\ dir'[u][e].rw /\ dir'[s][e].tbl = dir'[u][e].tbl => s = u
    BY <1>1, <1>6 DEF IInv, FrameInv, IsTable
  <2>6. \A s \in Task, e \in PDE : dir'[s][e].rw => dir'[s][e].tbl # 0
    BY <1>1, <1>6 DEF IInv, FrameInv
  <2>7. \A s \in Task : status'[s] = "none" => dir'[s] = NoDir
    <3>1. status'[t] = "live"
      BY <1>2
    <3> QED
      BY <1>2, <3>1 DEF IInv, TypeInv, FrameInv
  <2> QED
    BY <2>1, <2>2, <2>3, <2>4, <2>5, <2>6, <2>7 DEF FrameInv
<1> QED
  BY <1>3, <1>4, <1>9 DEF IInv

\* A task that comes into being with no page keeps the invariant.
LEMMA CreateStep ==
  ASSUME Sizes, IInv, ~ wrapped, ~ broken, NEW t \in Task, create_utask(t)
  PROVE  IInv'
<1>1. CASE broken' = TRUE /\ UNCHANGED <<status, dir, gdtvars>>
  BY <1>1, Stutter DEF create_utask, gdtvars
<1>2. CASE /\ index_alloc # GDT_SIZE /\ install_tss(t)
           /\ status' = [status EXCEPT ![t] = "live"]
           /\ dir' = [dir EXCEPT ![t] = NoDir]
           /\ UNCHANGED broken
  <2>1. status[t] = "none" /\ UNCHANGED <<users, table, leaked, wrapped>>
    BY DEF create_utask
  <2>2. dir' = dir
    BY <1>2, <2>1 DEF IInv, TypeInv, FrameInv
  <2>3. /\ SelectorInv' /\ bitmap' \subseteq Index /\ gdt' = [k \in Index |-> gdt'[k]]
        /\ tss_sel' \in [Task -> Nat]
    BY <1>2, <2>1, InstallStep
  <2>4. TypeInv'
    BY <1>2, <2>1, <2>2, <2>3 DEF IInv, TypeInv
  <2>5. FrameInv'
    <3>1. \A s \in Task : status'[s] = "none" => status[s] = "none"
      BY <1>2, <2>1 DEF IInv, TypeInv
    <3> QED
      BY <2>1, <2>2, <3>1 DEF IInv, FrameInv, IsTable, IsPage
  <2> QED
    BY <2>3, <2>4, <2>5 DEF IInv
<1> QED
  BY <1>1, <1>2 DEF create_utask

\* A fork shares the tables and counts them.
LEMMA CloneStep ==
  ASSUME Sizes, IInv, ~ wrapped, ~ broken, NEW t \in Task, NEW c \in Task, clone_utask(t, c)
  PROVE  IInv'
<1>1. CASE broken' = TRUE /\ UNCHANGED <<users, wrapped, table, dir, status, gdtvars>>
  BY <1>1, Stutter DEF clone_utask, gdtvars
<1>2. CASE /\ index_alloc # GDT_SIZE
           /\ users' = [f \in Frame |-> IF f \in Tables(t) THEN (users[f] + 1) % UMOD
                                        ELSE users[f]]
           /\ wrapped' = (\E f \in Tables(t) : users'[f] = 0)
           /\ dir' = [dir EXCEPT ![c] = Cloned(t)]
           /\ install_tss(c)
           /\ status' = [status EXCEPT ![c] = "live"]
           /\ UNCHANGED broken
           /\ UNCHANGED table
  <2>1. /\ status[t] = "live" /\ status[c] = "none" /\ t # c
        /\ UNCHANGED <<table, leaked>>
    BY <1>2 DEF clone_utask
  <2>2. /\ SelectorInv' /\ bitmap' \subseteq Index /\ gdt' = [k \in Index |-> gdt'[k]]
        /\ tss_sel' \in [Task -> Nat]
    BY <1>2, <2>1, InstallStep
  <2>3. /\ \A s \in Task : s # c => dir'[s] = dir[s]
        /\ \A d \in PDE : /\ dir'[c][d].tbl = dir[t][d].tbl
                          /\ dir'[c][d].rw = FALSE
                          /\ dir[c][d].tbl = 0
    BY <1>2, <2>1 DEF IInv, TypeInv, FrameInv, Cloned, NoDir
  <2>4. TypeInv'
    <3>1. users' \in [Frame -> 0 .. UMOD - 1]
      <4>1. \A f \in Frame : (users[f] + 1) % UMOD \in 0 .. UMOD - 1
        BY Modulo DEF IInv, TypeInv, Sizes
      <4> QED
        BY <1>2, <4>1 DEF IInv, TypeInv
    <3>2. Cloned(t) \in [PDE -> [tbl : Frame \cup {0}, rw : BOOLEAN]]
      <4>1. \A d \in PDE : dir[t][d] \in [tbl : Frame \cup {0}, rw : BOOLEAN]
        BY DEF IInv, TypeInv
      <4>2. \A r \in [tbl : Frame \cup {0}, rw : BOOLEAN] :
              [r EXCEPT !.rw = FALSE] \in [tbl : Frame \cup {0}, rw : BOOLEAN]
        OBVIOUS
      <4> QED
        BY <4>1, <4>2 DEF Cloned
    <3>3. dir' \in [Task -> [PDE -> [tbl : Frame \cup {0}, rw : BOOLEAN]]]
      BY <1>2, <3>2 DEF IInv, TypeInv
    <3>4. wrapped' \in BOOLEAN
      BY <1>2
    <3> QED
      BY <1>2, <2>1, <2>2, <3>1, <3>3, <3>4 DEF IInv, TypeInv
  <2>5. ASSUME ~ wrapped' PROVE FrameInv'
    <3>1. \A f \in Frame : IsTable(f)' <=> IsTable(f)
      BY <2>1, <2>3 DEF IsTable, Frame, Sizes
    <3>2. \A f \in Frame : IsPage(f)' <=> IsPage(f)
      BY <2>1, <3>1 DEF IsPage
    <3>3. \A f \in Frame : f \in Tables(t) => IsTable(f)
      BY DEF Tables, IsTable
    <3>4. \A f \in Frame : users'[f] # 0 <=> users[f] # 0
      BY <1>2, <2>5, <3>3 DEF IInv, FrameInv
    <3>5. \A f \in Frame : users'[f] # 0 <=> IsTable(f)' \/ IsPage(f)' \/ f \in leaked'
      BY <2>1, <3>1, <3>2, <3>4 DEF IInv, FrameInv
    <3>6. \A s, u \in Task, e, h \in PDE :
            dir'[s][e].tbl # 0 /\ dir'[s][e].tbl = dir'[u][h].tbl => e = h
      BY <2>3 DEF IInv, FrameInv
    <3>7. \A f, g \in Frame, q, r \in PTE :
            IsTable(f)' /\ IsTable(g)' /\ table'[f][q] # 0 /\ table'[f][q] = table'[g][r]
              => f = g /\ q = r
      BY <2>1, <3>1 DEF IInv, FrameInv
    <3>8. \A f \in Frame : ~ (IsTable(f)' /\ IsPage(f)')
      BY <3>1, <3>2 DEF IInv, FrameInv
    <3>9. /\ \A s, u \in Task, e \in PDE :
               dir'[s][e].rw /\ dir'[u][e].rw /\ dir'[s][e].tbl = dir'[u][e].tbl => s = u
          /\ \A s \in Task, e \in PDE : dir'[s][e].rw => dir'[s][e].tbl # 0
      BY <2>3 DEF IInv, FrameInv
    <3>10. \A s \in Task : status'[s] = "none" => dir'[s] = NoDir
      BY <1>2, <2>3 DEF IInv, TypeInv, FrameInv
    <3> QED
      BY <3>5, <3>6, <3>7, <3>8, <3>9, <3>10 DEF FrameInv
  <2> QED
    BY <2>2, <2>4, <2>5 DEF IInv
<1>3. CASE /\ users' = [f \in Frame |-> IF f \in UNION {Pages(g) : g \in Tables(t)}
                                        THEN (users[f] + UMOD - 1) % UMOD ELSE users[f]]
           /\ table' = [f \in Frame |-> IF f \in Tables(t) THEN Present(table[f], users')
                                                            ELSE table[f]]
           /\ broken' = TRUE
           /\ UNCHANGED <<wrapped, dir, status, gdtvars>>
  <2>1. UNCHANGED <<wrapped, dir, status, tss_sel, bitmap, gdt, leaked>>
    BY <1>3 DEF clone_utask, gdtvars
  <2>2. users' \in [Frame -> 0 .. UMOD - 1]
    <3>1. \A f \in Frame : (users[f] + UMOD - 1) % UMOD \in 0 .. UMOD - 1
      BY Modulo DEF IInv, TypeInv, Sizes
    <3> QED
      BY <1>3, <3>1 DEF IInv, TypeInv
  <2>3. table' \in [Frame -> [PTE -> Frame \cup {0}]]
    <3>1. \A f \in Frame : table[f] \in [PTE -> Frame \cup {0}]
      BY DEF IInv, TypeInv
    <3>2. \A f \in Frame : Present(table[f], users') \in [PTE -> Frame \cup {0}]
      BY <3>1 DEF Present
    <3> QED
      BY <1>3, <3>1, <3>2
  <2>4. TypeInv'
    BY <1>3, <2>1, <2>2, <2>3 DEF IInv, TypeInv
  <2>5. SelectorInv'
    BY <2>1 DEF IInv, SelectorInv, SelectorsOwn, Exists
  <2> QED
    BY <1>3, <2>4, <2>5 DEF IInv
<1> QED
  BY <1>1, <1>2, <1>3 DEF clone_utask

\* What a task leaves behind when it is reaped stays taken.
LEMMA DestroyStep ==
  ASSUME Sizes, IInv, ~ wrapped, ~ broken, NEW t \in Task, destroy_task(t)
  PROVE  IInv'
<1>1. /\ status[t] = "term" /\ uninstall_tss(t)
      /\ status' = [status EXCEPT ![t] = "none"]
      /\ leaked' = leaked \cup Tables(t) \cup UNION {Pages(f) : f \in Tables(t)}
      /\ dir' = [dir EXCEPT ![t] = NoDir]
      /\ UNCHANGED <<users, table, wrapped, broken>>
  BY DEF destroy_task
<1>2. /\ SelectorInv' /\ bitmap' \subseteq Index /\ gdt' = [k \in Index |-> gdt'[k]]
      /\ tss_sel' \in [Task -> Nat]
  BY <1>1, UninstallStep
<1>3. /\ \A s \in Task : s # t => dir'[s] = dir[s]
      /\ dir'[t] = NoDir
      /\ \A d \in PDE : dir'[t][d].tbl = 0 /\ dir'[t][d].rw = FALSE
  BY <1>1 DEF IInv, TypeInv, NoDir
<1>4. ASSUME NEW f PROVE f \in Tables(t) <=> f # 0 /\ \E d \in PDE : dir[t][d].tbl = f
  BY DEF Tables
<1>5. Tables(t) \subseteq Frame /\ \A f \in Tables(t) : IsTable(f)
  BY <1>4 DEF IInv, TypeInv, IsTable
<1>6. ASSUME NEW f PROVE f \in UNION {Pages(g) : g \in Tables(t)}
                         <=> f # 0 /\ \E g \in Tables(t), p \in PTE : table[g][p] = f
  BY DEF Pages
<1>7. ASSUME NEW f \in UNION {Pages(g) : g \in Tables(t)} PROVE f \in Frame /\ IsPage(f)
  <2>1. PICK g \in Tables(t), p \in PTE : f # 0 /\ table[g][p] = f
    BY <1>6
  <2>2. g \in Frame /\ IsTable(g)
    BY <1>5
  <2> QED
    BY <2>1, <2>2 DEF IInv, TypeInv, IsPage
<1>8. TypeInv'
  <2>1. NoDir \in [PDE -> [tbl : Frame \cup {0}, rw : BOOLEAN]]
    BY DEF NoDir
  <2>2. dir' \in [Task -> [PDE -> [tbl : Frame \cup {0}, rw : BOOLEAN]]]
    BY <1>1, <2>1 DEF IInv, TypeInv
  <2> QED
    BY <1>1, <1>2, <1>5, <1>7, <2>2 DEF IInv, TypeInv
<1>9. FrameInv'
  <2>1. \A f \in Frame : /\ IsTable(f)' => IsTable(f)
                         /\ IsTable(f) => IsTable(f)' \/ f \in Tables(t)
    BY <1>3, <1>4 DEF IsTable, Frame, Sizes
  <2>2. \A f \in Frame : /\ IsPage(f)' => IsPage(f)
                         /\ IsPage(f) => \/ IsPage(f)'
                                         \/ f \in UNION {Pages(g) : g \in Tables(t)}
    <3>1. \A f \in Frame : f # 0
      BY DEF Frame, Sizes
    <3> QED
      BY <1>1, <1>6, <2>1, <3>1 DEF IsPage
  <2>3. \A f \in Frame : users'[f] # 0 <=> IsTable(f)' \/ IsPage(f)' \/ f \in leaked'
    <3>1. \A f \in Frame : users[f] # 0 <=> IsTable(f) \/ IsPage(f) \/ f \in leaked
      BY DEF IInv, FrameInv
    <3> QED
      BY <1>1, <1>5, <1>7, <2>1, <2>2, <3>1
  <2>4. \A s, u \in Task, e, h \in PDE :
          dir'[s][e].tbl # 0 /\ dir'[s][e].tbl = dir'[u][h].tbl => e = h
    BY <1>3 DEF IInv, FrameInv
  <2>5. \A f, g \in Frame, q, r \in PTE :
          IsTable(f)' /\ IsTable(g)' /\ table'[f][q] # 0 /\ table'[f][q] = table'[g][r]
            => f = g /\ q = r
    <3>1. table' = table
      BY <1>1
    <3>2. \A f, g \in Frame, q, r \in PTE :
            IsTable(f) /\ IsTable(g) /\ table[f][q] # 0 /\ table[f][q] = table[g][r]
              => f = g /\ q = r
      BY DEF IInv, FrameInv
    <3> QED
      BY <2>1, <3>1, <3>2
  <2>6. \A f \in Frame : ~ (IsTable(f)' /\ IsPage(f)')
    BY <2>1, <2>2 DEF IInv, FrameInv
  <2>7. /\ \A s, u \in Task, e \in PDE :
             dir'[s][e].rw /\ dir'[u][e].rw /\ dir'[s][e].tbl = dir'[u][e].tbl => s = u
        /\ \A s \in Task, e \in PDE : dir'[s][e].rw => dir'[s][e].tbl # 0
    BY <1>3 DEF IInv, FrameInv
  <2>8. \A s \in Task : status'[s] = "none" => dir'[s] = NoDir
    BY <1>1, <1>3 DEF IInv, TypeInv, FrameInv
  <2> QED
    BY <2>3, <2>4, <2>5, <2>6, <2>7, <2>8 DEF FrameInv
<1> QED
  BY <1>2, <1>8, <1>9 DEF IInv

\* A page fault maps the page or ends the task.
LEMMA FaultStep ==
  ASSUME Sizes, IInv, ~ wrapped, ~ broken, NEW t \in Task, NEW d \in PDE, NEW p \in PTE,
         NEW w \in BOOLEAN, page_fault_handler(t, d, p, w)
  PROVE  IInv'
<1>1. status[t] = "live"
  BY DEF page_fault_handler
<1>2. CASE task_term(t) /\ UNCHANGED users
  BY <1>1, <1>2, TermStep
<1>3. CASE Mapped(t, d, p) = 0 /\ map_page(t, d, p)
  <2>1. CASE Denied(t)
    BY <1>2, <2>1 DEF Denied
  <2>2. CASE \E page \in Frame : MapsInto(t, d, p, page)
    BY <1>3, <2>2, MapsIntoStep
  <2>3. CASE \E page, tpage \in Frame : MapsNew(t, d, p, page, tpage)
    BY <1>1, <2>3, MapsNewStep
  <2>4. TypeInv
    BY DEF IInv
  <2> QED
    BY <1>3, <2>1, <2>2, <2>3, <2>4, MapOutcome
<1> QED
  BY <1>2, <1>3 DEF page_fault_handler

\* Every step keeps the invariant.
LEMMA NextInv == ASSUME Sizes, IInv, [Next]_vars PROVE IInv'
<1>1. CASE UNCHANGED vars
  BY <1>1, Stutter DEF vars, IInv, TypeInv
<1>2. CASE Next
  <2>1. ~ wrapped /\ ~ broken
    BY <1>2 DEF Next
  <2>2. ASSUME NEW t \in Task, create_utask(t) PROVE IInv'
    BY <2>1, <2>2, CreateStep
  <2>3. ASSUME NEW t \in Task, sys_exit(t) PROVE IInv'
    BY <2>3, TermStep DEF sys_exit
  <2>4. ASSUME NEW t \in Task, destroy_task(t) PROVE IInv'
    BY <2>1, <2>4, DestroyStep
  <2>5. ASSUME NEW t \in Task, NEW c \in Task, clone_utask(t, c) PROVE IInv'
    BY <2>1, <2>5, CloneStep
  <2>6. ASSUME NEW t \in Task, NEW d \in PDE, NEW p \in PTE, NEW w \in BOOLEAN,
               page_fault_handler(t, d, p, w)
        PROVE  IInv'
    BY <2>1, <2>6, FaultStep
  <2> QED
    BY <1>2, <2>2, <2>3, <2>4, <2>5, <2>6 DEF Next
<1> QED
  BY <1>1, <1>2

-----------------------------------------------------------------------------
(* The theorems *)

\* The invariant holds in every state of a behaviour.
LEMMA Invariant == ASSUME Sizes PROVE Spec => []IInv
<1>1. Init => IInv
  BY InitInv
<1>2. IInv /\ [Next]_vars => IInv'
  BY NextInv
<1> QED
  BY <1>1, <1>2, PTL DEF Spec

\* No frame is used twice, and every frame that is taken belongs to a task or
\* was left by one (page.c, mm.c, page_fault.c).
THEOREM FramesKept == ASSUME Sizes PROVE Spec => []FramesOwned
<1>1. IInv => FramesOwned
  BY Implied DEF FramesOwned
<1> QED
  BY <1>1, Invariant, PTL

\* Of the tasks that share a table at most one may write (mm.c:48).
THEOREM OneWriter == ASSUME Sizes PROVE Spec => []SingleWriter
<1>1. IInv => SingleWriter
  BY Implied
<1> QED
  BY <1>1, Invariant, PTL

\* The selector of a task names its own TSS (descriptor.c).
THEOREM OwnSelectors == ASSUME Sizes PROVE Spec => []SelectorsOwn
<1>1. IInv => SelectorsOwn
  BY Implied
<1> QED
  BY <1>1, Invariant, PTL

\* What MappingsStay says of a step.
Stays == \A t \in Task : status[t] = "live" /\ status'[t] = "live" /\ ~ wrapped' /\ ~ broken' =>
           \A d \in PDE, p \in PTE : Mapped(t, d, p) # 0 => Mapped(t, d, p)' = Mapped(t, d, p)

\* A step that changes no table and only the directories of tasks that do not
\* live on keeps the mappings.
LEMMA TablesKept ==
  ASSUME table' = table,
         \A s \in Task : status[s] = "live" /\ status'[s] = "live" => dir'[s] = dir[s]
  PROVE  Stays
BY DEF Stays, Mapped

\* A page is put where there was none.
LEMMA MapsIntoStays ==
  ASSUME Sizes, IInv, ~ wrapped, ~ broken, NEW t \in Task, NEW d \in PDE, NEW p \in PTE,
         NEW page \in Frame, Mapped(t, d, p) = 0, MapsInto(t, d, p, page)
  PROVE  Stays
<1> DEFINE tbl == dir[t][d].tbl
<1>1. tbl \in Frame /\ table[tbl][p] = 0
  BY DEF MapsInto, IInv, TypeInv, Mapped
<1>2. dir' = dir /\ table' = [table EXCEPT ![tbl] = [@ EXCEPT ![p] = page]]
  BY DEF MapsInto
<1> HIDE DEF tbl
<1>3. \A f \in Frame, q \in PTE : f # tbl \/ q # p => table'[f][q] = table[f][q]
  BY <1>1, <1>2 DEF IInv, TypeInv
<1>4. \A s \in Task, e \in PDE : dir[s][e].tbl \in Frame \cup {0}
  BY DEF IInv, TypeInv
<1>5. \A s \in Task, e \in PDE, q \in PTE :
        Mapped(s, e, q) # 0 => Mapped(s, e, q)' = Mapped(s, e, q)
  BY <1>1, <1>2, <1>3, <1>4 DEF Mapped
<1> QED
  BY <1>5 DEF Stays

\* A new table is nobody's.
LEMMA MapsNewStays ==
  ASSUME Sizes, IInv, ~ wrapped, ~ broken, NEW t \in Task, NEW d \in PDE, NEW p \in PTE,
         NEW page \in Frame, NEW tpage \in Frame, MapsNew(t, d, p, page, tpage)
  PROVE  Stays
<1>1. ~ IsTable(tpage) /\ dir[t][d].tbl = 0
  BY DEF MapsNew, IInv, FrameInv
<1>2. /\ dir' = [dir EXCEPT ![t][d] = [tbl |-> tpage, rw |-> TRUE]]
      /\ table' = [table EXCEPT ![tpage] = [NoTable EXCEPT ![p] = page]]
  BY DEF MapsNew
<1>3. \A f \in Frame : f # tpage => table'[f] = table[f]
  BY <1>2 DEF IInv, TypeInv
<1>4. \A s \in Task, e \in PDE : s # t \/ e # d => dir'[s][e] = dir[s][e]
  BY <1>2 DEF IInv, TypeInv
<1>5. \A s \in Task, e \in PDE : dir[s][e].tbl \in Frame \cup {0} /\ dir[s][e].tbl # tpage
  BY <1>1 DEF IInv, TypeInv, IsTable
<1>6. \A s \in Task, e \in PDE, q \in PTE :
        Mapped(s, e, q) # 0 => Mapped(s, e, q)' = Mapped(s, e, q)
  BY <1>1, <1>3, <1>4, <1>5 DEF Mapped
<1> QED
  BY <1>6 DEF Stays

\* Every step keeps the mappings.
LEMMA NextStays == ASSUME Sizes, IInv, Next PROVE Stays
<1>1. ~ wrapped /\ ~ broken /\ TypeInv
  BY DEF Next, IInv
<1>2. ASSUME NEW t \in Task, create_utask(t) PROVE Stays
  <2>1. table' = table /\ status[t] = "none" /\ \A s \in Task : s # t => dir'[s] = dir[s]
    BY <1>1, <1>2 DEF create_utask, TypeInv
  <2> QED
    BY <2>1, TablesKept
<1>3. ASSUME NEW t \in Task, task_term(t) PROVE Stays
  BY <1>3, TablesKept DEF task_term
<1>4. ASSUME NEW t \in Task, destroy_task(t) PROVE Stays
  <2>1. table' = table /\ status'[t] = "none" /\ \A s \in Task : s # t => dir'[s] = dir[s]
    BY <1>1, <1>4 DEF destroy_task, TypeInv
  <2> QED
    BY <2>1, TablesKept
<1>5. ASSUME NEW t \in Task, NEW c \in Task, clone_utask(t, c) PROVE Stays
  <2>1. CASE broken'
    BY <2>1 DEF Stays
  <2>2. CASE ~ broken'
    <3>1. table' = table /\ status[c] = "none" /\ \A s \in Task : s # c => dir'[s] = dir[s]
      BY <1>1, <1>5, <2>2 DEF clone_utask, TypeInv
    <3> QED
      BY <3>1, TablesKept
  <2> QED
    BY <2>1, <2>2
<1>6. ASSUME NEW t \in Task, NEW d \in PDE, NEW p \in PTE, NEW w \in BOOLEAN,
             page_fault_handler(t, d, p, w)
      PROVE  Stays
  <2>1. CASE Mapped(t, d, p) = 0 /\ map_page(t, d, p)
    <3>1. CASE Denied(t)
      BY <1>3, <3>1 DEF Denied
    <3>2. CASE \E page \in Frame : MapsInto(t, d, p, page)
      BY <1>1, <2>1, <3>2, MapsIntoStays
    <3>3. CASE \E page, tpage \in Frame : MapsNew(t, d, p, page, tpage)
      BY <1>1, <3>3, MapsNewStays
    <3> QED
      BY <1>1, <2>1, <3>1, <3>2, <3>3, MapOutcome
  <2> QED
    BY <1>3, <1>6, <2>1 DEF page_fault_handler
<1> QED
  BY <1>2, <1>3, <1>4, <1>5, <1>6 DEF Next, sys_exit

\* A page stays where it is as long as its task lives, whatever the others
\* with the same table do.
THEOREM PagesStay == ASSUME Sizes PROVE Spec => MappingsStay
<1>1. IInv /\ [Next]_vars => [Stays]_vars
  BY NextStays
<1>2. MappingsStay <=> [][Stays]_vars
  BY DEF MappingsStay, Stays
<1> QED
  BY <1>1, <1>2, Invariant, PTL DEF Spec
=============================================================================
