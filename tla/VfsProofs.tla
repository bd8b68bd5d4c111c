----------------------------- MODULE VfsProofs ------------------------------
(***************************************************************************)
(* Reference counts of open files, for any number of tasks, descriptors    *)
(* and files.                                                              *)
(***************************************************************************)
EXTENDS Files, FiniteSetTheorems, TLAPS

\* The reference to nxsh's output that create_utask does not count.
Extra(f) == IF f = stdout THEN 1 ELSE 0

\* What rc stands for, and what a task holds from its creation to its end.
IInv ==
    /\ alive \in SUBSET Task /\ IsFiniteSet(alive)
    /\ held \in [Task -> [Slot -> File \cup {NULL}]]
    /\ rc \in [File -> Nat]
    /\ live = {f \in File : rc[f] > 0}
    /\ \A t \in Task \ alive : held[t] = Nothing
    /\ \A t \in alive : held[t][CWD] # NULL
    /\ \A f \in File : Cardinality(Holders(f)) <= rc[f] + Extra(f)

\* The slots are finitely many; there are files for the start.
LEMMA Constants ==
    /\ IsFiniteSet(Slot) /\ Slot \subseteq Nat
    /\ CWD \in Slot /\ EXE \in Slot /\ Fd \subseteq Slot /\ CWD \notin Fd /\ EXE \notin Fd
    /\ CWD # EXE /\ stdout \in File /\ 1 .. 4 \subseteq File /\ NULL \notin File
    /\ STDIN_FILENO \in Fd /\ STDOUT_FILENO \in Fd /\ STDERR_FILENO \in Fd
    /\ File \subseteq Nat
<1>1. NR_TASK_FILES \in Nat /\ NR_TASK_FILES > 2 /\ NR_FILES \in Nat /\ NR_FILES > 3
  BY FilesAssumption
<1>2. IsFiniteSet(Slot)
  BY <1>1, FS_Interval DEF Slot
<1> QED
  BY <1>1, <1>2 DEF Slot, Fd, CWD, EXE, File, NULL, stdout, STDIN_FILENO, STDOUT_FILENO,
                    STDERR_FILENO

\* Slots of one task, as pairs
Mine(t, S) == {<<t, s>> : s \in S}

\* A task accounts for as many holders of a file as its slots point to it.
LEMMA MineCounted ==
  ASSUME NEW t, NEW S \in SUBSET Slot
  PROVE  /\ IsFiniteSet(Mine(t, S)) /\ Cardinality(Mine(t, S)) = Cardinality(S)
         /\ Cardinality(S) \in Nat
<1> DEFINE g == [s \in S |-> <<t, s>>]
<1>1. IsFiniteSet(S) /\ Cardinality(S) \in Nat
  BY Constants, FS_Subset, FS_CardinalityType
<1>2. g \in Bijection(S, Mine(t, S))
  BY DEF Bijection, Injection, Surjection, IsInjective, Mine
<1>3. ExistsBijection(S, Mine(t, S))
  BY <1>2 DEF ExistsBijection
<1> QED
  BY <1>1, <1>3, FS_Bijection

\* The cardinality of a union of sets without a common element
LEMMA DisjointUnion ==
  ASSUME NEW A, IsFiniteSet(A), NEW B, IsFiniteSet(B), A \cap B = {}
  PROVE  Cardinality(A \cup B) = Cardinality(A) + Cardinality(B)
<1>1. Cardinality(A \cup B) = Cardinality(A) + Cardinality(B) - Cardinality(A \cap B)
  BY FS_Union
<1>2. Cardinality(A) \in Nat /\ Cardinality(B) \in Nat /\ Cardinality(A \cap B) = 0
  BY FS_CardinalityType, FS_EmptySet
<1> QED
  BY <1>1, <1>2

\* Only tasks that exist hold files, so a file has finitely many holders.
LEMMA HoldersFinite ==
  ASSUME IInv, NEW f \in File
  PROVE  /\ IsFiniteSet(Holders(f)) /\ Cardinality(Holders(f)) \in Nat
         /\ Holders(f) \subseteq alive \X Slot
<1>1. Holders(f) \subseteq alive \X Slot
  <2>1. \A t \in Task \ alive, s \in Slot : held[t][s] = NULL
    BY DEF IInv, Nothing
  <2>2. \A h \in Task \X Slot : h[1] \notin alive => held[h[1]][h[2]] # f
    BY <2>1, Constants
  <2> QED
    BY <2>2 DEF Holders
<1>2. IsFiniteSet(alive \X Slot)
  BY Constants, FS_Product DEF IInv
<1> QED
  BY <1>1, <1>2, FS_Subset, FS_CardinalityType

\* One slot is given a file or emptied.
Assigned(t, s, v) == held' = [held EXCEPT ![t][s] = v]

\* What that does to the holders of each file.
LEMMA AssignSlot ==
  ASSUME IInv, NEW t \in alive, NEW s \in Slot, NEW v \in File \cup {NULL},
         Assigned(t, s, v), NEW f \in File
  PROVE  Cardinality(Holders(f))' = Cardinality(Holders(f))
                                      - (IF held[t][s] = f THEN 1 ELSE 0)
                                      + (IF v = f THEN 1 ELSE 0)
<1> DEFINE H == Holders(f) \ {<<t, s>>}
<1>1. IsFiniteSet(Holders(f)) /\ Cardinality(Holders(f)) \in Nat
  BY HoldersFinite
<1>2. <<t, s>> \in Holders(f) <=> held[t][s] = f
  BY DEF Holders, IInv
<1>3. /\ IsFiniteSet(H) /\ <<t, s>> \notin H
      /\ Cardinality(H) = Cardinality(Holders(f)) - (IF held[t][s] = f THEN 1 ELSE 0)
  BY <1>1, <1>2, FS_RemoveElement
<1>4. /\ Cardinality(H \cup {<<t, s>>}) = Cardinality(H) + 1
      /\ Cardinality(H) \in Nat
  BY <1>3, FS_AddElement, FS_CardinalityType
<1>5. Holders(f)' = IF v = f THEN H \cup {<<t, s>>} ELSE H
  <2>1. \A x \in Task, y \in Slot : held'[x][y] = IF x = t /\ y = s THEN v ELSE held[x][y]
    BY DEF IInv, Assigned
  <2>2. \A h \in Task \X Slot : h = <<t, s>> <=> h[1] = t /\ h[2] = s
    OBVIOUS
  <2> QED
    BY <2>1, <2>2 DEF Holders, IInv
<1> HIDE DEF H
<1> QED
  BY <1>1, <1>3, <1>4, <1>5

\* vfs_open into an empty slot, by utask_bootloader and sys_open.
LEMMA OpenInv ==
  ASSUME IInv, NEW t \in alive, NEW s \in Slot, held[t][s] = NULL,
         NEW f \in File, vfs_open(t, s, f)
  PROVE  IInv'
<1>1. f \notin live /\ rc[f] = 0
  BY DEF vfs_open, Allocatable, IInv
<1>2. /\ held' = [held EXCEPT ![t][s] = f] /\ rc' = [rc EXCEPT ![f] = 1]
      /\ live' = live \cup {f} /\ alive' = alive
  BY DEF vfs_open
<1>3. /\ held' \in [Task -> [Slot -> File \cup {NULL}]] /\ rc' \in [File -> Nat]
      /\ live' = {g \in File : rc'[g] > 0}
      /\ \A x \in Task \ alive' : held'[x] = Nothing
      /\ \A x \in alive' : held'[x][CWD] # NULL
  BY <1>1, <1>2, Constants DEF IInv
<1>4. ASSUME NEW g \in File
      PROVE  Cardinality(Holders(g))' <= rc'[g] + Extra(g)
  <2>1. Cardinality(Holders(g))' = Cardinality(Holders(g)) + (IF f = g THEN 1 ELSE 0)
    <3>1. f \in File \cup {NULL} /\ Assigned(t, s, f)
      BY <1>2 DEF Assigned
    <3>2. Cardinality(Holders(g))' = Cardinality(Holders(g))
                                      - (IF held[t][s] = g THEN 1 ELSE 0)
                                      + (IF f = g THEN 1 ELSE 0)
      BY <3>1, AssignSlot
    <3> QED
      BY <3>2, HoldersFinite, Constants
  <2>2. Cardinality(Holders(g)) \in Nat /\ Cardinality(Holders(g)) <= rc[g] + Extra(g)
    BY HoldersFinite DEF IInv
  <2>3. rc[g] \in Nat /\ rc'[g] = IF g = f THEN 1 ELSE rc[g]
    BY <1>2 DEF IInv
  <2> QED
    BY <1>1, <2>1, <2>2, <2>3 DEF Extra
<1> QED
  BY <1>2, <1>3, <1>4 DEF IInv, Extra

\* vfs_close of a descriptor
LEMMA CloseInv ==
  ASSUME IInv, NEW t \in Task, sys_close(t)
  PROVE  IInv'
<1>1. PICK fd \in Fd : /\ Booted(t) /\ held[t][fd] # NULL
                       /\ rc' = [rc EXCEPT ![held[t][fd]] = Dropped(held[t][fd], 1)]
                       /\ live' = IF Freed(held[t][fd], 1) THEN live \ {held[t][fd]} ELSE live
                       /\ held' = [held EXCEPT ![t][fd] = NULL]
                       /\ alive' = alive
  BY DEF sys_close
<1> DEFINE f == held[t][fd]
<1>2. t \in alive /\ fd \in Slot /\ fd # CWD /\ f \in File /\ f \in live
  BY <1>1, Constants DEF Booted, IInv
<1>3. rc[f] \in Nat /\ rc[f] > 0 /\ Dropped(f, 1) = rc[f] - 1
  BY <1>2 DEF IInv, Dropped, Freed
<1> HIDE DEF f
<1>4. rc' = [rc EXCEPT ![f] = rc[f] - 1] /\ live' = IF rc[f] <= 1 THEN live \ {f} ELSE live
  BY <1>1, <1>3 DEF f, Freed
<1>5. /\ held' \in [Task -> [Slot -> File \cup {NULL}]] /\ rc' \in [File -> Nat]
      /\ live' = {g \in File : rc'[g] > 0}
      /\ \A x \in Task \ alive' : held'[x] = Nothing
      /\ \A x \in alive' : held'[x][CWD] # NULL
  BY <1>1, <1>2, <1>3, <1>4, Constants DEF IInv
<1>6. ASSUME NEW g \in File
      PROVE  Cardinality(Holders(g))' <= rc'[g] + Extra(g)
  <2>1. Cardinality(Holders(g))' = Cardinality(Holders(g)) - (IF f = g THEN 1 ELSE 0)
    <3>1. NULL \in File \cup {NULL} /\ Assigned(t, fd, NULL)
      BY <1>1 DEF Assigned
    <3>2. Cardinality(Holders(g))' = Cardinality(Holders(g)) - (IF f = g THEN 1 ELSE 0)
                                       + (IF NULL = g THEN 1 ELSE 0)
      BY <1>2, <3>1, AssignSlot DEF f
    <3> QED
      BY <3>2, HoldersFinite, Constants
  <2>2. Cardinality(Holders(g)) \in Nat /\ Cardinality(Holders(g)) <= rc[g] + Extra(g)
    BY HoldersFinite DEF IInv
  <2>3. rc[g] \in Nat /\ rc'[g] = IF g = f THEN rc[g] - 1 ELSE rc[g]
    BY <1>4 DEF IInv
  <2> QED
    BY <2>1, <2>2, <2>3 DEF Extra
<1> QED
  BY <1>1, <1>5, <1>6 DEF IInv, Extra

\* vfs_open of the new directory and vfs_close of the old one
LEMMA ChdirInv ==
  ASSUME IInv, NEW t \in Task, task_chdir(t)
  PROVE  IInv'
<1> DEFINE old == held[t][CWD]
<1>1. PICK f \in Allocatable :
                       /\ rc' = [rc EXCEPT ![f] = 1, ![old] = Dropped(old, 1)]
                       /\ live' = {f} \cup (IF Freed(old, 1) THEN live \ {old} ELSE live)
                       /\ held' = [held EXCEPT ![t][CWD] = f]
                       /\ alive' = alive
  BY DEF task_chdir
<1>2. t \in alive /\ CWD \in Slot /\ old \in File /\ old \in live
  BY Constants DEF task_chdir, Booted, IInv
<1>3. f \in File /\ f \notin live /\ rc[f] = 0 /\ f # old
  BY <1>2 DEF Allocatable, IInv
<1>4. rc[old] \in Nat /\ rc[old] > 0 /\ Dropped(old, 1) = rc[old] - 1
  BY <1>2 DEF IInv, Dropped, Freed
<1>5. /\ rc' = [rc EXCEPT ![f] = 1, ![old] = rc[old] - 1]
      /\ live' = {f} \cup (IF rc[old] <= 1 THEN live \ {old} ELSE live)
  BY <1>1, <1>4 DEF Freed
<1>6. /\ held' \in [Task -> [Slot -> File \cup {NULL}]] /\ rc' \in [File -> Nat]
      /\ \A x \in Task \ alive' : held'[x] = Nothing
      /\ \A x \in alive' : held'[x][CWD] # NULL
  BY <1>1, <1>2, <1>3, <1>4, <1>5, Constants DEF IInv
<1> HIDE DEF old
<1>7. live' = {g \in File : rc'[g] > 0}
  BY <1>2, <1>3, <1>4, <1>5 DEF IInv
<1>8. ASSUME NEW g \in File
      PROVE  Cardinality(Holders(g))' <= rc'[g] + Extra(g)
  <2>1. Cardinality(Holders(g))' = Cardinality(Holders(g)) - (IF old = g THEN 1 ELSE 0)
                                     + (IF f = g THEN 1 ELSE 0)
    <3>1. f \in File \cup {NULL} /\ Assigned(t, CWD, f)
      BY <1>1, <1>3 DEF Assigned
    <3> QED
      BY <1>2, <3>1, AssignSlot DEF old
  <2>2. Cardinality(Holders(g)) \in Nat /\ Cardinality(Holders(g)) <= rc[g] + Extra(g)
    BY HoldersFinite DEF IInv
  <2>3. rc[g] \in Nat /\ rc'[g] = IF g = old THEN rc[g] - 1 ELSE IF g = f THEN 1 ELSE rc[g]
    BY <1>3, <1>5 DEF IInv
  <2> QED
    BY <1>3, <2>1, <2>2, <2>3 DEF Extra
<1> QED
  BY <1>1, <1>6, <1>7, <1>8 DEF IInv, Extra

\* The file sys_stat opens is held by no one.
LEMMA StatInv ==
  ASSUME IInv, NEW t \in Task, sys_stat(t)
  PROVE  IInv'
<1>1. PICK f \in Allocatable : /\ live' = live \cup {f} /\ rc' = [rc EXCEPT ![f] = 1]
                               /\ alive' = alive /\ held' = held
  BY DEF sys_stat
<1>2. f \in File /\ rc[f] = 0
  BY DEF Allocatable, IInv
<1>3. \A g \in File : Holders(g)' = Holders(g)
  BY <1>1 DEF Holders
<1>4. \A g \in File : rc'[g] = IF g = f THEN 1 ELSE rc[g]
  BY <1>1 DEF IInv
<1>5. live' = {g \in File : rc'[g] > 0} /\ rc' \in [File -> Nat]
  BY <1>1, <1>2, <1>4 DEF IInv
<1>6. ASSUME NEW g \in File
      PROVE  Cardinality(Holders(g))' <= rc'[g] + Extra(g)
  <2>1. Cardinality(Holders(g)) \in Nat /\ Cardinality(Holders(g)) <= rc[g] + Extra(g)
    BY HoldersFinite DEF IInv
  <2>2. Cardinality(Holders(g))' = Cardinality(Holders(g))
    BY <1>3
  <2>3. rc[g] \in Nat
    BY DEF IInv
  <2> QED
    BY <1>2, <1>4, <2>1, <2>2, <2>3 DEF Extra
<1> QED
  BY <1>1, <1>5, <1>6 DEF IInv, Extra

\* A clone holds what its parent holds, and each reference is counted.
LEMMA CloneInv ==
  ASSUME IInv, NEW t \in Task, NEW c \in Task, clone_utask(t, c)
  PROVE  IInv'
<1>1. /\ t \in alive /\ c \notin alive /\ alive' = alive \cup {c} /\ live' = live
      /\ held' = [held EXCEPT ![c] = held[t]]
      /\ \A s \in Slot : held[t][s] \in live \cup {NULL}
  BY DEF clone_utask, Booted
<1> DEFINE S(g) == {s \in Slot : held[t][s] = g}
<1>2. \A g \in File : Cardinality(S(g)) \in Nat
  BY MineCounted
<1>3. \A g \in File : rc'[g] = rc[g] + Cardinality(S(g)) + IF g = held[t][CWD] THEN 1 ELSE 0
  BY DEF clone_utask, Times
<1>4. rc' \in [File -> Nat]
  <2>1. \A g \in File : rc'[g] \in Nat
    <3>1. \A g \in File : rc[g] \in Nat
      BY DEF IInv
    <3> HIDE DEF S
    <3> QED
      BY <1>2, <1>3, <3>1
  <2>2. rc' = [g \in File |-> rc'[g]]
    BY DEF clone_utask
  <2> QED
    BY <2>1, <2>2
<1>5. \A g \in File : rc[g] = 0 => S(g) = {} /\ g # held[t][CWD]
  <2>1. \A g \in File : rc[g] = 0 => g \notin live \cup {NULL}
    BY Constants DEF IInv
  <2> QED
    BY <1>1, <2>1, Constants
<1>6. live' = {g \in File : rc'[g] > 0}
  <2>1. \A g \in File : rc[g] = 0 => rc'[g] = 0
    BY <1>3, <1>5, FS_EmptySet, Cardinality({}) = 0
  <2>2. \A g \in File : rc[g] > 0 => rc'[g] > 0
    <3>1. \A g \in File : rc[g] \in Nat
      BY DEF IInv
    <3> HIDE DEF S
    <3> QED
      BY <1>2, <1>3, <3>1
  <2> HIDE DEF S
  <2> QED
    BY <1>1, <2>1, <2>2 DEF IInv
<1>7. /\ held' \in [Task -> [Slot -> File \cup {NULL}]]
      /\ \A x \in Task \ alive' : held'[x] = Nothing
      /\ \A x \in alive' : held'[x][CWD] # NULL
  BY <1>1 DEF IInv
<1>8. alive' \in SUBSET Task /\ IsFiniteSet(alive')
  BY <1>1, FS_AddElement DEF IInv
<1>9. ASSUME NEW g \in File
      PROVE  Cardinality(Holders(g))' <= rc'[g] + Extra(g)
  <2>1. Holders(g)' = Holders(g) \cup Mine(c, S(g))
    <3>1. Holders(g) \subseteq (Task \ {c}) \X Slot
      BY <1>1, HoldersFinite DEF IInv
    <3>2. \A x \in Task, y \in Slot : held'[x][y] = IF x = c THEN held[t][y] ELSE held[x][y]
      BY <1>1 DEF IInv
    <3>3. ASSUME NEW h \in Task \X Slot
          PROVE  h \in Holders(g)' <=> h \in Holders(g) \cup Mine(c, S(g))
      <4>1. h = <<h[1], h[2]>> /\ h[1] \in Task /\ h[2] \in Slot
        OBVIOUS
      <4>2. h \in Mine(c, S(g)) <=> h[1] = c /\ held[t][h[2]] = g
        BY <4>1 DEF Mine
      <4>3. h \in Holders(g)' <=> held'[h[1]][h[2]] = g
        BY DEF Holders
      <4>4. h \in Holders(g) <=> held[h[1]][h[2]] = g
        BY DEF Holders
      <4>5. h \in Holders(g) => h[1] # c
        BY <3>1
      <4> QED
        BY <3>2, <4>1, <4>2, <4>3, <4>4, <4>5
    <3>4. Holders(g)' \subseteq Task \X Slot /\ Mine(c, S(g)) \subseteq Task \X Slot
      BY DEF Holders, Mine
    <3>5. Holders(g) \subseteq Task \X Slot
      BY DEF Holders
    <3> QED
      BY <3>3, <3>4, <3>5
  <2>2. Holders(g) \cap Mine(c, S(g)) = {}
    BY <1>1, HoldersFinite DEF Mine
  <2>3. /\ IsFiniteSet(Mine(c, S(g))) /\ Cardinality(Mine(c, S(g))) = Cardinality(S(g))
    BY MineCounted
  <2>4. IsFiniteSet(Holders(g)) /\ Cardinality(Holders(g)) \in Nat
    BY HoldersFinite
  <2>5. Cardinality(Holders(g) \cup Mine(c, S(g))) = Cardinality(Holders(g)) + Cardinality(S(g))
    BY <2>2, <2>3, <2>4, DisjointUnion
  <2>6. Cardinality(Holders(g))' = Cardinality(Holders(g)) + Cardinality(S(g))
    BY <2>1, <2>5
  <2>7. Cardinality(Holders(g)) <= rc[g] + Extra(g) /\ rc[g] \in Nat /\ Extra(g) \in Nat
    BY DEF IInv, Extra
  <2> HIDE DEF S
  <2> QED
    BY <1>2, <1>3, <2>4, <2>6, <2>7
<1> HIDE DEF S
<1> QED
  BY <1>4, <1>6, <1>7, <1>8, <1>9 DEF IInv, Extra

\* A task that is destroyed drops all it holds.
LEMMA DestroyInv ==
  ASSUME IInv, NEW t \in Task, destroy_task(t)
  PROVE  IInv'
<1>1. /\ t \in alive /\ alive' = alive \ {t} /\ held' = [held EXCEPT ![t] = Nothing]
      /\ rc' = [f \in File |-> Dropped(f, Times(t, f))]
      /\ live' = {f \in live : ~ Freed(f, Times(t, f))}
  BY DEF destroy_task, Booted
<1> DEFINE S(g) == {s \in Slot : held[t][s] = g}
<1>2. \A g \in File : Times(t, g) \in Nat /\ rc[g] \in Nat
  BY MineCounted DEF Times, IInv
<1>3. \A g \in File : rc'[g] = IF rc[g] <= Times(t, g) THEN 0 ELSE rc[g] - Times(t, g)
  BY <1>1 DEF Dropped, Freed
<1>4. rc' \in [File -> Nat] /\ live' = {g \in File : rc'[g] > 0}
  <2>1. \A g \in File : rc'[g] \in Nat
    BY <1>2, <1>3
  <2>2. \A g \in File : rc'[g] > 0 <=> rc[g] > 0 /\ ~ (rc[g] <= Times(t, g))
    BY <1>2, <1>3
  <2> QED
    BY <1>1, <2>1, <2>2 DEF IInv, Freed
<1>5. /\ held' \in [Task -> [Slot -> File \cup {NULL}]]
      /\ \A x \in Task \ alive' : held'[x] = Nothing
      /\ \A x \in alive' : held'[x][CWD] # NULL
  BY <1>1 DEF IInv, Nothing
<1>6. alive' \in SUBSET Task /\ IsFiniteSet(alive')
  BY <1>1, FS_RemoveElement DEF IInv
<1>7. ASSUME NEW g \in File
      PROVE  Cardinality(Holders(g))' <= rc'[g] + Extra(g)
  <2>1. \A x \in Task, y \in Slot : held'[x][y] = IF x = t THEN NULL ELSE held[x][y]
    BY <1>1 DEF IInv, Nothing
  <2>2. ASSUME NEW h \in Task \X Slot
        PROVE  /\ h \in Holders(g) <=> h \in Holders(g)' \cup Mine(t, S(g))
               /\ ~ (h \in Holders(g)' /\ h \in Mine(t, S(g)))
    <3>1. h = <<h[1], h[2]>> /\ h[1] \in Task /\ h[2] \in Slot
      OBVIOUS
    <3>2. h \in Mine(t, S(g)) <=> h[1] = t /\ held[t][h[2]] = g
      BY <3>1 DEF Mine
    <3>3. h \in Holders(g)' <=> held'[h[1]][h[2]] = g
      BY DEF Holders
    <3>4. h \in Holders(g) <=> held[h[1]][h[2]] = g
      BY DEF Holders
    <3> QED
      BY <2>1, <3>1, <3>2, <3>3, <3>4, Constants
  <2>3. /\ Holders(g)' \subseteq Task \X Slot /\ Mine(t, S(g)) \subseteq Task \X Slot
        /\ Holders(g) \subseteq Task \X Slot
    BY DEF Holders, Mine
  <2>4. Holders(g) = Holders(g)' \cup Mine(t, S(g)) /\ Holders(g)' \cap Mine(t, S(g)) = {}
    BY <2>2, <2>3
  <2>5. IsFiniteSet(Mine(t, S(g))) /\ Cardinality(Mine(t, S(g))) = Times(t, g)
    BY MineCounted DEF Times
  <2>6. IsFiniteSet(Holders(g)) /\ Holders(g)' \subseteq Holders(g)
    BY <2>4, HoldersFinite
  <2>7. IsFiniteSet(Holders(g)') /\ Cardinality(Holders(g)') \in Nat
    BY <2>6, FS_Subset, FS_CardinalityType
  <2>8. Cardinality(Holders(g)) = Cardinality(Holders(g)') + Times(t, g)
    BY <2>4, <2>5, <2>7, DisjointUnion
  <2>9. Cardinality(Holders(g)) <= rc[g] + Extra(g)
    BY DEF IInv
  <2>10. Extra(g) \in Nat
    BY DEF Extra
  <2> QED
    BY <1>2, <1>3, <2>7, <2>8, <2>9, <2>10
<1> QED
  BY <1>4, <1>5, <1>6, <1>7 DEF IInv, Extra

\* kernel_setup counts each of its four files once; one of them is in two slots.
LEMMA InitInv == Init => IInv
<1> SUFFICES ASSUME Init PROVE IInv
  OBVIOUS
<1>1. Init_ \in Task /\ Nxsh \in Task /\ Init_ # Nxsh
  BY FilesAssumption
<1>2. /\ alive \in SUBSET Task /\ IsFiniteSet(alive)
      /\ rc \in [File -> Nat] /\ live = {f \in File : rc[f] > 0}
  <2>1. IsFiniteSet({Init_}) /\ {Init_, Nxsh} = {Init_} \cup {Nxsh}
    BY FS_Singleton
  <2>2. IsFiniteSet(alive)
    BY <2>1, FS_AddElement DEF Init
  <2>3. rc = [f \in File |-> IF f \in 1 .. 4 THEN 1 ELSE 0] /\ live = 1 .. 4
    BY DEF Init
  <2>4. rc \in [File -> Nat] /\ live = {f \in File : rc[f] > 0}
    BY <2>3, Constants
  <2> QED
    BY <1>1, <2>2, <2>4 DEF Init
<1>3. Nothing \in [Slot -> File \cup {NULL}]
  BY DEF Nothing
<1>4. /\ held[Init_] = [Nothing EXCEPT ![CWD] = 1]
      /\ held[Nxsh] = [Nothing EXCEPT ![CWD] = 2, ![STDIN_FILENO] = 3,
                               ![STDOUT_FILENO] = stdout, ![STDERR_FILENO] = stdout]
      /\ \A t \in Task \ {Init_, Nxsh} : held[t] = Nothing
      /\ held = [t \in Task |-> held[t]]
  BY <1>1 DEF Init
<1>5. /\ STDIN_FILENO # CWD /\ STDOUT_FILENO # CWD /\ STDERR_FILENO # CWD
      /\ STDIN_FILENO # STDOUT_FILENO /\ STDIN_FILENO # STDERR_FILENO
      /\ STDOUT_FILENO # STDERR_FILENO
      /\ 1 \in File /\ 2 \in File /\ 3 \in File /\ stdout = 4
      /\ STDIN_FILENO \in Slot /\ STDOUT_FILENO \in Slot /\ STDERR_FILENO \in Slot
  BY Constants DEF STDIN_FILENO, STDOUT_FILENO, STDERR_FILENO, stdout
<1>6. /\ held[Init_] \in [Slot -> File \cup {NULL}]
      /\ held[Nxsh] \in [Slot -> File \cup {NULL}]
  BY <1>3, <1>4, Constants, <1>5
<1>7. held \in [Task -> [Slot -> File \cup {NULL}]]
  BY <1>3, <1>4, <1>6
<1>8. /\ \A t \in Task \ alive : held[t] = Nothing
      /\ \A t \in alive : held[t][CWD] # NULL
  <2>1. held[Init_][CWD] # NULL /\ held[Nxsh][CWD] # NULL
    BY <1>3, <1>4, <1>5, Constants DEF NULL
  <2> QED
    BY <1>4, <2>1 DEF Init
<1>9. ASSUME NEW f \in File
      PROVE  Cardinality(Holders(f)) <= rc[f] + Extra(f)
  <2> DEFINE A == IF f = 1 THEN {<<Init_, CWD>>}
                  ELSE IF f = 2 THEN {<<Nxsh, CWD>>}
                  ELSE IF f = 3 THEN {<<Nxsh, STDIN_FILENO>>}
                  ELSE IF f = 4 THEN {<<Nxsh, STDOUT_FILENO>>} \cup {<<Nxsh, STDERR_FILENO>>}
                  ELSE {}
  <2>1. /\ \A s \in Slot : held[Init_][s] = f => f = 1 /\ s = CWD
        /\ \A s \in Slot : held[Nxsh][s] = f =>
              \/ f = 2 /\ s = CWD
              \/ f = 3 /\ s = STDIN_FILENO
              \/ f = 4 /\ (s = STDOUT_FILENO \/ s = STDERR_FILENO)
        /\ \A t \in Task \ {Init_, Nxsh}, s \in Slot : held[t][s] # f
    BY <1>3, <1>4, <1>5, Constants DEF Nothing
  <2>2. Holders(f) \subseteq A
    <3>1. ASSUME NEW h \in Task \X Slot, held[h[1]][h[2]] = f
          PROVE  h \in A
      <4>1. h = <<h[1], h[2]>> /\ h[1] \in Task /\ h[2] \in Slot
        OBVIOUS
      <4> QED
        BY <2>1, <3>1, <4>1
    <3> QED
      BY <3>1 DEF Holders
  <2>3. /\ IsFiniteSet(A) /\ Cardinality(A) \in Nat
        /\ Cardinality(A) <= IF f = 4 THEN 2 ELSE IF f \in 1 .. 4 THEN 1 ELSE 0
    <3>1. CASE f = 4
      <4>1. IsFiniteSet({<<Nxsh, STDOUT_FILENO>>}) /\ Cardinality({<<Nxsh, STDOUT_FILENO>>}) = 1
        BY FS_Singleton
      <4>2. A = {<<Nxsh, STDOUT_FILENO>>} \cup {<<Nxsh, STDERR_FILENO>>}
        BY <3>1
      <4>3. <<Nxsh, STDERR_FILENO>> \notin {<<Nxsh, STDOUT_FILENO>>}
        BY <1>5
      <4>4. IsFiniteSet(A) /\ Cardinality(A) = 1 + 1
        <5> HIDE DEF A
        <5> QED
          BY <4>1, <4>2, <4>3, FS_AddElement
      <4> QED
        BY <3>1, <4>4
    <3>2. CASE f \in 1 .. 3
      <4>1. \E x : A = {x}
        <5>1. f = 1 \/ f = 2 \/ f = 3
          BY <3>2
        <5> QED
          BY <5>1
      <4>2. IsFiniteSet(A) /\ Cardinality(A) = 1
        <5> HIDE DEF A
        <5> QED
          BY <4>1, FS_Singleton
      <4> QED
        BY <3>2, <4>2
    <3>3. CASE f \notin 1 .. 4
      BY <3>3, FS_EmptySet
    <3> QED
      BY <3>1, <3>2, <3>3, Constants
  <2>4. Cardinality(Holders(f)) \in Nat /\ Cardinality(Holders(f)) <= Cardinality(A)
    BY <2>2, <2>3, FS_Subset, FS_CardinalityType
  <2>5. rc[f] = IF f \in 1 .. 4 THEN 1 ELSE 0
    BY DEF Init
  <2> HIDE DEF A
  <2> QED
    BY <1>5, <2>3, <2>4, <2>5 DEF Extra
<1> QED
  BY <1>2, <1>7, <1>8, <1>9 DEF IInv

\* Every step keeps the counters.
LEMMA FilesStep == IInv /\ [Next]_vars => IInv'
<1> SUFFICES ASSUME IInv, [Next]_vars PROVE IInv'
  OBVIOUS
<1>1. ASSUME NEW t \in Task, utask_bootloader(t) PROVE IInv'
  BY <1>1, OpenInv, Constants DEF utask_bootloader
<1>2. ASSUME NEW t \in Task, sys_open(t) PROVE IInv'
  BY <1>2, OpenInv, Constants DEF sys_open, Booted
<1>3. ASSUME UNCHANGED vars PROVE IInv'
  <2>1. \A f \in File : Holders(f)' = Holders(f)
    BY <1>3 DEF vars, Holders
  <2> QED
    BY <1>3, <2>1 DEF vars, IInv, Extra
<1> QED
  BY <1>1, <1>2, <1>3, CloseInv, ChdirInv, StatInv, CloneInv, DestroyInv DEF Next

\* No struct file is freed while a task holds it, but for the one that
\* create_utask counts once and puts into two descriptors (fs/file.c vfs_close,
\* kernel/task.c clone_utask and destroy_task): for any tasks, descriptors and
\* files.
THEOREM FilesKept == Spec => []FilesCounted
<1>1. IInv => FilesCounted
  <2> SUFFICES ASSUME IInv PROVE FilesCounted
    OBVIOUS
  <2>1. Counted
    BY DEF IInv, Counted, Extra
  <2>2. ASSUME NEW t \in alive, NEW s \in Slot, held[t][s] \notin live \cup {NULL}
        PROVE  held[t][s] = stdout
    <3> DEFINE f == held[t][s]
    <3>1. t \in Task /\ f \in File /\ rc[f] = 0
      BY <2>2 DEF IInv
    <3>2. <<t, s>> \in Holders(f)
      BY <3>1 DEF Holders
    <3>3. Cardinality(Holders(f)) \in Nat /\ IsFiniteSet(Holders(f))
      BY <3>1, HoldersFinite
    <3>4. Cardinality(Holders(f)) # 0
      BY <3>2, <3>3, FS_EmptySet
    <3>5. Cardinality(Holders(f)) <= rc[f] + Extra(f)
      BY <3>1 DEF IInv
    <3> QED
      BY <3>1, <3>3, <3>4, <3>5 DEF Extra
  <2> QED
    BY <2>1, <2>2 DEF FilesCounted, DanglingOnlyShared
<1> QED
  BY <1>1, InitInv, FilesStep, PTL DEF Spec
=============================================================================
