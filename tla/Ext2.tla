-------------------------------- MODULE Ext2 --------------------------------
(***************************************************************************)
(* Reading the root file system: fs/ext2/ext2.c, and sys_getdents.         *)
(*                                                                         *)
(* At boot the user tasks open and read their program files with           *)
(* interrupts enabled, in any interleaving; another task lists a directory *)
(* with system calls.  Every read of the disk may fail.  A block of a file *)
(* is named <<inode number, index>>; NoBlock is the block number 0.        *)
(***************************************************************************)
EXTENDS Naturals, Sequences, SequencesExt

CONSTANTS Task,
          EXT2_B_L1_IDX,   \* direct blocks of an inode
          INO_CNT_PB,      \* block numbers in a block
          BS,              \* bytes of a block
          FIRST, IPG,      \* first_data_block and inodes_per_group
          Size,            \* inode number -> size of the file
          Dir,             \* the root directory: a sequence of blocks, each a
                           \* sequence of entries <<name, inode number>>
          Want,            \* task -> the name that it opens
          Batch            \* the entries that one getdents has room for

VARIABLES group,           \* read_inode's static variable
          pc, ino, inode, index, got, offset, fault, mixed,
          file, list, listed

tvars == <<pc, ino, inode, index, got, offset, fault, mixed>>
lvars == <<file, list, listed>>
vars == <<group, tvars, lvars>>

EXT2_INO_ROOT == 2
NoBlock == <<0, 0>>
Least(a, b) == IF a < b THEN a ELSE b
Blocks(i) == (Size[i] + BS - 1) \div BS
Group(i) == (i - FIRST) \div IPG

\* The inode at a place of the inode tables: its size, the direct blocks, and
\* what its index block holds.
At(g, k) ==
    LET i == g * IPG + k + FIRST
        block(b) == IF b < Blocks(i) THEN <<i, b>> ELSE NoBlock
    IN  [size |-> Size[i],
         block |-> [b \in 0 .. EXT2_B_L1_IDX - 1 |-> block(b)],
         L1 |-> [b \in 0 .. INO_CNT_PB - 1 |-> block(EXT2_B_L1_IDX + b)]]

Init == /\ group = 0
        /\ pc = [t \in Task |-> "open"]
        /\ ino = [t \in Task |-> EXT2_INO_ROOT]
        /\ inode = [t \in Task |-> At(0, 0)]
        /\ index = [t \in Task |-> 0]
        /\ got = [t \in Task |-> <<>>]
        /\ offset = [t \in Task |-> 0]
        /\ fault = [t \in Task |-> FALSE]
        /\ mixed = [t \in Task |-> FALSE]
        /\ file = [buf |-> "NULL", off |-> 0] /\ list = <<>> /\ listed = "no"

-----------------------------------------------------------------------------
(* block_read_iter *)

\* block_iter_L1, block_iter_L2, block_iter_L3: the block with index k.  For a
\* doubly indirect block, block_iter_L2 passes the quotient as a block number,
\* which is 0 for the first INO_CNT_PB of them.
Block(n, k) ==
    IF k < EXT2_B_L1_IDX THEN n.block[k]
    ELSE IF k < EXT2_B_L1_IDX + INO_CNT_PB THEN n.L1[k - EXT2_B_L1_IDX]
    ELSE IF (k - (EXT2_B_L1_IDX + INO_CNT_PB)) \div INO_CNT_PB = 0 THEN NoBlock
    ELSE <<0, k>>

\* The disk is read for it, an index block perhaps.
Reads(n, k) ==
    IF k < EXT2_B_L1_IDX THEN n.block[k] # NoBlock
    ELSE IF k < EXT2_B_L1_IDX + INO_CNT_PB THEN n.size > EXT2_B_L1_IDX * BS
    ELSE n.size > (EXT2_B_L1_IDX + INO_CNT_PB) * BS

\* Where ext2_f_read stops: at a 0, or when the buffer is full.
EndOfFile(t) == Block(inode[t], index[t]) = NoBlock \/ offset[t] = inode[t].size

-----------------------------------------------------------------------------
(* A task that opens and reads a file *)

\* ext2_i_lookup and its callers give up: the disk, or kmalloc.
fail(t) == pc' = [pc EXCEPT ![t] = "failed"] /\ fault' = [fault EXCEPT ![t] = TRUE]

\* read_inode, up to the use of the static variable
read_inode_group(t) ==
    /\ pc[t] \in {"open", "found"}
    /\ group' = Group(ino[t])
    /\ pc' = [pc EXCEPT ![t] = IF @ = "open" THEN "root" ELSE "inode"]
    /\ UNCHANGED <<ino, inode, index, got, offset, fault, mixed, lvars>>

\* read_inode: the table of the group that the static variable points to now.
read_inode(t) ==
    /\ pc[t] \in {"root", "inode"}
    /\ \/ fail(t) /\ UNCHANGED <<inode, mixed>>
       \/ /\ inode' = [inode EXCEPT ![t] = At(group, (ino[t] - FIRST) % IPG)]
          /\ mixed' = [mixed EXCEPT ![t] = @ \/ group # Group(ino[t])]
          /\ pc' = [pc EXCEPT ![t] = IF @ = "root" THEN "search" ELSE "read"]
          /\ UNCHANGED fault
    /\ UNCHANGED <<group, ino, index, got, offset, lvars>>

\* The entry of the name in a block; one with inode 0 ends the search.
Search(es, name) ==
    {k \in 1 .. Len(es) : es[k][1] = name /\ \A j \in 1 .. k : es[j][2] # 0}

\* search_in_dir looks at the first block, and a directory without one, or an
\* error, means that there is no such entry.  The entries are those of the
\* inode that read_inode has returned.
search_in_dir(t) ==
    /\ pc[t] = "search"
    /\ \/ fail(t) /\ UNCHANGED ino
       \/ LET b == Block(inode[t], 0)
              found == IF b = <<EXT2_INO_ROOT, 0>> THEN Search(Dir[1], Want[t]) ELSE {}
          IN  /\ IF found = {}
                 THEN pc' = [pc EXCEPT ![t] = "failed"] /\ UNCHANGED ino
                 ELSE \E k \in found : /\ ino' = [ino EXCEPT ![t] = Dir[1][k][2]]
                                       /\ pc' = [pc EXCEPT ![t] = "found"]
              /\ UNCHANGED fault
    /\ UNCHANGED <<group, inode, index, got, offset, mixed, lvars>>

\* Mutant: a block that cannot be read ends the file.
ext2_f_read_short(t) ==
    /\ pc[t] = "read"
    /\ \/ /\ EndOfFile(t)
          /\ pc' = [pc EXCEPT ![t] = "done"]
          /\ UNCHANGED <<index, got, offset, fault>>
       \/ /\ pc' = [pc EXCEPT ![t] = "done"] /\ fault' = [fault EXCEPT ![t] = TRUE]
          /\ UNCHANGED <<index, got, offset>>
       \/ /\ ~ EndOfFile(t)
          /\ got' = [got EXCEPT ![t] = Append(@, Block(inode[t], index[t]))]
          /\ index' = [index EXCEPT ![t] = @ + 1]
          /\ offset' = [offset EXCEPT ![t] = Least(@ + BS, inode[t].size)]
          /\ UNCHANGED <<pc, fault>>
    /\ UNCHANGED <<group, ino, inode, mixed, lvars>>

\* ext2_f_read with room for the whole file, one block_read_iter per step.
ext2_f_read(t) ==
    /\ pc[t] = "read"
    /\ \/ /\ EndOfFile(t)
          /\ pc' = [pc EXCEPT ![t] = "done"]
          /\ UNCHANGED <<index, got, offset, fault>>
       \/ /\ Reads(inode[t], index[t])
          /\ fail(t)
          /\ UNCHANGED <<index, got, offset>>
       \/ /\ ~ EndOfFile(t)
          /\ got' = [got EXCEPT ![t] = Append(@, Block(inode[t], index[t]))]
          /\ index' = [index EXCEPT ![t] = @ + 1]
          /\ offset' = [offset EXCEPT ![t] = Least(@ + BS, inode[t].size)]
          /\ UNCHANGED <<pc, fault>>
    /\ UNCHANGED <<group, ino, inode, mixed, lvars>>

-----------------------------------------------------------------------------
(* A task that lists the directory *)

Entries == FlattenSeq(Dir)

\* Mutant: off goes back to the start with every call.
sys_getdents_off ==
    /\ listed = "no"
    /\ IF Len(list) + Batch <= Len(Entries)
       THEN list' = list \o SubSeq(Entries, 1, Batch) /\ UNCHANGED listed
       ELSE listed' = "all" /\ UNCHANGED list
    /\ UNCHANGED <<group, tvars, file>>

\* ext2_f_readdir reads the directory on the first call.  A buffer whose read
\* has failed stays.
ext2_f_readdir(buf) == IF buf = "NULL" THEN {"dir", "junk"} ELSE {buf}

\* sys_getdents: the next call takes a buffer that could not be read for the
\* directory.  At the end, what the same call had returned before is lost.
sys_getdents ==
    /\ listed = "no"
    /\ \E buf \in ext2_f_readdir(file.buf) :
         LET n == Least(Batch, Len(Entries) - file.off) IN
         \/ /\ buf = "junk"
            /\ listed' = IF file.buf = "junk" THEN "junk" ELSE "no"
            /\ file' = [file EXCEPT !.buf = buf] /\ UNCHANGED list
         \/ /\ buf = "dir" /\ n < Batch
            /\ listed' = "all" /\ UNCHANGED list
            /\ file' = [buf |-> buf, off |-> Len(Entries)]
         \/ /\ buf = "dir" /\ n = Batch
            /\ list' = list \o SubSeq(Entries, file.off + 1, file.off + n)
            /\ file' = [buf |-> buf, off |-> file.off + n] /\ UNCHANGED listed
    /\ UNCHANGED <<group, tvars>>

Next == sys_getdents
        \/ \E t \in Task : \/ read_inode_group(t) \/ read_inode(t)
                           \/ search_in_dir(t) \/ ext2_f_read(t)

-----------------------------------------------------------------------------
(* Properties *)

\* The inode that a name of the first directory block stands for.
Named(name) == {Dir[1][k][2] : k \in {k \in 1 .. Len(Dir[1]) : Dir[1][k][1] = name}}

\* What a program file is read to is its blocks, in order and from the first
\* one on, all of them up to the EXT2_B_L1_IDX + INO_CNT_PB that are not
\* doubly indirect, whatever the other tasks read meanwhile and whichever read
\* of the disk fails; unless another task's read_inode has come between the
\* assignment of the static variable group and its use (ext2.c:79).  A longer
\* file is cut off there without an error (ext2.c:211).
ReadsNamedFile ==
    \A t \in Task : pc[t] = "done" /\ ~ mixed[t] =>
        \E i \in Named(Want[t]) :
            LET n == Least(Blocks(i), EXT2_B_L1_IDX + INO_CNT_PB)
            IN  /\ got[t] = [k \in 1 .. n |-> <<i, k - 1>>]
                /\ offset[t] = Least(Size[i], n * BS)

\* An operation fails only if a read failed, the name is not in the first
\* block of the directory before its first unused entry, or group was
\* overwritten.
FailsForAReason ==
    \A t \in Task : pc[t] = "failed" =>
        fault[t] \/ mixed[t] \/ Search(Dir[1], Want[t]) = {}

\* How opening and reading a program may end.
OpensAndReads == ReadsNamedFile /\ FailsForAReason

\* A listing that comes to the end of the directory has all of its entries
\* once and in order, up to the last full batch: sys_getdents returns 0 at the
\* end although it has filled a part of the buffer (fs.c:101).
ListsFullBatches ==
    listed = "all" => list = SubSeq(Entries, 1, Len(Entries) - (Len(Entries) % Batch))
=============================================================================
