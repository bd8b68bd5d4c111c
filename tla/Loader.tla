------------------------------- MODULE Loader -------------------------------
(***************************************************************************)
(* From the boot loader to a mounted root file system: boot/hd/loader.c    *)
(* finds the kernel on the disk, reads it to the end of the memory, copies *)
(* its segments and enables paging; the kernel then frees the pages it     *)
(* does not need (mm/page.c) and opens the file system (fs/ext2/ext2.c).   *)
(*                                                                         *)
(* Addresses count blocks.  Every read of the disk may time out.  The disk *)
(* and the memory are chosen when the machine is switched on.  The k-th    *)
(* block of the kernel file is block k of the disk; its index blocks have  *)
(* larger numbers.                                                         *)
(***************************************************************************)
EXTENDS Naturals, Sequences

CONSTANTS EXT2_B_L1_IDX, INO_CNT_PB,
          PAGE_SIZE,               \* in blocks
          RES_PAGES,               \* CONFIG_KERNEL_RES_PAGES
          Machines                 \* records: parts, magic, rootgroups,
                                   \* kernel (in the first block of the root
                                   \* directory, its inode in the same group),
                                   \* size, elf, ards, segments

VARIABLES m,             \* the machine
          phase,         \* what is done next, "panic" or "up"
          part, root,    \* the partitions of the loader and of the kernel
          loop,          \* i, j, k and the blocks in buf and bitmap
          image,         \* the blocks that were read to the memory
          kernel_file,   \* the address of the first one
          kernel_start, kernel_end, tmp, free

vars == <<m, phase, part, root, loop, image, kernel_file, kernel_start, kernel_end, tmp, free>>

PART_BOOTABLE == 128
PART_TYPE_EXT2FS == 131
Infinity == 1000
Off == [parts |-> <<>>, magic |-> FALSE, rootgroups |-> {}, kernel |-> FALSE, size |-> 0,
        elf |-> FALSE, ards |-> <<>>, segments |-> {}]
Ceil(a) == ((a + PAGE_SIZE - 1) \div PAGE_SIZE) * PAGE_SIZE

Init == /\ m = Off /\ phase = "off" /\ part = 0 /\ root = 0
        /\ loop = [i |-> 0, j |-> 0, k |-> 0, buf |-> 0, bitmap |-> 0]
        /\ image = <<>> /\ kernel_file = 0
        /\ kernel_start = Infinity /\ kernel_end = 0 /\ tmp = 0 /\ free = {}

power_on ==
    /\ phase = "off"
    /\ m' \in Machines
    /\ phase' = "mbr"
    /\ UNCHANGED <<part, root, loop, image, kernel_file, kernel_start, kernel_end, tmp, free>>

Bootable == {p \in 1 .. Len(m.parts) : m.parts[p].boot = PART_BOOTABLE}
First(S) == CHOOSE p \in S : \A q \in S : p <= q
Last(S) == CHOOSE p \in S : \A q \in S : p >= q

mem == <<loop, image, kernel_file, kernel_start, kernel_end, tmp, free>>

\* The block numbers of the kernel's inode, and in its index blocks; 0 is none.
EXT2_B_L2_IDX == EXT2_B_L1_IDX + 1
EXT2_B_L3_IDX == EXT2_B_L1_IDX + 2
Direct == EXT2_B_L1_IDX + INO_CNT_PB
Double == Direct + INO_CNT_PB * INO_CNT_PB
Block(k) == IF k <= m.size THEN k ELSE 0

kernel_ino_block(i) ==
    CASE i < EXT2_B_L1_IDX -> Block(i + 1)
      [] i = EXT2_B_L1_IDX -> IF m.size > EXT2_B_L1_IDX THEN Infinity ELSE 0
      [] i = EXT2_B_L2_IDX -> IF m.size > Direct THEN Infinity + 1 ELSE 0
      [] i = EXT2_B_L3_IDX -> IF m.size > Double THEN Infinity + 2 ELSE 0

Number(b, j) ==
    CASE b = Infinity -> Block(EXT2_B_L1_IDX + j + 1)
      [] b = Infinity + 1 -> IF m.size > Direct + j * INO_CNT_PB THEN Infinity + 3 + j ELSE 0
      [] OTHER -> Block(Direct + (b - (Infinity + 3)) * INO_CNT_PB + j + 1)

\* The disk is read next.  The loops over the kernel's blocks end with their
\* arrays or at a 0.
Due == CASE phase = "block" -> loop.i <= EXT2_B_L2_IDX /\ kernel_ino_block(loop.i) # 0
         [] phase \in {"L1", "L2"} -> loop.j < INO_CNT_PB /\ Number(loop.buf, loop.j) # 0
         [] phase = "L2k" -> loop.k < INO_CNT_PB /\ Number(loop.bitmap, loop.k) # 0
         [] OTHER -> phase \in {"mbr", "s_block", "group", "root", "inode",
                                "k_mbr", "k_s_block", "k_groups", "k_root"}

\* A read that times out, or kmalloc that fails in the kernel: loader_panic
\* or kernel_panic.
time_out ==
    /\ Due /\ phase' = "panic"
    /\ UNCHANGED <<m, part, root, mem>>

-----------------------------------------------------------------------------
(* read_kernel_file *)

\* A phase that reads, tests what it has read, and goes on or gives up.
Step(from, test, to) ==
    /\ phase = from
    /\ phase' = IF test THEN to ELSE "panic"
    /\ UNCHANGED <<m, root>>

\* The first bootable partition; it must be an ext2 one.
read_mbr ==
    /\ part' = IF Bootable = {} THEN 0 ELSE First(Bootable)
    /\ Step("mbr", Bootable # {} /\ m.parts[First(Bootable)].type = PART_TYPE_EXT2FS, "s_block")
    /\ UNCHANGED mem

read_s_block == Step("s_block", TRUE, "group") /\ UNCHANGED <<part, mem>>

\* The group in whose inode bitmap the root directory is marked
read_groups == Step("group", m.rootgroups # {}, "root") /\ UNCHANGED <<part, mem>>

\* Only the first block of the root directory is looked at.
read_root == Step("root", m.kernel, "inode") /\ UNCHANGED <<part, mem>>

\* kernel_file_addr takes the last region of the map with enough memory.
Fits(a) == m.ards[a].avl /\ m.ards[a].len >= m.size

Regions == {a \in 1 .. Len(m.ards) : Fits(a)}

\* The inode of the kernel, and the memory for the file
read_inode ==
    /\ Step("inode", Regions # {}, "block")
    /\ kernel_file' = IF Regions = {} THEN 0
                      ELSE m.ards[Last(Regions)].base + m.ards[Last(Regions)].len - m.size
    /\ UNCHANGED <<part, loop, image, kernel_start, kernel_end, tmp, free>>

others == <<m, part, root, kernel_file, kernel_start, kernel_end, tmp, free>>

\* The loop over kernel_ino.block: a direct block goes to the memory, an index
\* block to buf, and the kernel is too large if it has a triply indirect one.
read_block ==
    /\ phase = "block" /\ UNCHANGED others
    /\ LET b == kernel_ino_block(loop.i) IN
       \/ /\ Due /\ loop.i < EXT2_B_L1_IDX
          /\ image' = Append(image, b) /\ loop' = [loop EXCEPT !.i = @ + 1]
          /\ UNCHANGED phase
       \/ /\ Due /\ loop.i >= EXT2_B_L1_IDX
          /\ loop' = [loop EXCEPT !.buf = b, !.j = 0]
          /\ phase' = IF loop.i = EXT2_B_L1_IDX THEN "L1" ELSE "L2"
          /\ UNCHANGED image
       \/ /\ ~ Due
          /\ phase' = IF loop.i = EXT2_B_L3_IDX /\ b # 0 THEN "panic" ELSE "elf"
          /\ UNCHANGED <<image, loop>>

\* Mutant: the last number of the index block is not looked at.
read_block_L1_short ==
    /\ phase = "L1" /\ UNCHANGED others
    /\ IF Due /\ loop.j + 1 < INO_CNT_PB
       THEN /\ image' = Append(image, Number(loop.buf, loop.j))
            /\ loop' = [loop EXCEPT !.j = @ + 1] /\ UNCHANGED phase
       ELSE loop' = [loop EXCEPT !.i = @ + 1] /\ phase' = "block" /\ UNCHANGED image

\* The loop over the numbers of the index block
read_block_L1 ==
    /\ phase = "L1" /\ UNCHANGED others
    /\ IF Due
       THEN /\ image' = Append(image, Number(loop.buf, loop.j))
            /\ loop' = [loop EXCEPT !.j = @ + 1] /\ UNCHANGED phase
       ELSE loop' = [loop EXCEPT !.i = @ + 1] /\ phase' = "block" /\ UNCHANGED image

\* The loop over the numbers of the doubly indirect index block
read_block_L2 ==
    /\ phase = "L2" /\ UNCHANGED <<others, image>>
    /\ IF Due
       THEN /\ loop' = [loop EXCEPT !.bitmap = Number(loop.buf, loop.j), !.k = 0]
            /\ phase' = "L2k"
       ELSE loop' = [loop EXCEPT !.i = @ + 1] /\ phase' = "block"

\* The loop over the numbers in bitmap: what is read to the memory is the block
\* of numbers again, m and not n.
read_block_L2k ==
    /\ phase = "L2k" /\ UNCHANGED others
    /\ IF Due
       THEN /\ image' = Append(image, Number(loop.buf, loop.j))
            /\ loop' = [loop EXCEPT !.k = @ + 1] /\ UNCHANGED phase
       ELSE loop' = [loop EXCEPT !.j = @ + 1] /\ phase' = "L2" /\ UNCHANGED image

-----------------------------------------------------------------------------
(* load_kernel_elf and setup_page *)

\* A PT_LOAD program header with something in the file, or a NOBITS section,
\* of the kernel's part of the address space
Loaded == {s \in m.segments : s.kernel /\ (s.type = "LOAD" => s.filesz > 0)}

\* The memory of a segment: p_memsz or sh_size
Extent(s) == s.memsz

load_kernel_elf ==
    /\ phase = "elf"
    /\ IF m.elf
       THEN /\ kernel_start' = First({s.addr : s \in Loaded} \cup {Infinity})
            /\ kernel_end' = Last({s.addr + Extent(s) : s \in Loaded} \cup {0})
            /\ phase' = "page"
       ELSE phase' = "panic" /\ UNCHANGED <<kernel_start, kernel_end>>
    /\ UNCHANGED <<m, part, root, loop, image, kernel_file, tmp, free>>

\* The temporary table for the first megabyte goes behind the kernel.
setup_page ==
    /\ phase = "page"
    /\ tmp' = Ceil(kernel_end)
    /\ phase' = "init_page"
    /\ UNCHANGED <<m, part, root, loop, image, kernel_file, kernel_start, kernel_end, free>>

-----------------------------------------------------------------------------
(* The kernel: init_page, ext2_setup *)

\* Mutant: the pages that are reserved behind the kernel are not left out.
Reserved_none == Ceil(kernel_end)

Reserved == Ceil(kernel_end) + RES_PAGES * PAGE_SIZE

\* The pages of the aligned free regions, above the kernel
init_page ==
    /\ phase = "init_page"
    /\ free' = UNION {{a \in Reserved .. m.ards[r].base + m.ards[r].len - PAGE_SIZE :
                         a % PAGE_SIZE = 0 /\ a >= m.ards[r].base} :
                      r \in {r \in 1 .. Len(m.ards) : /\ m.ards[r].avl
                                                      /\ m.ards[r].base % PAGE_SIZE = 0}}
    /\ phase' = "k_mbr"
    /\ UNCHANGED <<m, part, root, loop, image, kernel_file, kernel_start, kernel_end, tmp>>

\* read_s_block: the last bootable partition; the end mark is tested here only.
k_read_mbr ==
    /\ phase = "k_mbr"
    /\ root' = IF m.magic THEN Last(Bootable) ELSE root
    /\ phase' = IF m.magic THEN "k_s_block" ELSE "panic"
    /\ UNCHANGED <<m, part, mem>>

\* The super block, the table of groups, and the inode of the root directory
k_read_s_block == Step("k_s_block", TRUE, "k_groups") /\ UNCHANGED <<part, mem>>
k_read_b_groups == Step("k_groups", TRUE, "k_root") /\ UNCHANGED <<part, mem>>
ext2_mount_rootfs == Step("k_root", TRUE, "up") /\ UNCHANGED <<part, mem>>

Next == \/ power_on \/ time_out
        \/ read_mbr \/ read_s_block \/ read_groups \/ read_root \/ read_inode 
        \/ read_block \/ read_block_L1 \/ read_block_L2 \/ read_block_L2k
        \/ load_kernel_elf \/ setup_page
        \/ init_page
        \/ k_read_mbr \/ k_read_s_block \/ k_read_b_groups \/ ext2_mount_rootfs

-----------------------------------------------------------------------------
(* Properties *)

Running == phase \in {"elf", "page", "init_page", "k_mbr", "k_s_block", "k_groups", "k_root", "up"}

\* The kernel that is started is the whole kernel file, block by block, if it
\* has no doubly indirect blocks: no block of numbers that read_kernel_file
\* reads on the way ends up in it, and none is left out or put twice.
StartsTheFile ==
    Running /\ m.size <= Direct => image = [k \in 1 .. m.size |-> k]

\* The memory for the file is chosen by its size, and the loops end with the
\* block numbers of its inode: they write no block past the region's end, a
\* doubly indirect one included, whose contents are wrong.
FileInRegion ==
    image # <<>> => \E a \in 1 .. Len(m.ards) :
        /\ m.ards[a].avl
        /\ m.ards[a].base <= kernel_file
        /\ kernel_file + Len(image) <= m.ards[a].base + m.ards[a].len

\* What is started is the kernel file, whole and in its memory.
BootsTheKernel == StartsTheFile /\ FileInRegion

\* No page that the allocator may give away holds a part of the kernel or its
\* zeroed data, or the loader's table for the low megabyte, which is in use
\* until the first task has its own: kernel_end, computed by the loader from
\* the headers and sections, and CONFIG_KERNEL_RES_PAGES keep them apart
\* (page.c:65; config.c draws "kernel image | reserved" in this order).
FreePagesUnused ==
    \A a \in free :
        /\ \A s \in m.segments : s.kernel => a >= s.addr + s.memsz
        /\ a # tmp
=============================================================================
