------------------------------- MODULE MCDisk -------------------------------
(***************************************************************************)
(* The disk and what is read from it: instances of Harddisk, Ext2 and      *)
(* Loader.  A behaviour is one of one of them; the variables of the others *)
(* keep their initial values.                                              *)
(***************************************************************************)
EXTENDS Harddisk

VARIABLES active,
          group, at, ino, inode, index, data, offset, fault, mixed, file, list, listed,
          m, phase, part, root, loop, image, kernel_file, kernel_start, kernel_end, tmp, free

\* Inode 2 is the root directory, of two blocks; inode 3 has doubly indirect
\* blocks; "c" is in the second block of the directory.
MCDir == << <<<<"a", 3>>, <<"b", 1>>>>, <<<<"c", 4>>, <<"d", 1>>, <<"e", 1>>>> >>

\* A partition, a region of the memory map, a segment of the kernel
P(boot, type) == [boot |-> boot, type |-> type]
R(base, len, avl) == [base |-> base, len |-> len, avl |-> avl]
G(type, addr, filesz, memsz, kernel) ==
    [type |-> type, addr |-> addr, filesz |-> filesz, memsz |-> memsz, kernel |-> kernel]

\* No partition to boot, several, or one of another type; kernels up to the
\* first triply indirect block; memory with and without a gap; a .bss of its
\* own, or zeroes behind the data and a segment of the first megabyte.
MCMachines ==
    [parts : {<<P(0, 131), P(128, 131)>>, <<P(128, 131), P(0, 131)>>, <<P(128, 7)>>,
              <<P(0, 131)>>, <<P(128, 131), P(128, 131)>>},
     magic : BOOLEAN, rootgroups : {{0}, {}}, kernel : BOOLEAN,
     size : {1, 2, 3, 4, 5, 7, 8, 9}, elf : BOOLEAN,
     ards : {<<R(0, 2, TRUE), R(2, 3, FALSE), R(6, 14, TRUE), R(21, 4, TRUE)>>,
             <<R(0, 2, TRUE), R(6, 24, TRUE)>>},
     segments : {{G("LOAD", 6, 3, 3, TRUE), G("NOBITS", 9, 0, 2, TRUE)},
                 {G("LOAD", 6, 1, 4, TRUE), G("LOAD", 1, 1, 1, FALSE),
                  G("LOAD", 10, 0, 1, TRUE), G("NOBITS", 10, 0, 1, TRUE)}}]

E == INSTANCE Ext2 WITH Task <- {"t1", "t2", "t3"}, EXT2_B_L1_IDX <- 2, INO_CNT_PB <- 2,
                        BS <- 2, FIRST <- 1, IPG <- 2, Size <- <<6, 3, 11, 4>>, Dir <- MCDir,
                        Want <- [t1 |-> "a", t2 |-> "b", t3 |-> "c"], Batch <- 2,
                        pc <- at, got <- data
L == INSTANCE Loader WITH EXT2_B_L1_IDX <- 2, INO_CNT_PB <- 2, PAGE_SIZE <- 2, RES_PAGES <- 1,
                          Machines <- MCMachines

evars == <<group, at, ino, inode, index, data, offset, fault, mixed, file, list, listed>>
lvars == <<m, phase, part, root, loop, image, kernel_file, kernel_start, kernel_end, tmp, free>>
all == <<active, vars, evars, lvars>>

DInit == Init /\ E!Init /\ L!Init /\ active \in {"Harddisk", "Ext2", "Loader"}

DNext == /\ UNCHANGED active
         /\ \/ active = "Harddisk" /\ Next /\ UNCHANGED <<evars, lvars>>
            \/ active = "Ext2" /\ E!Next /\ UNCHANGED <<vars, lvars>>
            \/ active = "Loader" /\ L!Next /\ UNCHANGED <<vars, evars>>

\* The fairness of Harddisk
DSpec == /\ DInit /\ [][DNext]_all
         /\ WF_all(active = "Harddisk" /\ data_ready /\ UNCHANGED <<active, evars, lvars>>)
         /\ SF_all(active = "Harddisk" /\ hd_irq_handler /\ UNCHANGED <<active, evars, lvars>>)
         /\ WF_all(active = "Harddisk" /\ ~ Interruptible /\ (\E t \in Task : Step(t))
                     /\ UNCHANGED <<active, evars, lvars>>)

-----------------------------------------------------------------------------
(* Properties *)

\* Opening and reading a program ends as it should, see Ext2.
OpensAndReads == E!OpensAndReads

\* sys_getdents lists every full batch of entries once, see Ext2.
ListsFullBatches == E!ListsFullBatches

\* The loader starts the kernel file it has found, see Loader.
BootsTheKernel == L!BootsTheKernel

\* init_page frees no page of the kernel or the loader, see Loader.
FreePagesUnused == L!FreePagesUnused

=============================================================================
