------------------------------- MODULE MCVfs --------------------------------
(***************************************************************************)
(* The file systems: instances of Files (open files and their counts) and  *)
(* Vfs (dentries, mounts, paths and the devices).  A behaviour is one of   *)
(* one of them; the variables of the other keep their initial values.      *)
(***************************************************************************)
EXTENDS Files

VARIABLES active, dent, lock, walk, cwd, exe, refs, boot, nodes, bitmap, lookups, raced

\* "far" is in the second block of its directory, "late" behind a deleted entry.
MCDisk == [root |-> << <<<<"bin", "bin">>, <<"dev", "dev">>>> >>,
           bin |-> << <<<<"init", "init">>, <<"nxsh", "nxsh">>, <<"old", "none">>, <<"late", "late">>>>,
                      <<<<"far", "far">>>> >>,
           dev |-> <<>>]
MCPaths == {<<>>, <<"bin">>, <<"bin", "late">>, <<"bin", "far">>, <<".", "..", "dev">>,
            <<"dev", "ttyS0", "ttyS1">>, <<"sixteen">>}

V == INSTANCE Vfs WITH Disk <- MCDisk, LongNames <- {"sixteen"},
                       Names <- <<"ttyS0", "ttyS1">>, DEV_MAX <- 4, Paths <- MCPaths,
                       Exe <- [t \in Task |-> <<"bin", IF t = Nxsh THEN "nxsh" ELSE "init">>],
                       MAX_DENT <- 7, MaxLookups <- 2, held <- refs

wvars == <<dent, lock, walk, cwd, exe, refs, boot, nodes, bitmap, lookups, raced>>
all == <<active, vars, wvars>>

FInit == Init /\ V!Init /\ active \in {"Files", "Vfs"}

FNext == /\ UNCHANGED active
         /\ \/ active = "Files" /\ Next /\ UNCHANGED wvars
            \/ active = "Vfs" /\ V!Next /\ UNCHANGED vars

FSpec == FInit /\ [][FNext]_all

-----------------------------------------------------------------------------
(* Properties *)

\* vfs_lookup ends where its path leads, or without one for a reason, see Vfs.
LookupResolves == V!LookupResolves

\* A name of a directory has one dentry, see Vfs.
OneDentryPerName == V!OneDentryPerName

\* A dentry that somebody holds is counted for it, see Vfs.
HeldIsCounted == V!HeldIsCounted

\* getcwd and realpath return paths that lead back, see Vfs.
PathsLeadBack == V!PathsLeadBack

=============================================================================
