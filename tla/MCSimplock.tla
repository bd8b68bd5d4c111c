----------------------------- MODULE MCSimplock -----------------------------
(***************************************************************************)
(* The two small services everything else builds on, the lock and the      *)
(* linked list: instances of Simplock and List.  A behaviour is one of one *)
(* of them; the variables of the other keep their initial values.  Boot    *)
(* loaders run with IF = 1, system calls and interrupt handlers with       *)
(* IF = 0.                                                                 *)
(***************************************************************************)
EXTENDS Simplock

CONSTANTS boot1, boot2, call1, call2, Heads, Nodes, NULL

VARIABLES active, prev, next, ret

MCTask == {boot1, call1, call2}
MCOneBoot == {boot1}

MCTwoBootTask == {boot1, boot2}

L == INSTANCE List

qvars == <<prev, next, ret>>
all == <<active, vars, qvars>>

SInit == Init /\ L!Init /\ active \in {"Simplock", "List"}

SNext == /\ UNCHANGED active
         /\ \/ active = "Simplock" /\ Next /\ UNCHANGED qvars
            \/ active = "List" /\ L!Next /\ UNCHANGED vars

SSpec == SInit /\ [][SNext]_all

-----------------------------------------------------------------------------
(* Properties *)

\* The macros of lib/list.h implement queues, see List.
Refines == L!Refines
=============================================================================
