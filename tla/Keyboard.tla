------------------------------ MODULE Keyboard ------------------------------
(***************************************************************************)
(* The ring of scan codes between the keyboard interrupt and the task      *)
(* [ttyd] (drivers/keyboard/keyboard.c), and the interrupt mask with which *)
(* the reader means to protect it (drivers/i8259a/i8259a.c).  [ttyd] runs  *)
(* with EFLAGS.IF = 1: the interrupt can come between any two of its       *)
(* instructions unless the 8259A masks it.  kb_buf.count-- is a load and a *)
(* store.                                                                  *)
(*                                                                         *)
(* Scan codes are numbered in the order in which they enter the ring.      *)
(***************************************************************************)
EXTENDS Naturals

CONSTANTS KEYBOARD_IN_BYTES,
          Irq,           \* the interrupt lines of the master 8259A
          IRQ_KEYBOARD,
          Enabled,       \* the lines kernel_setup has enabled
          MaxKeys        \* bound on the scan codes of a behaviour

ASSUME KeyboardAssumption ==
    /\ KEYBOARD_IN_BYTES \in Nat \ {0}
    /\ MaxKeys \in Nat
    /\ Enabled \subseteq Irq
    /\ IRQ_KEYBOARD \in Enabled

VARIABLES mask,                     \* the mask register: lines that are off
          data, head, tail, count,  \* kb_buf, indices instead of pointers
          sent, stored, taken,      \* scan codes sent, put in and taken out
          over,                     \* an unread byte has been overwritten
          pc, reg, scan_code        \* [ttyd] in get_byte_from_kbuf

ring == <<data, head, tail, count>>
vars == <<mask, ring, sent, stored, taken, over, pc, reg, scan_code>>

Slot == 0 .. KEYBOARD_IN_BYTES - 1

Succ(i) == (i + 1) % KEYBOARD_IN_BYTES

Init ==
    /\ mask = Irq \ Enabled
    /\ data = [i \in Slot |-> 0]
    /\ head = 0 /\ tail = 0 /\ count = 0
    /\ sent = 0 /\ stored = 0 /\ taken = 0
    /\ over = FALSE
    /\ pc = "test" /\ reg = 0 /\ scan_code = 0

enable_irq_n(n) == mask' = mask \ {n}

\* "mask & (1 << n)" keeps at most the bit of line n.
disable_irq_n(n) == mask' = mask \cap {n}

-----------------------------------------------------------------------------
\* Mutant: the byte is counted before the ring is found to be full.
keyboard_handler_counts ==
    /\ IRQ_KEYBOARD \notin mask
    /\ sent < MaxKeys
    /\ sent' = sent + 1
    /\ count' = count + 1
    /\ IF count >= KEYBOARD_IN_BYTES
       THEN UNCHANGED <<data, head, stored, over>>
       ELSE /\ data' = [data EXCEPT ![head] = stored + 1]
            /\ head' = Succ(head)
            /\ stored' = stored + 1
            /\ over' = (over \/ stored - taken >= KEYBOARD_IN_BYTES)
    /\ UNCHANGED <<mask, tail, taken, pc, reg, scan_code>>

\* A scan code arrives: the handler puts it in the ring or drops it.
keyboard_handler ==
    /\ IRQ_KEYBOARD \notin mask
    /\ sent < MaxKeys
    /\ sent' = sent + 1
    /\ IF count >= KEYBOARD_IN_BYTES
       THEN UNCHANGED <<data, head, count, stored, over>>
       ELSE /\ data' = [data EXCEPT ![head] = stored + 1]
            /\ head' = Succ(head)
            /\ count' = count + 1
            /\ stored' = stored + 1
            /\ over' = (over \/ stored - taken >= KEYBOARD_IN_BYTES)
    /\ UNCHANGED <<mask, tail, taken, pc, reg, scan_code>>

\* Mutant: the last byte stays in the ring.
get_byte_test_last ==
    /\ pc = "test"
    /\ count > 1
    /\ pc' = "mask"
    /\ UNCHANGED <<mask, ring, sent, stored, taken, over, reg, scan_code>>

get_byte_test ==
    /\ pc = "test"
    /\ count > 0
    /\ pc' = "mask"
    /\ UNCHANGED <<mask, ring, sent, stored, taken, over, reg, scan_code>>

get_byte_mask ==
    /\ pc = "mask"
    /\ disable_irq_n(IRQ_KEYBOARD)
    /\ pc' = "take"
    /\ UNCHANGED <<ring, sent, stored, taken, over, reg, scan_code>>

\* Mutant: the tail stays where it is.
get_byte_take_again ==
    /\ pc = "take"
    /\ scan_code' = data[tail]
    /\ pc' = "load"
    /\ UNCHANGED <<mask, ring, sent, stored, taken, over, reg>>

get_byte_take ==
    /\ pc = "take"
    /\ scan_code' = data[tail]
    /\ tail' = Succ(tail)
    /\ pc' = "load"
    /\ UNCHANGED <<mask, data, head, count, sent, stored, taken, over, reg>>

get_byte_load ==
    /\ pc = "load"
    /\ reg' = count
    /\ pc' = "store"
    /\ UNCHANGED <<mask, ring, sent, stored, taken, over, scan_code>>

get_byte_store ==
    /\ pc = "store"
    /\ count' = reg - 1
    /\ taken' = taken + 1
    /\ reg' = 0
    /\ pc' = "unmask"
    /\ UNCHANGED <<mask, data, head, tail, sent, stored, over, scan_code>>

get_byte_unmask ==
    /\ pc = "unmask"
    /\ enable_irq_n(IRQ_KEYBOARD)
    /\ pc' = "test"
    /\ UNCHANGED <<ring, sent, stored, taken, over, reg, scan_code>>

get_byte_from_kbuf ==
    \/ get_byte_test \/ get_byte_mask \/ get_byte_take
    \/ get_byte_load \/ get_byte_store \/ get_byte_unmask

Next == keyboard_handler \/ get_byte_from_kbuf

Spec == Init /\ [][Next]_vars

\* [ttyd] is on the running queue again after each of its turns.
FairSpec == Spec /\ WF_vars(get_byte_from_kbuf)

-----------------------------------------------------------------------------
(* Properties *)

\* kb_buf.count never promises a byte that has not arrived, whatever the
\* interrupt does between the load and the store of count--: an update may be
\* lost, but only in the direction that hides a byte (keyboard.c:
\* keyboard_handler adds, get_byte_from_kbuf subtracts and cannot interrupt
\* the handler).  So [ttyd] never reads a slot nobody has written.
NoPhantom == count + taken <= stored

\* As long as no unread byte has been overwritten, [ttyd] gets the bytes in
\* the order of their arrival, each one once, over any number of turns of the
\* ring (keyboard.c: head, tail and count advance separately).
Fifo ==
    /\ ~ over /\ pc \in {"load", "store"} => scan_code = taken + 1
    /\ ~ over /\ pc = "unmask" => scan_code = taken

\* While a byte is counted [ttyd] takes one.
Drains == \A n \in 0 .. MaxKeys : (count > 0 /\ taken = n) ~> taken > n

\* The keyboard interrupt is off between disable_irq_n and enable_irq_n.
Quiet == pc \in {"take", "load", "store", "unmask"} => IRQ_KEYBOARD \in mask
=============================================================================
