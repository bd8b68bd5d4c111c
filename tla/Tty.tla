-------------------------------- MODULE Tty ---------------------------------
(***************************************************************************)
(* The input side of kernel/tty.c: [ttyd] puts what is typed into the      *)
(* iobuf of the terminal on the screen, and a task reads /dev/ttyS0.       *)
(*                                                                         *)
(* Both change count with a load and a store.  [ttyd] runs with interrupts *)
(* enabled.  A reader that finds characters at once runs the system call   *)
(* with interrupts disabled, in one step; a reader that had to yield comes *)
(* back with interrupts enabled and can be preempted anywhere.             *)
(*                                                                         *)
(* Characters are numbered in the order in which they are put into the     *)
(* buffer of terminal 0, so that their order and number can be checked.    *)
(***************************************************************************)
EXTENDS Naturals, Sequences

CONSTANTS TTYS_COUNT,
          TTY_BUF_SIZE,
          Counts,   \* the sizes of the reads
          MaxKeys   \* bound on the keys that are typed

VARIABLES in,       \* ttys[0].in: data, count, head and tail
          current,  \* _tty_current
          i,        \* the loop variable of tty_task
          todo,     \* number of characters that iobuf_put still has to put
          treg,     \* count, in a register of [ttyd]
          rpc,      \* where the reader is in tty_dev_read
          rreg,     \* count, in a register of the reader
          n, r,     \* the size asked for, and the characters read so far
          keys, sent, seen,
          raced,    \* a store has overwritten an update of count
          over,     \* a character was put into a full buffer
          wrong     \* a character was read twice or out of order, or never put

tvars == <<current, i, todo, treg, keys, sent, over>>
rvars == <<rpc, rreg, n, r, seen, wrong>>
vars == <<in, tvars, rvars, raced>>

None == TTY_BUF_SIZE + MaxKeys * 3 + 1
Slot == 0 .. TTY_BUF_SIZE - 1
After(p) == (p + 1) % TTY_BUF_SIZE

\* iobuf_init, and tty_setup has switched to terminal 0
Init == /\ in = [data |-> [s \in Slot |-> 0], count |-> 0, head |-> 0, tail |-> 0]
        /\ current = 0 /\ i = 0 /\ todo = 0 /\ treg = None
        /\ rpc = "user" /\ rreg = None /\ n = 0 /\ r = 0
        /\ keys = 0 /\ sent = 0 /\ seen = 0
        /\ raced = FALSE /\ over = FALSE /\ wrong = FALSE

-----------------------------------------------------------------------------
(* ttyd *)

\* tty_do_read of a terminal that is not on the screen returns at once.
tty_do_read_other ==
    /\ todo = 0 /\ i # current
    /\ i' = (i + 1) % TTYS_COUNT
    /\ UNCHANGED <<in, current, todo, treg, keys, sent, over, rvars, raced>>

\* tty_in_proc: c characters go into the buffer of the terminal, 1 for a
\* character, ENTER or BACKSPACE, 3 for an arrow key, 0 for another extended
\* key.  The buffers of the other terminals are not followed.
tty_in_proc(c) ==
    /\ todo = 0 /\ i = current /\ keys < MaxKeys
    /\ keys' = keys + 1
    /\ IF i = 0 /\ c > 0 THEN todo' = c /\ UNCHANGED i
                         ELSE i' = (i + 1) % TTYS_COUNT /\ UNCHANGED todo
    /\ UNCHANGED <<in, current, treg, sent, over, rvars, raced>>

\* tty_in_proc of Shift-F1 .. Shift-F3
tty_switch(fd) ==
    /\ todo = 0 /\ i = current /\ keys < MaxKeys
    /\ keys' = keys + 1
    /\ current' = fd
    /\ i' = (i + 1) % TTYS_COUNT
    /\ UNCHANGED <<in, todo, treg, sent, over, rvars, raced>>

\* iobuf_put: the character and the head, which no other task uses, and the
\* load of count.  There is no test for a full buffer.
iobuf_put ==
    /\ todo > 0 /\ treg = None
    /\ in' = [in EXCEPT !.data[in.head] = sent + 1, !.head = After(@)]
    /\ sent' = sent + 1
    /\ treg' = in.count
    /\ over' = (over \/ sent - seen >= TTY_BUF_SIZE)
    /\ UNCHANGED <<current, i, todo, keys, rvars, raced>>

\* buf->count++, the store.
iobuf_put_count ==
    /\ treg # None
    /\ in' = [in EXCEPT !.count = treg + 1]
    /\ raced' = (raced \/ in.count # treg)
    /\ treg' = None
    /\ todo' = todo - 1
    /\ i' = IF todo = 1 THEN (i + 1) % TTYS_COUNT ELSE i
    /\ UNCHANGED <<current, keys, sent, over, rvars>>

-----------------------------------------------------------------------------
(* The reader *)

\* The characters of the next k slots from tail on.
Unread(k) == [j \in 1 .. k |-> in.data[(in.tail + j - 1) % TTY_BUF_SIZE]]

\* The reader looks at what it got.
Check(s) == /\ seen' = seen + Len(s)
            /\ wrong' = (wrong \/ s # [j \in 1 .. Len(s) |-> seen + j])

\* sys_read, interrupts disabled: takes what is there, or yields.
tty_dev_read(k) ==
    /\ rpc = "user"
    /\ IF in.count = 0
       THEN /\ rpc' = "test" /\ n' = k /\ r' = 0
            /\ UNCHANGED <<in, seen, wrong>>
       ELSE LET m == IF k < in.count THEN k ELSE in.count IN
            /\ Check(Unread(m))
            /\ in' = [in EXCEPT !.tail = (@ + m) % TTY_BUF_SIZE, !.count = @ - m]
            /\ UNCHANGED <<rpc, n, r>>
    /\ UNCHANGED <<tvars, rreg, raced>>

\* Mutant: the loop waits for all of the characters asked for.
tty_dev_read_test_all ==
    /\ rpc = "test"
    /\ rpc' = IF r = n THEN "user" ELSE IF in.count = 0 THEN "test" ELSE "get"
    /\ IF rpc' = "user" THEN n' = 0 /\ r' = 0 ELSE UNCHANGED <<n, r>>
    /\ UNCHANGED <<in, tvars, rreg, seen, wrong, raced>>

\* After a yield: the loop condition and the test of iobuf_get.
tty_dev_read_test ==
    /\ rpc = "test"
    /\ rpc' = IF r = n \/ (in.count = 0 /\ r > 0) THEN "user"
              ELSE IF in.count = 0 THEN "test" ELSE "get"
    /\ IF rpc' = "user" THEN n' = 0 /\ r' = 0 ELSE UNCHANGED <<n, r>>
    /\ UNCHANGED <<in, tvars, rreg, seen, wrong, raced>>

\* iobuf_get after a yield: the character and the tail, and the load of count.
iobuf_get ==
    /\ rpc = "get"
    /\ Check(Unread(1))
    /\ in' = [in EXCEPT !.tail = After(@)]
    /\ rreg' = in.count
    /\ rpc' = "count"
    /\ UNCHANGED <<tvars, n, r, raced>>

\* Mutant: the characters of an iobuf_get after a yield are not counted off.
iobuf_get_count_keep ==
    /\ rpc = "count"
    /\ rreg' = None /\ r' = r + 1 /\ rpc' = "test"
    /\ UNCHANGED <<in, tvars, n, seen, wrong, raced>>

\* buf->count--, the store.
iobuf_get_count ==
    /\ rpc = "count"
    /\ in' = [in EXCEPT !.count = rreg - 1]
    /\ raced' = (raced \/ in.count # rreg)
    /\ rreg' = None
    /\ r' = r + 1
    /\ rpc' = "test"
    /\ UNCHANGED <<tvars, n, seen, wrong>>

put == iobuf_put \/ iobuf_put_count

ttyd == \/ tty_do_read_other
        \/ \E c \in {0, 1, 3} : tty_in_proc(c)
        \/ \E fd \in 0 .. TTYS_COUNT - 1 : tty_switch(fd)
        \/ put

reader == tty_dev_read_test \/ iobuf_get \/ iobuf_get_count

Next == ttyd \/ reader \/ \E k \in Counts : tty_dev_read(k)

-----------------------------------------------------------------------------
(* Properties *)

\* The only two ways for what is typed to reach a task doubled, out of order,
\* missing or made up are an update of count that overwrites another one
\* (tty.c:45 against tty.c:57, on a preemption between load and store) and a
\* buffer of TTY_BUF_SIZE characters that nobody reads (tty.c:41 has no test).
\* Otherwise the reader gets every character once and in order, and count is
\* the number of characters put and not read, the ones between the move of a
\* pointer and the update of count apart.
FifoUnlessRaced ==
    ~ raced /\ ~ over =>
        /\ ~ wrong
        /\ in.count + (IF treg = None THEN 0 ELSE 1)
             = sent - seen + (IF rreg = None THEN 0 ELSE 1)

\* A task that waits in read() for a terminal goes on once there is a
\* character for it: tty_dev_read looks again after every yield, and returns
\* with what there is.
ReadReturns == (rpc # "user" /\ sent > seen) ~> (rpc = "user" \/ raced)
=============================================================================
