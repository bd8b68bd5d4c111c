------------------------------ MODULE Monitor -------------------------------
(***************************************************************************)
(* The output side of the terminals: kernel/tty.c and                      *)
(* drivers/monitor/monitor.c.  The video memory is divided into one buffer *)
(* per terminal; start is where a buffer begins, cursor and screen are the *)
(* position of the next character and of the first visible one in it.  The *)
(* controller has two 16-bit registers, start and cursor, each written in  *)
(* two halves through an address and a data port.  cursor and screen are   *)
(* 16 bits wide too.                                                       *)
(*                                                                         *)
(* A task writes to terminal 0 inside a system call, interrupts disabled,  *)
(* so monitor_putchar is one step; it may write any character, and nothing *)
(* stops it from erasing before the first cell.  [ttyd] scrolls and switches with       *)
(* interrupts enabled: the task may come in between any two accesses.      *)
(***************************************************************************)
EXTENDS Naturals, Sequences

CONSTANTS COLS,       \* CRT_NR_COLUMNS
          ROWS,       \* rows of the screen
          BUF_ROWS,   \* rows of a buffer
          SCROLL_ROWS,
          BYTE,       \* 2^8, the base of the two halves of a register
          TTYS_COUNT,
          MaxSteps    \* bound on the characters and commands of a behaviour

VARIABLES mon,        \* the struct monitor of every terminal
          crt, addr,  \* the registers, and the one that is selected
          ops,        \* what [ttyd] has still to do
          reg,        \* mon->screen, in a register of [ttyd]
          current,    \* _tty_current
          steps,
          under,      \* the task has erased at the first cell of its buffer
          between     \* the task has written while [ttyd] was not done, and
                      \* no terminal was switched to since

vars == <<mon, crt, addr, ops, reg, current, steps, under, between>>

CRT_SIZE == ROWS * COLS
CRT_BUF_SIZE == BUF_ROWS * COLS
Ttys == 0 .. TTYS_COUNT - 1
Start(fd) == fd * CRT_BUF_SIZE
None == CRT_BUF_SIZE * TTYS_COUNT

\* A uint16_t, and its two bytes
Word(v) == v % (BYTE * BYTE)
Halves(v) == <<v \div BYTE, v % BYTE>>
Value(h) == h[1] * BYTE + h[2]

\* Where the boot loader leaves the cursor: below its messages.
BootCursor == COLS

\* monitor_init and tty_monitor_init: terminal 0 goes on from the registers
\* (_get_start, _get_cursor) and is shown.
Init == /\ mon = [fd \in Ttys |-> [cursor |-> IF fd = 0 THEN BootCursor ELSE 0, screen |-> 0,
                                   foreground |-> fd = 0]]
        /\ crt = [start |-> Halves(0), cursor |-> Halves(BootCursor)]
        /\ addr = <<"cursor", 2>> /\ ops = <<>> /\ reg = None
        /\ current = 0 /\ steps = 0 /\ under = FALSE /\ between = FALSE

-----------------------------------------------------------------------------
(* monitor_putchar, by a task *)

\* Mutant: the buffer is shifted when the cursor is past its end, not at it.
Advance_late(cursor, c) ==
    LET next == CASE c = "LF" -> cursor + (COLS - (cursor % COLS))
                  [] c = "BS" -> Word(cursor + (BYTE * BYTE - 1))
                  [] OTHER -> cursor + 1
    IN  Word(IF next > CRT_BUF_SIZE THEN next - COLS ELSE next)

\* The cursor after c: a full buffer is shifted up by a row.  cursor-- is
\* unsigned and is stored in 16 bits.
Advance(cursor, c) ==
    LET next == CASE c = "LF" -> cursor + (COLS - (cursor % COLS))
                  [] c = "BS" -> Word(cursor + (BYTE * BYTE - 1))
                  [] OTHER -> cursor + 1
    IN  Word(IF next = CRT_BUF_SIZE THEN next - COLS ELSE next)

screen_detached(m) == m.cursor >= m.screen + CRT_SIZE

\* screen after monitor_scroll_down has been repeated while the cursor is
\* below the screen.
Attach(m) ==
    IF screen_detached(m)
    THEN m.screen + COLS * ((m.cursor - m.screen - CRT_SIZE) \div COLS + 1)
    ELSE m.screen

monitor_putchar(c) ==
    LET m == [mon[0] EXCEPT !.cursor = Advance(@, c)]
        v == [m EXCEPT !.screen = Attach(m)]
    IN  IF m.foreground
        THEN /\ mon' = [mon EXCEPT ![0] = v]
             /\ crt' = [start |-> IF v.screen # m.screen THEN Halves(v.screen) ELSE crt.start,
                        cursor |-> Halves(v.cursor)]
             /\ addr' = <<"cursor", 2>>
        ELSE /\ mon' = [mon EXCEPT ![0] = m]
             /\ UNCHANGED <<crt, addr>>

tty_write(c) ==
    /\ steps < MaxSteps /\ steps' = steps + 1
    /\ monitor_putchar(c)
    /\ under' = (under \/ (c = "BS" /\ mon[0].cursor = 0))
    /\ between' = (between \/ ops # <<>>)
    /\ UNCHANGED <<ops, reg, current>>

-----------------------------------------------------------------------------
(* ttyd: a command is a sequence of accesses, one step each *)

\* _set_start and _set_cursor: the value is read when they are called.
Set(r, v) == << <<"addr", <<r, 1>>>>, <<"data", v \div BYTE>>,
                <<"addr", <<r, 2>>>>, <<"data", v % BYTE>> >>

Repeat(op) == [j \in 1 .. SCROLL_ROWS |-> op]

\* Mutant: the terminal that leaves the screen keeps its foreground flag.
Switch_keep(fd) == << <<"fore", fd>>, <<"start", fd>>, <<"cursor", fd>>,
                      <<"attach", fd>>, <<"current", fd>> >>

\* monitor_switch, then _tty_current = fd
Switch(fd) == << <<"back", current>>, <<"fore", fd>>, <<"start", fd>>,
                 <<"cursor", fd>>, <<"attach", fd>>, <<"current", fd>> >>

\* tty_in_proc: Shift with Page Up, Page Down, F1 .. F3.  A switch writes both
\* registers anew.
tty_in_proc(o) ==
    /\ ops = <<>> /\ steps < MaxSteps /\ steps' = steps + 1
    /\ ops' = o
    /\ UNCHANGED <<mon, crt, addr, reg, current, under>>

\* The next access, and the terminal it is about.
Doing(names) == ops # <<>> /\ Head(ops)[1] \in names
t == Head(ops)[2]

\* The two ports.
out_byte ==
    /\ \/ /\ Doing({"addr"}) /\ addr' = Head(ops)[2] /\ UNCHANGED crt
       \/ /\ Doing({"data"}) /\ UNCHANGED addr
          /\ crt' = [crt EXCEPT ![addr[1]][addr[2]] = Head(ops)[2]]
    /\ ops' = Tail(ops)
    /\ UNCHANGED <<mon, reg, current, steps, under, between>>

\* monitor_scroll_up and monitor_scroll_down up to the load of screen; the
\* loop of monitor_switch scrolls down as long as the cursor is not visible.
scroll_test ==
    /\ \/ /\ Doing({"up"})
          /\ IF mon[t].screen = 0
             THEN ops' = Tail(ops) /\ UNCHANGED reg
             ELSE reg' = mon[t].screen - COLS /\ ops' = << <<"store", t>> >> \o Tail(ops)
       \/ /\ Doing({"down", "attach"})
          /\ IF ~ screen_detached(mon[t])
             THEN ops' = Tail(ops) /\ UNCHANGED reg
             ELSE /\ reg' = mon[t].screen + COLS
                  /\ ops' = << <<"store", t>> >> \o
                            (IF Doing({"attach"}) THEN ops ELSE Tail(ops))
    /\ UNCHANGED <<mon, crt, addr, current, steps, under, between>>

\* The store of screen, and the call of _set_start.
scroll_store ==
    /\ Doing({"store"})
    /\ mon' = [mon EXCEPT ![t].screen = reg]
    /\ reg' = None
    /\ ops' = Set("start", Word(Start(t) + reg)) \o Tail(ops)
    /\ UNCHANGED <<crt, addr, current, steps, under, between>>

\* The steps of monitor_switch, and of tty_switch after it.
switch_step ==
    /\ \/ /\ Doing({"back", "fore"})
          /\ mon' = [mon EXCEPT ![t].foreground = Doing({"fore"})]
          /\ ops' = Tail(ops) /\ UNCHANGED current
       \/ /\ Doing({"start", "cursor"})
          /\ ops' = Set(Head(ops)[1], Word(Start(t) + (IF Doing({"start"})
                                                       THEN mon[t].screen ELSE mon[t].cursor)))
                    \o Tail(ops)
          /\ UNCHANGED <<mon, current>>
       \/ /\ Doing({"current"})
          /\ current' = t /\ ops' = Tail(ops) /\ UNCHANGED mon
    /\ UNCHANGED <<crt, addr, reg, steps, under, between>>

Next == \/ \E c \in {"x", "LF", "BS"} : tty_write(c)
        \/ \E fd \in Ttys : tty_in_proc(Switch(fd)) /\ between' = FALSE
        \/ \E d \in {"up", "down"} : tty_in_proc(Repeat(<<d, current>>)) /\ UNCHANGED between
        \/ out_byte \/ scroll_test \/ scroll_store \/ switch_step

Spec == Init /\ [][Next]_vars

-----------------------------------------------------------------------------
(* Properties *)

\* The cursor stays in the buffer of its terminal, whatever the order of
\* characters, newlines and erasures and whatever [ttyd] does meanwhile:
\* cursor == limit is tested for equality after every character
\* (monitor.c:103), and a cursor that jumped over it would write into the
\* next terminal's memory.  Only an erasure at the first cell takes it out,
\* which nothing in tty_write or monitor_putchar prevents (monitor.c:94).
CursorInside == ~ under => \A m \in Ttys : mon[m].cursor \in 0 .. CRT_BUF_SIZE - 1

\* When [ttyd] is done, the registers show the terminal that takes the keys,
\* from its screen on and with its cursor, and the screen is a whole number of
\* rows inside its buffer.  A task that writes between the two accesses of
\* _set_start selects another register, and the second half goes there
\* (monitor.c:47); the next switch that is not disturbed shows the terminal
\* again.
ShowsForeground ==
    ops = <<>> /\ ~ between /\ ~ under =>
        /\ \A m \in Ttys : mon[m].foreground <=> m = current
        /\ Value(crt.start) = Word(Start(current) + mon[current].screen)
        /\ Value(crt.cursor) = Word(Start(current) + mon[current].cursor)
        /\ \A m \in Ttys : /\ mon[m].screen % COLS = 0
                           /\ mon[m].screen + CRT_SIZE <= CRT_BUF_SIZE
=============================================================================
