--------------------------- MODULE MonitorProofs ----------------------------
(***************************************************************************)
(* CursorInside and ShowsForeground for screens and buffers of any size,   *)
(* any number of terminals, and any number of characters and commands.     *)
(***************************************************************************)
EXTENDS Monitor, TLAPS

\* A number is the quotient times the divisor, and a remainder below it.
LEMMA Division ==
    ASSUME NEW K \in Nat \ {0}, NEW a \in Nat
    PROVE  a \div K \in Nat /\ a % K \in 0 .. K - 1 /\ a = K * (a \div K) + (a % K)
<1>1. a = K * (a \div K) + (a % K)
  BY Z3
<1>2. a % K \in 0 .. K - 1
  OBVIOUS
<1>3. a \div K \in Nat
  OBVIOUS
<1> QED
  BY <1>1, <1>2, <1>3

\* The next multiple is at least K away.
LEMMA Multiples ==
    ASSUME NEW K \in Nat \ {0}, NEW q \in Nat, NEW p \in Nat, q < p
    PROVE  K * q + K <= K * p
OBVIOUS

\* Quotient and remainder are determined.
LEMMA Unique ==
    ASSUME NEW K \in Nat \ {0}, NEW q \in Nat, NEW p \in Nat,
           NEW r \in 0 .. K - 1, NEW s \in 0 .. K - 1, K * q + r = K * p + s
    PROVE  q = p /\ r = s
<1>1. ~ (q < p)
  BY Multiples
<1>2. ~ (p < q)
  BY Multiples
<1> QED
  BY <1>1, <1>2

\* The buffer has two rows or more, and cursor is wide enough for it.
Sizes == /\ COLS \in Nat \ {0}
         /\ BUF_ROWS \in Nat \ {0, 1}
         /\ TTYS_COUNT \in Nat \ {0}
         /\ BYTE \in Nat \ {0}
         /\ CRT_BUF_SIZE <= BYTE * BYTE

\* A number of 16 bits is kept, and one less than zero is the largest.
LEMMA Words ==
  ASSUME BYTE \in Nat \ {0}, NEW a \in Nat
  PROVE  /\ Word(a) \in Nat
         /\ a < BYTE * BYTE => Word(a) = a
         /\ a < BYTE * BYTE /\ a > 0 => Word(a + (BYTE * BYTE - 1)) = a - 1
<1> DEFINE K == BYTE * BYTE
<1>1. K \in Nat \ {0}
  OBVIOUS
<1> HIDE DEF K
<1>2. \A b \in Nat : b \div K \in Nat /\ b % K \in 0 .. K - 1 /\ b = K * (b \div K) + (b % K)
  BY <1>1, Division
<1>3. \A b \in Nat : Word(b) = b % K
  BY DEF Word, K
<1>4. ASSUME a < K PROVE a % K = a
  <2> DEFINE q == a \div K
             z == a % K
  <2>1. q \in Nat /\ z \in 0 .. K - 1 /\ a = K * q + z
    BY <1>2
  <2> HIDE DEF q, z
  <2>2. K * q + z = K * 0 + a /\ a \in 0 .. K - 1
    BY <1>1, <1>4, <2>1
  <2>3. z = a
    BY <1>1, <2>1, <2>2, Unique
  <2> QED
    BY <2>3 DEF z
<1>5. ASSUME a < K, a > 0 PROVE (a + (K - 1)) % K = a - 1
  <2> DEFINE b == a + (K - 1)
             q == b \div K
             z == b % K
  <2>0. b \in Nat
    BY <1>1
  <2>1. q \in Nat /\ z \in 0 .. K - 1 /\ b = K * q + z
    BY <1>2, <2>0
  <2>2. b = K * 1 + (a - 1) /\ a - 1 \in 0 .. K - 1
    BY <1>1, <1>5
  <2> HIDE DEF q, z, b
  <2>3. z = a - 1
    BY <1>1, <2>1, <2>2, Unique
  <2> QED
    BY <2>3 DEF z, b
<1>6. a + (K - 1) \in Nat
  BY <1>1
<1>7. /\ Word(a) \in Nat
      /\ a < K => Word(a) = a
      /\ a < K /\ a > 0 => Word(a + (K - 1)) = a - 1
  BY <1>1, <1>2, <1>3, <1>4, <1>5, <1>6
<1> QED
  BY <1>7, Zenon DEF K

\* r is a record with the fields of struct monitor.
IsMonitor(r) == \E k, s, f : r = [cursor |-> k, screen |-> s, foreground |-> f]

IInv ==
    /\ mon = [m \in Ttys |-> mon[m]]
    /\ \A m \in Ttys : IsMonitor(mon[m])
    /\ CursorInside

\* What an assignment to a field does to a record.
LEMMA Fields ==
  ASSUME NEW r, IsMonitor(r), NEW v
  PROVE  /\ IsMonitor([r EXCEPT !.screen = v]) /\ [r EXCEPT !.screen = v].cursor = r.cursor
         /\ IsMonitor([r EXCEPT !.foreground = v])
         /\ [r EXCEPT !.foreground = v].cursor = r.cursor
         /\ IsMonitor([r EXCEPT !.cursor = v]) /\ [r EXCEPT !.cursor = v].cursor = v
<1>1. PICK k, s, f : r = [cursor |-> k, screen |-> s, foreground |-> f]
  BY DEF IsMonitor
<1>2. /\ [r EXCEPT !.screen = v] = [cursor |-> k, screen |-> v, foreground |-> f]
      /\ [r EXCEPT !.foreground = v] = [cursor |-> k, screen |-> s, foreground |-> v]
      /\ [r EXCEPT !.cursor = v] = [cursor |-> v, screen |-> s, foreground |-> f]
  BY <1>1
<1>3. /\ [r EXCEPT !.screen = v].cursor = r.cursor
      /\ [r EXCEPT !.foreground = v].cursor = r.cursor
      /\ [r EXCEPT !.cursor = v].cursor = v
  BY <1>1, <1>2
<1>4. \A x, y, z : IsMonitor([cursor |-> x, screen |-> y, foreground |-> z])
  BY Zenon DEF IsMonitor
<1> QED
  BY <1>2, <1>3, <1>4

\* It leaves the other fields alone.
LEMMA FieldsKept ==
  ASSUME NEW r, IsMonitor(r), NEW v
  PROVE  /\ [r EXCEPT !.screen = v].screen = v
         /\ [r EXCEPT !.screen = v].foreground = r.foreground
         /\ [r EXCEPT !.foreground = v].screen = r.screen
         /\ [r EXCEPT !.foreground = v].foreground = v
         /\ [r EXCEPT !.cursor = v].screen = r.screen
         /\ [r EXCEPT !.cursor = v].foreground = r.foreground
BY DEF IsMonitor

\* The size of a buffer in cells.
LEMMA BufSize ==
  ASSUME Sizes
  PROVE  /\ CRT_BUF_SIZE \in Nat /\ CRT_BUF_SIZE >= COLS + COLS
         /\ CRT_BUF_SIZE = COLS * BUF_ROWS /\ 0 \in Ttys
<1>1. COLS * 1 + COLS <= COLS * BUF_ROWS
  BY Multiples DEF Sizes
<1> QED
  BY <1>1 DEF Sizes, CRT_BUF_SIZE, Ttys

\* monitor_putchar keeps the cursor inside, and a newline does not jump over
\* the end of the buffer (monitor.c:88-108).
LEMMA AdvanceInside ==
  ASSUME Sizes, NEW cursor \in 0 .. CRT_BUF_SIZE - 1, NEW c \in {"x", "LF", "BS"},
         c = "BS" => cursor > 0
  PROVE  Advance(cursor, c) \in 0 .. CRT_BUF_SIZE - 1
<1> DEFINE B == CRT_BUF_SIZE
<1>1. B \in Nat /\ B >= COLS + COLS /\ COLS \in Nat /\ COLS > 0 /\ B = COLS * BUF_ROWS
  BY BufSize DEF Sizes
<1> HIDE DEF B
<1>2. cursor \in Nat /\ cursor < B
  BY <1>1 DEF B
<1>0. B <= BYTE * BYTE /\ BYTE \in Nat \ {0} /\ BYTE * BYTE \in Nat
  BY DEF Sizes, B
<1> DEFINE Fit(n) == IF n = B THEN n - COLS ELSE n
<1>6. ASSUME NEW n \in 0 .. B, Advance(cursor, c) = Word(Fit(n))
      PROVE  Advance(cursor, c) \in 0 .. B - 1
  <2>1. Fit(n) \in Nat /\ Fit(n) < B
    BY <1>1
  <2> HIDE DEF Fit
  <2>2. Word(Fit(n)) = Fit(n)
    BY <1>0, <1>1, <2>1, Words
  <2> QED
    BY <1>1, <1>6, <2>1, <2>2
<1>3. CASE c = "BS"
  <2>1. Word(cursor + (BYTE * BYTE - 1)) = cursor - 1
    <3>1. cursor \in Nat /\ cursor < BYTE * BYTE /\ cursor > 0
      BY <1>0, <1>1, <1>2, <1>3
    <3> QED
      BY <1>0, <3>1, Words
  <2>2. Advance(cursor, c) = Word(Fit(cursor - 1))
    BY <1>3, <2>1 DEF Advance, B
  <2> QED
    BY <1>1, <1>2, <1>3, <1>6, <2>2 DEF B
<1>4. CASE c = "x"
  <2>1. Advance(cursor, c) = Word(Fit(cursor + 1))
    BY <1>4 DEF Advance, B
  <2> QED
    BY <1>1, <1>2, <1>6, <2>1 DEF B
<1>5. CASE c = "LF"
  <2> DEFINE q == cursor \div COLS
             r == cursor % COLS
  <2>1. q \in Nat /\ r \in 0 .. COLS - 1 /\ cursor = COLS * q + r
    BY <1>2, Division DEF Sizes
  <2> HIDE DEF q, r
  <2>2. q < BUF_ROWS
    <3>1. CASE BUF_ROWS < q
      BY <1>1, <1>2, <2>1, <3>1, Multiples DEF Sizes
    <3>2. CASE BUF_ROWS = q
      BY <1>1, <1>2, <2>1, <3>2
    <3> QED
      BY <2>1, <3>1, <3>2 DEF Sizes
  <2>3. COLS * q + COLS <= B
    BY <1>1, <2>1, <2>2, Multiples DEF Sizes
  <2>4. cursor + (COLS - r) = COLS * q + COLS /\ cursor + (COLS - r) \in Nat
    BY <1>1, <1>2, <2>1
  <2>5. Advance(cursor, c) = Word(Fit(cursor + (COLS - r)))
    BY <1>5 DEF Advance, r, B
  <2>6. cursor + (COLS - r) \in 0 .. B
    BY <1>1, <2>3, <2>4
  <2> HIDE DEF Fit
  <2> QED
    BY <1>6, <2>5, <2>6 DEF B
<1> QED
  BY <1>3, <1>4, <1>5


\* One character: what monitor_putchar does to the monitors, with the screen
\* of terminal 0 left open.
LEMMA PutcharStep ==
  ASSUME NEW c, monitor_putchar(c)
  PROVE  \E s : mon' = [mon EXCEPT ![0] = [[mon[0] EXCEPT !.cursor = Advance(mon[0].cursor, c)]
                                           EXCEPT !.screen = s]]
<1> DEFINE m == [mon[0] EXCEPT !.cursor = Advance(mon[0].cursor, c)]
<1>1. mon' = [mon EXCEPT ![0] = [m EXCEPT !.screen = Attach(m)]]
      \/ mon' = [mon EXCEPT ![0] = m]
  BY DEF monitor_putchar
<1>2. m = [m EXCEPT !.screen = m.screen]
  OBVIOUS
<1> QED
  BY <1>1, <1>2

\* The three kinds of steps: a character, one that writes screen or foreground
\* only, one that leaves the monitors alone.
LEMMA PutcharInv ==
  ASSUME Sizes, IInv, NEW c \in {"x", "LF", "BS"}, tty_write(c)
  PROVE  IInv'
<1>1. CRT_BUF_SIZE \in Nat /\ CRT_BUF_SIZE >= COLS + COLS /\ 0 \in Ttys
  BY BufSize
<1>2. PICK s : mon' = [mon EXCEPT ![0] = [[mon[0] EXCEPT !.cursor = Advance(mon[0].cursor, c)]
                                          EXCEPT !.screen = s]]
  BY PutcharStep DEF tty_write
<1> DEFINE k == mon[0].cursor
           a == Advance(k, c)
<1>5. ASSUME ~ under' PROVE ~ under /\ a \in 0 .. CRT_BUF_SIZE - 1
  <2>1. ~ under /\ ~ (c = "BS" /\ k = 0)
    <3>1. under' = (under \/ (c = "BS" /\ mon[0].cursor = 0))
      BY DEF tty_write
    <3> QED
      BY <1>5, <3>1, Zenon
  <2>2. k \in 0 .. CRT_BUF_SIZE - 1
    BY <1>1, <2>1 DEF IInv, CursorInside
  <2>3. c = "BS" => k > 0
    BY <1>1, <2>1, <2>2
  <2> QED
    BY <2>1, <2>2, <2>3, AdvanceInside
<1>6. /\ mon' = [n \in Ttys |-> mon'[n]]
      /\ mon'[0] = [[mon[0] EXCEPT !.cursor = a] EXCEPT !.screen = s]
      /\ \A n \in Ttys \ {0} : mon'[n] = mon[n]
  BY <1>1, <1>2 DEF IInv
<1>7. IsMonitor(mon'[0]) /\ mon'[0].cursor = a
  <2> DEFINE r == [mon[0] EXCEPT !.cursor = a]
  <2>1. IsMonitor(r) /\ r.cursor = a
    BY <1>1, Fields DEF IInv
  <2> HIDE DEF r
  <2>2. IsMonitor([r EXCEPT !.screen = s]) /\ [r EXCEPT !.screen = s].cursor = r.cursor
    BY <2>1, Fields
  <2> QED
    BY <1>6, <2>1, <2>2 DEF r
<1> HIDE DEF a, k
<1>8. \A n \in Ttys : IsMonitor(mon'[n])
  BY <1>6, <1>7 DEF IInv
<1>9. ASSUME ~ under' PROVE \A n \in Ttys : mon'[n].cursor \in 0 .. CRT_BUF_SIZE - 1
  BY <1>5, <1>6, <1>7, <1>9 DEF IInv, CursorInside
<1> QED
  BY <1>6, <1>8, <1>9 DEF IInv, CursorInside, Ttys, CRT_BUF_SIZE

\* ttyd never moves a cursor: it writes screen and foreground.
LEMMA OtherInv ==
  ASSUME Sizes, IInv, UNCHANGED under,
         \/ UNCHANGED mon
         \/ \E n, v : mon' = [mon EXCEPT ![n].screen = v]
         \/ \E n, v : mon' = [mon EXCEPT ![n].foreground = v]
  PROVE  IInv'
<1>0. 0 \in Ttys
  BY BufSize
<1> DEFINE Kept == /\ mon' = [n \in Ttys |-> mon'[n]]
                   /\ \A n \in Ttys : mon'[n].cursor = mon[n].cursor /\ IsMonitor(mon'[n])
<1>1. Kept
  <2>1. CASE UNCHANGED mon
    BY <2>1 DEF IInv
  <2>2. ASSUME NEW n, NEW v, mon' = [mon EXCEPT ![n].screen = v]
        PROVE  Kept
    <3>1. mon' = [j \in Ttys |-> IF j = n THEN [mon[j] EXCEPT !.screen = v] ELSE mon[j]]
      BY <2>2 DEF IInv
    <3> QED
      BY <3>1, Fields DEF IInv
  <2>3. ASSUME NEW n, NEW v, mon' = [mon EXCEPT ![n].foreground = v]
        PROVE  Kept
    <3>1. mon' = [j \in Ttys |-> IF j = n THEN [mon[j] EXCEPT !.foreground = v] ELSE mon[j]]
      BY <2>3 DEF IInv
    <3> QED
      BY <3>1, Fields DEF IInv
  <2> QED
    BY <2>1, <2>2, <2>3
<1> QED
  BY <1>0, <1>1 DEF IInv, CursorInside, Ttys, CRT_BUF_SIZE

\* The invariant is inductive.
LEMMA NextInv ==
  ASSUME Sizes, IInv, [Next]_vars
  PROVE  IInv'
<1>1. ASSUME NEW c \in {"x", "LF", "BS"}, tty_write(c)
      PROVE  IInv'
  BY <1>1, PutcharInv
<1>2. ASSUME NEW o, tty_in_proc(o)
      PROVE  IInv'
  BY <1>2, OtherInv DEF tty_in_proc
<1>3. CASE out_byte \/ scroll_test \/ UNCHANGED vars
  BY <1>3, OtherInv DEF out_byte, scroll_test, vars
<1>4. CASE scroll_store
  BY <1>4, OtherInv DEF scroll_store
<1>5. CASE switch_step
  BY <1>5, OtherInv DEF switch_step
<1> QED
  BY <1>1, <1>2, <1>3, <1>4, <1>5 DEF Next

\* Every monitor starts at the beginning of its buffer, or where the boot
\* loader left the cursor.
LEMMA InitInv == ASSUME Sizes, Init PROVE IInv
<1>1. CRT_BUF_SIZE \in Nat /\ CRT_BUF_SIZE >= COLS + COLS /\ COLS \in Nat \ {0} /\ 0 \in Ttys
  BY BufSize DEF Sizes
<1>2. mon = [m \in Ttys |-> mon[m]] /\ \A m \in Ttys : IsMonitor(mon[m])
  BY DEF Init, IsMonitor
<1>3. mon[0].cursor = COLS /\ \A m \in Ttys : mon[m].cursor \in {0, COLS}
  BY <1>1 DEF Init, BootCursor
<1>4. CursorInside
  BY <1>1, <1>3 DEF CursorInside
<1> QED
  BY <1>1, <1>2, <1>3, <1>4 DEF Init, IInv, Sizes

\* CursorInside: no sequence of characters, newlines, erasures, scrolls and
\* switches takes the cursor of a terminal out of its part of the video memory,
\* other than an erasure at the first cell (monitor.c:94, 103).
THEOREM CursorStays == ASSUME Sizes PROVE Spec => []CursorInside
<1>1. Init => IInv
  BY InitInv
<1>2. IInv /\ [Next]_vars => IInv'
  BY NextInv
<1>3. IInv => CursorInside
  BY DEF IInv
<1> QED
  BY <1>1, <1>2, <1>3, PTL DEF Spec

-----------------------------------------------------------------------------
(* ShowsForeground *)

\* A buffer holds a screen.
ScreenSizes == /\ Sizes
               /\ ROWS \in Nat \ {0} /\ ROWS <= BUF_ROWS
               /\ SCROLL_ROWS \in Nat

\* The first cell of a row from which on a screen fits into the buffer
RowStart(x) == \E a \in Nat : x = COLS * a /\ a + ROWS <= BUF_ROWS

\* What a register has to hold for a terminal to be shown, and it does, if
\* [ttyd] was not disturbed
Where(r, fd) == Word(Start(fd) + (IF r = "start" THEN mon[fd].screen ELSE mon[fd].cursor))
Shows(r, fd) == ~ between => Value(crt[r]) = Where(r, fd)
Fore(fd) == \A m \in Ttys : mon[m].foreground <=> m = fd

\* The accesses that are left of a switch, and of scrolling
CursorOn(fd) == << <<"cursor", fd>>, <<"attach", fd>>, <<"current", fd>> >>
AttachOn(fd) == << <<"attach", fd>>, <<"current", fd>> >>
CurrentOn(fd) == << <<"current", fd>> >>
Scrolls(fd) == Seq({<<"up", fd>>, <<"down", fd>>})

Later(fd, o) == \/ o \in Scrolls(fd) /\ current = fd
                \/ o \in {CursorOn(fd), AttachOn(fd), CurrentOn(fd)}

\* What is left to do after the k-th access of _set_start or _set_cursor, and
\* what the ports have been told by then
After(k, r, v, o) ==
    CASE k = 0 -> Set(r, v) \o o
      [] k = 1 -> << <<"data", v \div BYTE>>, <<"addr", <<r, 2>>>>, <<"data", v % BYTE>> >> \o o
      [] k = 2 -> << <<"addr", <<r, 2>>>>, <<"data", v % BYTE>> >> \o o
      [] k = 3 -> << <<"data", v % BYTE>> >> \o o

Told(k, r, v) == ~ between =>
    /\ k = 1 => addr = <<r, 1>>
    /\ k = 3 => addr = <<r, 2>>
    /\ k \in {2, 3} => crt[r][1] = v \div BYTE

\* Where [ttyd] is in its work for terminal fd: between two accesses that
\* leave the registers alone, about to store screen, in _set_start or
\* _set_cursor, and at the first three steps of monitor_switch.
Between(fd, o) ==
    /\ ops = o /\ Later(fd, o) /\ Fore(fd)
    /\ Shows("start", fd)
    /\ o = CursorOn(fd) \/ Shows("cursor", fd)

Storing(fd, o) ==
    /\ ops = << <<"store", fd>> >> \o o /\ Later(fd, o) /\ Fore(fd)
    /\ o # CursorOn(fd)
    /\ RowStart(reg)
    /\ Shows("cursor", fd)

Setting(fd, o, r, k, v) ==
    /\ ops = After(k, r, v, o) /\ Later(fd, o) /\ Fore(fd)
    /\ v \in Nat
    /\ ~ between => v = Where(r, fd)
    /\ Told(k, r, v)
    /\ r = "start" => o = CursorOn(fd) \/ Shows("cursor", fd)
    /\ r = "cursor" => o = AttachOn(fd) /\ Shows("start", fd)

Leaving(fd) == ops = Switch(fd) /\ Fore(current)
Taking(fd) == /\ ops = << <<"fore", fd>>, <<"start", fd>>, <<"cursor", fd>>, <<"attach", fd>>,
                          <<"current", fd>> >>
              /\ \A m \in Ttys : ~ mon[m].foreground
Taken(fd) == /\ ops = << <<"start", fd>>, <<"cursor", fd>>, <<"attach", fd>>, <<"current", fd>> >>
             /\ Fore(fd)

Phase(fd) ==
    \/ \E o : \/ Between(fd, o) \/ Storing(fd, o)
              \/ \E r \in {"start", "cursor"}, k \in 0 .. 3, v \in Nat : Setting(fd, o, r, k, v)
    \/ Leaving(fd) \/ Taking(fd) \/ Taken(fd)

\* [ttyd] is somewhere in its work, and every screen begins with a row.
SInv == ~ under =>
    /\ addr \in {"start", "cursor"} \X {1, 2}
    /\ crt \in [{"start", "cursor"} -> Nat \X Nat]
    /\ current \in Ttys
    /\ \A m \in Ttys : RowStart(mon[m].screen)
    /\ \E fd \in Ttys : Phase(fd)

\* A value is read back from its two halves.
LEMMA ValueOf ==
  ASSUME ScreenSizes, NEW v \in Nat
  PROVE  /\ v \div BYTE \in Nat /\ v % BYTE \in Nat
         /\ Value(<<v \div BYTE, v % BYTE>>) = v
<1>1. v \div BYTE \in Nat /\ v % BYTE \in 0 .. BYTE - 1 /\ v = BYTE * (v \div BYTE) + (v % BYTE)
  BY Division DEF ScreenSizes, Sizes
<1>2. (v \div BYTE) * BYTE = BYTE * (v \div BYTE)
  BY <1>1 DEF ScreenSizes, Sizes
<1> QED
  BY <1>1, <1>2 DEF Value, ScreenSizes, Sizes

\* The rows of a screen, and of the one a row below or above.
LEMMA Rows ==
  ASSUME ScreenSizes, NEW x, RowStart(x)
  PROVE  /\ x \in Nat /\ x % COLS = 0 /\ x + CRT_SIZE \in Nat /\ x + CRT_SIZE <= CRT_BUF_SIZE
         /\ x # 0 => RowStart(x - COLS)
         /\ \A k \in 0 .. CRT_BUF_SIZE - 1 : k >= x + CRT_SIZE =>
               /\ RowStart(x + COLS)
               /\ RowStart(x + COLS * ((k - x - CRT_SIZE) \div COLS + 1))
<1>1. /\ COLS \in Nat \ {0} /\ ROWS \in Nat /\ BUF_ROWS \in Nat
      /\ CRT_SIZE = COLS * ROWS /\ CRT_BUF_SIZE = COLS * BUF_ROWS
  BY DEF ScreenSizes, Sizes, CRT_SIZE, CRT_BUF_SIZE
<1>2. PICK a \in Nat : x = COLS * a /\ a + ROWS <= BUF_ROWS
  BY DEF RowStart
<1>3. x \in Nat /\ x + CRT_SIZE = COLS * (a + ROWS) /\ x + CRT_SIZE \in Nat
  BY <1>1, <1>2
<1>4. x % COLS = 0
  <2>1. x \div COLS \in Nat /\ x % COLS \in 0 .. COLS - 1 /\ x = COLS * (x \div COLS) + (x % COLS)
    BY <1>1, <1>3, Division
  <2> DEFINE q == x \div COLS
             r == x % COLS
  <2> HIDE DEF q, r
  <2>2. q \in Nat /\ r \in 0 .. COLS - 1 /\ 0 \in 0 .. COLS - 1 /\ COLS * q + r = COLS * a + 0
    BY <1>1, <1>2, <2>1 DEF q, r
  <2>3. r = 0
    BY <1>1, <1>2, <2>2, Unique
  <2> QED
    BY <2>3 DEF r
<1>5. ASSUME NEW p \in Nat, NEW k \in Nat, k < CRT_BUF_SIZE, COLS * p <= k
      PROVE  p < BUF_ROWS
  <2>1. CASE BUF_ROWS < p
    BY <1>1, <1>5, <2>1, Multiples
  <2> QED
    BY <1>1, <1>5, <2>1
<1>6. x + CRT_SIZE <= CRT_BUF_SIZE
  <2>1. CASE a + ROWS < BUF_ROWS
    <3>1. COLS * (a + ROWS) + COLS <= COLS * BUF_ROWS
      BY <1>1, <2>1, Multiples
    <3> QED
      BY <1>1, <1>3, <3>1
  <2>2. CASE a + ROWS = BUF_ROWS
    BY <1>1, <1>3, <2>2
  <2> QED
    BY <1>1, <1>2, <2>1, <2>2
<1>7. ASSUME x # 0
      PROVE  RowStart(x - COLS)
  <2>1. a - 1 \in Nat /\ x - COLS = COLS * (a - 1) /\ a - 1 + ROWS <= BUF_ROWS
    BY <1>1, <1>2, <1>7
  <2> QED
    BY <2>1 DEF RowStart
<1>8. ASSUME NEW k \in 0 .. CRT_BUF_SIZE - 1, k >= x + CRT_SIZE
      PROVE  /\ RowStart(x + COLS)
             /\ RowStart(x + COLS * ((k - x - CRT_SIZE) \div COLS + 1))
  <2> DEFINE d == k - x - CRT_SIZE
             q == d \div COLS
  <2>1. k \in Nat /\ k < CRT_BUF_SIZE /\ d \in Nat /\ k = COLS * (a + ROWS) + d
    BY <1>1, <1>3, <1>8
  <2> HIDE DEF d
  <2>2. q \in Nat /\ d % COLS \in Nat /\ d = COLS * q + (d % COLS)
    BY <1>1, <2>1, Division
  <2> HIDE DEF q
  <2>3. COLS * (a + ROWS + q) = COLS * (a + ROWS) + COLS * q /\ a + ROWS + q \in Nat
    BY <1>1, <1>2, <2>2
  <2>4. COLS * (a + ROWS + q) <= k
    BY <1>1, <2>1, <2>2, <2>3
  <2>5. a + ROWS + q < BUF_ROWS
    BY <1>5, <2>1, <2>3, <2>4
  <2>6. RowStart(x + COLS)
    <3>1. a + 1 \in Nat /\ x + COLS = COLS * (a + 1) /\ a + 1 + ROWS <= BUF_ROWS
      BY <1>1, <1>2, <2>2, <2>5
    <3> QED
      BY <3>1 DEF RowStart
  <2>7. RowStart(x + COLS * (q + 1))
    <3>1. /\ a + (q + 1) \in Nat /\ x + COLS * (q + 1) = COLS * (a + (q + 1))
          /\ a + (q + 1) + ROWS <= BUF_ROWS
      BY <1>1, <1>2, <2>2, <2>5
    <3> QED
      BY <3>1 DEF RowStart
  <2> QED
    BY <2>6, <2>7 DEF q, d
<1> QED
  BY <1>3, <1>4, <1>6, <1>7, <1>8

\* What is left to do is a sequence.
LEMMA LaterSeq ==
  ASSUME NEW fd, NEW o, Later(fd, o)
  PROVE  \E S : o \in Seq(S)
<1>1. CursorOn(fd) \in Seq({<<"cursor", fd>>, <<"attach", fd>>, <<"current", fd>>})
  BY DEF CursorOn
<1>2. AttachOn(fd) \in Seq({<<"attach", fd>>, <<"current", fd>>})
  BY DEF AttachOn
<1>3. CurrentOn(fd) \in Seq({<<"current", fd>>})
  BY DEF CurrentOn
<1> QED
  BY <1>1, <1>2, <1>3 DEF Later, Scrolls

\* A terminal's cells in the video memory
LEMMA WhereType ==
  ASSUME ScreenSizes, IInv, ~ under, NEW fd \in Ttys, RowStart(mon[fd].screen), NEW r
  PROVE  Where(r, fd) \in Nat
<1>1. mon[fd].screen \in Nat /\ mon[fd].cursor \in Nat
  <2>1. mon[fd].screen \in Nat
    BY Rows
  <2>2. mon[fd].cursor \in 0 .. CRT_BUF_SIZE - 1 /\ CRT_BUF_SIZE \in Nat
    BY BufSize DEF IInv, CursorInside, ScreenSizes
  <2> QED
    BY <2>1, <2>2
<1>2. CRT_BUF_SIZE \in Nat /\ fd \in Nat /\ BYTE \in Nat \ {0}
  BY BufSize DEF ScreenSizes, Ttys, Sizes
<1>3. Start(fd) \in Nat
  BY <1>2 DEF Start
<1>4. Start(fd) + (IF r = "start" THEN mon[fd].screen ELSE mon[fd].cursor) \in Nat
  BY <1>1, <1>3
<1> QED
  BY <1>2, <1>4, Words DEF Where

\* What is shown, and what is left to do, depends on the monitors and on
\* current only.
LEMMA Same ==
  ASSUME UNCHANGED <<mon, current>>, NEW fd, NEW o
  PROVE  /\ Fore(fd)' <=> Fore(fd)
         /\ Later(fd, o)' <=> Later(fd, o)
         /\ Where("start", fd)' = Where("start", fd) /\ Where("cursor", fd)' = Where("cursor", fd)
BY DEF Fore, Later, Where, Word, Start, CRT_BUF_SIZE, Ttys, CursorOn, AttachOn, CurrentOn, Scrolls

\* A byte written to the data port goes into one half of one register.
LEMMA Ports ==
  ASSUME crt \in [{"start", "cursor"} -> Nat \X Nat], addr \in {"start", "cursor"} \X {1, 2},
         NEW h \in Nat
  PROVE  [crt EXCEPT ![addr[1]][addr[2]] = h] \in [{"start", "cursor"} -> Nat \X Nat]
<1>1. PICK q \in {"start", "cursor"}, j \in {1, 2} : addr[1] = q /\ addr[2] = j
  OBVIOUS
<1>2. crt[q] \in Nat \X Nat
  OBVIOUS
<1>3. [crt[q] EXCEPT ![j] = h] \in Nat \X Nat
  BY <1>2
<1>4. [crt EXCEPT ![q][j] = h] = [crt EXCEPT ![q] = [crt[q] EXCEPT ![j] = h]]
  OBVIOUS
<1> QED
  BY <1>1, <1>3, <1>4

\* One access of _set_start or _set_cursor: after the last one the register
\* holds the value.
LEMMA SettingStep ==
  ASSUME ScreenSizes, crt \in [{"start", "cursor"} -> Nat \X Nat],
         addr \in {"start", "cursor"} \X {1, 2}, NEW fd \in Ttys, NEW o,
         NEW r \in {"start", "cursor"}, NEW k \in 0 .. 3, NEW v \in Nat,
         Setting(fd, o, r, k, v), out_byte
  PROVE  /\ crt' \in [{"start", "cursor"} -> Nat \X Nat]
         /\ addr' \in {"start", "cursor"} \X {1, 2}
         /\ IF k = 3 THEN Between(fd, o)' ELSE Setting(fd, o, r, k + 1, v)'
<1> DEFINE h == v \div BYTE
           l == v % BYTE
<1>1. h \in Nat /\ l \in Nat /\ Value(<<h, l>>) = v
  BY ValueOf
<1>2. PICK S : o \in Seq(S)
  BY LaterSeq DEF Setting
<1>3. UNCHANGED <<mon, current, between>> /\ ops' = Tail(ops)
  BY DEF out_byte
<1>4. /\ Later(fd, o) /\ Fore(fd) /\ Told(k, r, v) /\ ops = After(k, r, v, o)
      /\ ~ between => v = Where(r, fd)
  BY DEF Setting
<1>5. /\ Fore(fd)' /\ Later(fd, o)'
      /\ Where("start", fd)' = Where("start", fd) /\ Where("cursor", fd)' = Where("cursor", fd)
      /\ ~ between' => v = Where(r, fd)'
  BY <1>3, <1>4, Same
<1> DEFINE a1 == <<"addr", <<r, 1>>>>
           d1 == <<"data", h>>
           a2 == <<"addr", <<r, 2>>>>
           d2 == <<"data", l>>
<1>6. /\ After(0, r, v, o) = <<a1, d1, a2, d2>> \o o
      /\ After(1, r, v, o) = <<d1, a2, d2>> \o o
      /\ After(2, r, v, o) = <<a2, d2>> \o o
      /\ After(3, r, v, o) = <<d2>> \o o
  BY DEF After, Set
<1> HIDE DEF h, l, a1, d1, a2, d2
<1>7. ASSUME ~ between => \A q \in {"start", "cursor"} \ {r} : crt'[q] = crt[q], k # 3,
             ops' = After(k + 1, r, v, o), Told(k + 1, r, v)'
      PROVE  Setting(fd, o, r, k + 1, v)'
  <2>1. r = "start" => o = CursorOn(fd) \/ Shows("cursor", fd)'
    BY <1>3, <1>5, <1>7 DEF Setting, Shows, Value
  <2>2. r = "cursor" => o = AttachOn(fd) /\ Shows("start", fd)'
    BY <1>3, <1>5, <1>7 DEF Setting, Shows, Value
  <2> QED
    BY <1>3, <1>5, <1>7, <2>1, <2>2 DEF Setting
<1>8. CASE k = 0
  <2>1. ops # <<>> /\ Head(ops) = a1 /\ Tail(ops) = After(1, r, v, o)
    <3>1. ops = <<a1, d1, a2, d2>> \o o
      BY <1>4, <1>6, <1>8
    <3>2. ops # <<>> /\ Head(ops) = a1 /\ Tail(ops) = <<d1, a2, d2>> \o o
      BY <1>2, <3>1
    <3> QED
      BY <1>6, <3>2
  <2>2. addr' = <<r, 1>> /\ crt' = crt
    BY <2>1 DEF out_byte, Doing, a1
  <2>3. Told(1, r, v)'
    BY <2>2 DEF Told
  <2> QED
    BY <1>3, <1>7, <1>8, <2>1, <2>2, <2>3
<1>9. CASE k = 1
  <2>1. ops # <<>> /\ Head(ops) = d1 /\ Tail(ops) = After(2, r, v, o)
    <3>1. ops = <<d1, a2, d2>> \o o
      BY <1>4, <1>6, <1>9
    <3>2. ops # <<>> /\ Head(ops) = d1 /\ Tail(ops) = <<a2, d2>> \o o
      BY <1>2, <3>1
    <3> QED
      BY <1>6, <3>2
  <2>2. addr' = addr /\ crt' = [crt EXCEPT ![addr[1]][addr[2]] = h]
    BY <2>1 DEF out_byte, Doing, d1
  <2>5. crt' \in [{"start", "cursor"} -> Nat \X Nat]
    BY <1>1, <2>2, Ports
  <2>3. ~ between => /\ \A q \in {"start", "cursor"} \ {r} : crt'[q] = crt[q]
                     /\ crt'[r][1] = h
    BY <1>1, <1>4, <1>9, <2>2 DEF Told
  <2>4. Told(2, r, v)'
    BY <1>3, <2>3 DEF Told, h
  <2> QED
    BY <1>3, <1>7, <1>9, <2>1, <2>2, <2>3, <2>4, <2>5
<1>10. CASE k = 2
  <2>1. ops # <<>> /\ Head(ops) = a2 /\ Tail(ops) = After(3, r, v, o)
    <3>1. ops = <<a2, d2>> \o o
      BY <1>4, <1>6, <1>10
    <3>2. ops # <<>> /\ Head(ops) = a2 /\ Tail(ops) = <<d2>> \o o
      BY <1>2, <3>1
    <3> QED
      BY <1>6, <3>2
  <2>2. addr' = <<r, 2>> /\ crt' = crt
    BY <2>1 DEF out_byte, Doing, a2
  <2>3. Told(3, r, v)'
    BY <1>3, <1>4, <1>10, <2>2 DEF Told
  <2> QED
    BY <1>3, <1>7, <1>10, <2>1, <2>2, <2>3
<1>11. CASE k = 3
  <2>1. ops # <<>> /\ Head(ops) = d2 /\ Tail(ops) = o
    <3>1. ops = <<d2>> \o o
      BY <1>4, <1>6, <1>11
    <3>2. ops # <<>> /\ Head(ops) = d2 /\ Tail(ops) = o
      BY <1>2, <3>1
    <3> QED
      BY <1>6, <3>2
  <2>2. addr' = addr /\ crt' = [crt EXCEPT ![addr[1]][addr[2]] = l]
    BY <2>1 DEF out_byte, Doing, d2
  <2>9. crt' \in [{"start", "cursor"} -> Nat \X Nat]
    BY <1>1, <2>2, Ports
  <2>3. ~ between => /\ \A q \in {"start", "cursor"} \ {r} : crt'[q] = crt[q]
                     /\ crt'[r] = <<crt[r][1], l>>
    BY <1>1, <1>4, <1>11, <2>2 DEF Told
  <2>4. ~ between => crt'[r] = <<h, l>>
    BY <1>4, <1>11, <2>3 DEF Told, h
  <2>5. Shows(r, fd)'
    BY <1>1, <1>3, <1>5, <2>4 DEF Shows, Value
  <2>6. r = "start" => o = CursorOn(fd) \/ Shows("cursor", fd)'
    BY <1>3, <1>5, <2>3 DEF Setting, Shows, Value
  <2>7. r = "cursor" => o = AttachOn(fd) /\ Shows("start", fd)'
    BY <1>3, <1>5, <2>3 DEF Setting, Shows, Value
  <2>8. Between(fd, o)'
    BY <1>3, <1>5, <2>1, <2>5, <2>6, <2>7 DEF Between, CursorOn, AttachOn
  <2> QED
    BY <1>11, <2>2, <2>8, <2>9
<1> QED
  BY <1>8, <1>9, <1>10, <1>11

\* The two assignments of [ttyd] to a monitor
SetsScreen(n, v) == mon' = [mon EXCEPT ![n].screen = v]
SetsFore(n, v) == mon' = [mon EXCEPT ![n].foreground = v]

\* What they change.
LEMMA Assigns ==
  ASSUME IInv, NEW n \in Ttys, NEW v
  PROVE  /\ SetsScreen(n, v) =>
              \A m \in Ttys : /\ mon'[m].screen = IF m = n THEN v ELSE mon[m].screen
                              /\ mon'[m].cursor = mon[m].cursor
                              /\ mon'[m].foreground = mon[m].foreground
         /\ SetsFore(n, v) =>
              \A m \in Ttys : /\ mon'[m].foreground = IF m = n THEN v ELSE mon[m].foreground
                              /\ mon'[m].cursor = mon[m].cursor
                              /\ mon'[m].screen = mon[m].screen
<1>1. ASSUME SetsScreen(n, v), NEW m \in Ttys
      PROVE  /\ mon'[m].screen = IF m = n THEN v ELSE mon[m].screen
             /\ mon'[m].cursor = mon[m].cursor
             /\ mon'[m].foreground = mon[m].foreground
  <2>1. mon'[m] = IF m = n THEN [mon[m] EXCEPT !.screen = v] ELSE mon[m]
    BY <1>1 DEF IInv, SetsScreen
  <2>2. IsMonitor(mon[m])
    BY DEF IInv
  <2> QED
    BY <2>1, <2>2, Fields, FieldsKept
<1>2. ASSUME SetsFore(n, v), NEW m \in Ttys
      PROVE  /\ mon'[m].foreground = IF m = n THEN v ELSE mon[m].foreground
             /\ mon'[m].cursor = mon[m].cursor
             /\ mon'[m].screen = mon[m].screen
  <2>1. mon'[m] = IF m = n THEN [mon[m] EXCEPT !.foreground = v] ELSE mon[m]
    BY <1>2 DEF IInv, SetsFore
  <2>2. IsMonitor(mon[m])
    BY DEF IInv
  <2> QED
    BY <2>1, <2>2, Fields, FieldsKept
<1> QED
  BY <1>1, <1>2

\* The next access, by what is left to do.
LEMMA LaterHead ==
  ASSUME NEW fd, NEW o, Later(fd, o)
  PROVE  \/ o = <<>> /\ current = fd
         \/ /\ o # <<>> /\ Head(o) \in {<<"up", fd>>, <<"down", fd>>} /\ current = fd
            /\ Tail(o) \in Scrolls(fd) /\ o \in Scrolls(fd)
         \/ o = CursorOn(fd) /\ o # <<>> /\ Head(o) = <<"cursor", fd>> /\ Tail(o) = AttachOn(fd)
         \/ o = AttachOn(fd) /\ o # <<>> /\ Head(o) = <<"attach", fd>> /\ Tail(o) = CurrentOn(fd)
         \/ o = CurrentOn(fd) /\ o # <<>> /\ Head(o) = <<"current", fd>> /\ Tail(o) = <<>>
<1>1. CASE o \in Scrolls(fd) /\ current = fd
  BY <1>1 DEF Scrolls
<1>2. CASE o = CursorOn(fd)
  BY <1>2 DEF CursorOn, AttachOn
<1>3. CASE o = AttachOn(fd)
  BY <1>3 DEF CurrentOn, AttachOn
<1>4. CASE o = CurrentOn(fd)
  BY <1>4 DEF CurrentOn
<1> QED
  BY <1>1, <1>2, <1>3, <1>4 DEF Later

\* The lists of what is left differ.
LEMMA Lists ==
  ASSUME NEW fd
  PROVE  /\ CursorOn(fd) # AttachOn(fd) /\ CursorOn(fd) # CurrentOn(fd)
         /\ CursorOn(fd) \notin Scrolls(fd) /\ <<>> \in Scrolls(fd)
         /\ CursorOn(fd) # <<>>
         /\ Head(CursorOn(fd)) \notin {<<"up", fd>>, <<"down", fd>>}
<1>1. Len(CursorOn(fd)) = 3 /\ Len(AttachOn(fd)) = 2 /\ Len(CurrentOn(fd)) = 1
  BY DEF CursorOn, AttachOn, CurrentOn
<1>2. CursorOn(fd)[1] = <<"cursor", fd>> /\ Head(CursorOn(fd)) = <<"cursor", fd>>
  BY DEF CursorOn
<1>3. <<"cursor", fd>> \notin {<<"up", fd>>, <<"down", fd>>}
  OBVIOUS
<1>4. \A S : \A q \in Seq(S) : Len(q) = 3 => q[1] \in S
  OBVIOUS
<1>5. CursorOn(fd) \notin Scrolls(fd)
  BY <1>1, <1>2, <1>3, <1>4 DEF Scrolls
<1>6. <<>> \in Scrolls(fd) /\ Len(<<>>) = 0
  BY DEF Scrolls
<1> QED
  BY <1>1, <1>2, <1>3, <1>5, <1>6

\* A step of a scroll or of the loop at the end of a switch.
LEMMA TestStep ==
  ASSUME ScreenSizes, IInv, ~ under, NEW fd \in Ttys, RowStart(mon[fd].screen), NEW o,
         Between(fd, o), scroll_test
  PROVE  \E p : Between(fd, p)' \/ Storing(fd, p)'
<1>1. UNCHANGED <<mon, current, crt, between>>
  BY DEF scroll_test
<1>2. ops = o /\ Later(fd, o) /\ Fore(fd) /\ Shows("start", fd)
      /\ (o = CursorOn(fd) \/ Shows("cursor", fd))
  BY DEF Between
<1>3. Fore(fd)' /\ Shows("start", fd)' /\ (Shows("cursor", fd)' <=> Shows("cursor", fd))
  BY <1>1, <1>2, Same DEF Shows, Value
<1>4. /\ mon[fd].cursor \in 0 .. CRT_BUF_SIZE - 1
      /\ mon[fd].screen # 0 => RowStart(mon[fd].screen - COLS)
      /\ mon[fd].cursor >= mon[fd].screen + CRT_SIZE => RowStart(mon[fd].screen + COLS)
  BY Rows DEF IInv, CursorInside
<1>5. CASE Head(o) = <<"up", fd>> /\ o # <<>> /\ current = fd /\ Tail(o) \in Scrolls(fd)
  <2>1. \/ ops' = Tail(o)
        \/ ops' = << <<"store", fd>> >> \o Tail(o) /\ RowStart(reg')
    <3>1. Doing({"up"}) /\ ~ Doing({"down", "attach"}) /\ t = fd
      BY <1>2, <1>5 DEF Doing, t
    <3>2. IF mon[fd].screen = 0 THEN ops' = Tail(o)
          ELSE reg' = mon[fd].screen - COLS /\ ops' = << <<"store", fd>> >> \o Tail(o)
      BY <1>2, <3>1 DEF scroll_test
    <3> QED
      BY <1>4, <3>2
  <2>2. Later(fd, Tail(o))'
    BY <1>1, <1>5 DEF Later, Scrolls
  <2>3. o # CursorOn(fd) /\ Tail(o) # CursorOn(fd)
    BY <1>5, Lists
  <2> QED
    BY <1>2, <1>3, <2>1, <2>2, <2>3 DEF Between, Storing, CursorOn, RowStart
<1>6. CASE Head(o) = <<"down", fd>> /\ o # <<>> /\ current = fd /\ Tail(o) \in Scrolls(fd)
  <2>1. \/ ops' = Tail(o)
        \/ ops' = << <<"store", fd>> >> \o Tail(o) /\ RowStart(reg')
    <3>1. Doing({"down", "attach"}) /\ ~ Doing({"up"}) /\ ~ Doing({"attach"}) /\ t = fd
      BY <1>2, <1>6 DEF Doing, t
    <3>2. IF ~ screen_detached(mon[fd]) THEN ops' = Tail(o)
          ELSE reg' = mon[fd].screen + COLS /\ ops' = << <<"store", fd>> >> \o Tail(o)
      BY <1>2, <3>1 DEF scroll_test
    <3> QED
      BY <1>4, <3>2 DEF screen_detached
  <2>2. Later(fd, Tail(o))'
    BY <1>1, <1>6 DEF Later, Scrolls
  <2>3. o # CursorOn(fd) /\ Tail(o) # CursorOn(fd)
    BY <1>6, Lists
  <2> QED
    BY <1>2, <1>3, <2>1, <2>2, <2>3 DEF Between, Storing, CursorOn, RowStart
<1>7. CASE o = AttachOn(fd) /\ o # <<>> /\ Head(o) = <<"attach", fd>> /\ Tail(o) = CurrentOn(fd)
  <2>1. \/ ops' = CurrentOn(fd)
        \/ ops' = << <<"store", fd>> >> \o AttachOn(fd) /\ RowStart(reg')
    <3>1. Doing({"attach"}) /\ Doing({"down", "attach"}) /\ ~ Doing({"up"}) /\ t = fd
      BY <1>2, <1>7 DEF Doing, t
    <3> QED
      BY <1>2, <1>4, <1>7, <3>1 DEF scroll_test, screen_detached
  <2>2. Later(fd, CurrentOn(fd))' /\ Later(fd, AttachOn(fd))'
    BY DEF Later, CurrentOn, AttachOn
  <2> QED
    BY <1>2, <1>3, <1>7, <2>1, <2>2, Lists DEF Between, Storing, CursorOn, RowStart, CurrentOn,
                                               AttachOn
<1>8. CASE o = <<>> \/ Head(o) = <<"cursor", fd>> \/ Head(o) = <<"current", fd>>
  BY <1>2, <1>8 DEF scroll_test, Doing
<1> QED
  BY <1>2, <1>5, <1>6, <1>7, <1>8, LaterHead

\* The call of _set_start or _set_cursor, with what is left after it.
LEMMA Calls ==
  ASSUME NEW fd, NEW o, NEW r \in {"start", "cursor"}, Later(fd, o)', Fore(fd)',
         NEW v \in Nat, ops' = Set(r, v) \o o, v = Where(r, fd)',
         r = "start" => o = CursorOn(fd) \/ Shows("cursor", fd)',
         r = "cursor" => o = AttachOn(fd) /\ Shows("start", fd)'
  PROVE  \E w \in Nat : Setting(fd, o, r, 0, w)'
<1>1. Told(0, r, v)'
  BY DEF Told
<1>2. After(0, r, v, o) = Set(r, v) \o o
  BY DEF After, Set
<1> QED
  BY <1>1, <1>2 DEF Setting, CursorOn, AttachOn

\* The store of screen.
LEMMA StoreStep ==
  ASSUME ScreenSizes, IInv, NEW fd \in Ttys, NEW o, Storing(fd, o), scroll_store,
         \A m \in Ttys : RowStart(mon[m].screen)
  PROVE  /\ \E v \in Nat : Setting(fd, o, "start", 0, v)'
         /\ \A m \in Ttys : RowStart(mon'[m].screen)
<1>1. PICK S : o \in Seq(S)
  BY LaterSeq DEF Storing
<1>2. ops # <<>> /\ Head(ops) = <<"store", fd>> /\ Tail(ops) = o
  <2>1. ops = << <<"store", fd>> >> \o o
    BY DEF Storing
  <2> QED
    BY <1>1, <2>1
<1>3. /\ SetsScreen(fd, reg) /\ crt' = crt /\ current' = current /\ between' = between
      /\ ops' = Set("start", Word(Start(fd) + reg)) \o o
  <2>1. t = fd
    BY <1>2 DEF t
  <2> QED
    BY <1>2, <2>1 DEF scroll_store, SetsScreen
<1>4. \A m \in Ttys : /\ mon'[m].screen = IF m = fd THEN reg ELSE mon[m].screen
                      /\ mon'[m].cursor = mon[m].cursor
                      /\ mon'[m].foreground = mon[m].foreground
  BY <1>3, Assigns
<1>5. \A m \in Ttys : RowStart(mon'[m].screen)
  BY <1>4 DEF Storing
<1>6. Where("start", fd)' = Word(Start(fd) + reg) /\ Where("cursor", fd)' = Where("cursor", fd)
  BY <1>4 DEF Where, Word, Start, CRT_BUF_SIZE
<1>8. Word(Start(fd) + reg) \in Nat
  <2>1. BYTE \in Nat \ {0} /\ fd \in Nat /\ CRT_BUF_SIZE \in Nat /\ reg \in Nat
    <3>1. RowStart(reg)
      BY DEF Storing
    <3>2. reg \in Nat
      BY <3>1, Rows
    <3> QED
      BY <3>2, BufSize DEF ScreenSizes, Sizes, Ttys
  <2>2. Start(fd) + reg \in Nat
    BY <2>1 DEF Start
  <2> QED
    BY <2>1, <2>2, Words
<1>7. Fore(fd)' /\ Later(fd, o)' /\ Shows("cursor", fd)'
  BY <1>3, <1>4, <1>6 DEF Storing, Fore, Later, Shows, Value, Ttys, CursorOn, AttachOn, CurrentOn,
                          Scrolls
<1> QED
  BY <1>3, <1>5, <1>6, <1>7, <1>8, Calls

\* The steps of monitor_switch before it writes the registers.
LEMMA SwitchStep ==
  ASSUME ScreenSizes, IInv, ~ under, NEW fd \in Ttys, current \in Ttys, switch_step,
         \A m \in Ttys : RowStart(mon[m].screen)
  PROVE  /\ Leaving(fd) => Taking(fd)'
         /\ Taking(fd) => Taken(fd)'
         /\ Taken(fd) => \E v \in Nat : Setting(fd, CursorOn(fd), "start", 0, v)'
<1> DEFINE f == Doing({"fore"})
<1>1. ASSUME Leaving(fd) PROVE Taking(fd)'
  <2>1. /\ ops # <<>> /\ Head(ops) = <<"back", current>>
        /\ Tail(ops) = << <<"fore", fd>>, <<"start", fd>>, <<"cursor", fd>>, <<"attach", fd>>,
                          <<"current", fd>> >>
    BY <1>1 DEF Leaving, Switch
  <2>2. Doing({"back", "fore"}) /\ ~ f /\ t = current
        /\ ~ Doing({"start", "cursor"}) /\ ~ Doing({"current"})
    BY <2>1 DEF Doing, t
  <2> HIDE DEF f
  <2>3. SetsFore(current, f) /\ ops' = Tail(ops)
    BY <2>2 DEF switch_step, f, SetsFore
  <2>4. \A m \in Ttys : mon'[m].foreground = IF m = current THEN f ELSE mon[m].foreground
    BY <2>3, Assigns
  <2>5. \A m \in Ttys : ~ mon'[m].foreground
    BY <1>1, <2>2, <2>4 DEF Leaving, Fore
  <2> QED
    BY <2>1, <2>3, <2>5 DEF Taking, Ttys
<1>2. ASSUME Taking(fd) PROVE Taken(fd)'
  <2>1. /\ ops # <<>> /\ Head(ops) = <<"fore", fd>>
        /\ Tail(ops) = << <<"start", fd>>, <<"cursor", fd>>, <<"attach", fd>>, <<"current", fd>> >>
    BY <1>2 DEF Taking
  <2>2. Doing({"back", "fore"}) /\ f /\ t = fd
        /\ ~ Doing({"start", "cursor"}) /\ ~ Doing({"current"})
    BY <2>1 DEF Doing, t
  <2> HIDE DEF f
  <2>3. SetsFore(fd, f) /\ ops' = Tail(ops)
    BY <2>2 DEF switch_step, f, SetsFore
  <2>4. \A m \in Ttys : mon'[m].foreground = IF m = fd THEN f ELSE mon[m].foreground
    BY <2>3, Assigns
  <2>5. \A m \in Ttys : mon'[m].foreground <=> m = fd
    BY <1>2, <2>2, <2>4 DEF Taking
  <2> QED
    BY <2>1, <2>3, <2>5 DEF Taken, Fore, Ttys
<1>3. ASSUME Taken(fd) PROVE \E v \in Nat : Setting(fd, CursorOn(fd), "start", 0, v)'
  <2>1. /\ ops # <<>> /\ Head(ops) = <<"start", fd>> /\ Tail(ops) = CursorOn(fd)
    BY <1>3 DEF Taken, CursorOn
  <2>2. Doing({"start", "cursor"}) /\ Doing({"start"}) /\ t = fd /\ Head(ops)[1] = "start"
        /\ ~ Doing({"back", "fore"}) /\ ~ Doing({"current"})
    BY <2>1 DEF Doing, t
  <2>3. /\ UNCHANGED <<mon, current>>
        /\ ops' = Set("start", Where("start", fd)) \o CursorOn(fd)
    BY <2>1, <2>2 DEF switch_step, Where
  <2>4. Fore(fd)' /\ Where("start", fd)' = Where("start", fd)
    BY <1>3, <2>3, Same DEF Taken
  <2>5. Later(fd, CursorOn(fd))'
    BY DEF Later, CursorOn
  <2>6. Where("start", fd) \in Nat
    BY WhereType
  <2> QED
    BY <2>3, <2>4, <2>5, <2>6, Calls
<1> QED
  BY <1>1, <1>2, <1>3

\* The other steps of tty_switch.
LEMMA SwitchEnd ==
  ASSUME ScreenSizes, IInv, ~ under, NEW fd \in Ttys, RowStart(mon[fd].screen), NEW o,
         Between(fd, o), switch_step
  PROVE  \/ Between(fd, <<>>)' /\ current' = fd
         \/ (\E v \in Nat : Setting(fd, AttachOn(fd), "cursor", 0, v)') /\ current' = current
<1>1. ops = o /\ Later(fd, o) /\ Fore(fd) /\ Shows("start", fd)
      /\ (o = CursorOn(fd) \/ Shows("cursor", fd))
  BY DEF Between
<1>2. CASE o = CursorOn(fd) /\ o # <<>> /\ Head(o) = <<"cursor", fd>> /\ Tail(o) = AttachOn(fd)
  <2>1. Doing({"start", "cursor"}) /\ ~ Doing({"start"}) /\ t = fd /\ Head(ops)[1] = "cursor"
        /\ ~ Doing({"back", "fore"}) /\ ~ Doing({"current"})
    BY <1>1, <1>2 DEF Doing, t
  <2>2. /\ UNCHANGED <<mon, current, crt, between>>
        /\ ops' = Set("cursor", Where("cursor", fd)) \o AttachOn(fd)
    BY <1>1, <1>2, <2>1 DEF switch_step, Where
  <2>3. /\ Fore(fd)' /\ Where("cursor", fd)' = Where("cursor", fd)
        /\ Where("start", fd)' = Where("start", fd)
    BY <1>1, <2>2, Same
  <2>4. Shows("start", fd)'
    BY <1>1, <2>2, <2>3 DEF Shows, Value
  <2>5. Later(fd, AttachOn(fd))'
    BY DEF Later, AttachOn
  <2>7. Where("cursor", fd) \in Nat
    BY WhereType
  <2>6. \E v \in Nat : Setting(fd, AttachOn(fd), "cursor", 0, v)'
    BY <2>2, <2>3, <2>4, <2>5, <2>7, Calls
  <2> QED
    BY <2>2, <2>6
<1>3. CASE o = CurrentOn(fd) /\ o # <<>> /\ Head(o) = <<"current", fd>> /\ Tail(o) = <<>>
  <2>1. Doing({"current"}) /\ t = fd /\ ~ Doing({"start", "cursor"}) /\ ~ Doing({"back", "fore"})
    BY <1>1, <1>3 DEF Doing, t
  <2>2. current' = fd /\ UNCHANGED <<mon, crt, between>> /\ ops' = <<>>
    BY <1>1, <1>3, <2>1 DEF switch_step
  <2>3. Fore(fd)' /\ Shows("start", fd)' /\ Shows("cursor", fd)'
    BY <1>1, <1>3, <2>2, Lists DEF Fore, Shows, Value, Where, Word, Start, CRT_BUF_SIZE, Ttys
  <2>4. Later(fd, <<>>)'
    BY <2>2, Lists DEF Later, Scrolls
  <2> QED
    BY <2>2, <2>3, <2>4 DEF Between
<1>4. CASE o = <<>> \/ Head(o) \in {<<"up", fd>>, <<"down", fd>>} \/ Head(o) = <<"attach", fd>>
  <2>1. ~ Doing({"current"}) /\ ~ Doing({"start", "cursor"}) /\ ~ Doing({"back", "fore"})
    BY <1>1, <1>4 DEF Doing
  <2> QED
    BY <2>1 DEF switch_step
<1> QED
  BY <1>1, <1>2, <1>3, <1>4, LaterHead

\* [ttyd] has nothing to do only when the current terminal is shown.
LEMMA Rest ==
  ASSUME NEW fd \in Ttys, Phase(fd), ops = <<>>
  PROVE  fd = current /\ Between(current, <<>>)
<1>1. ASSUME NEW o, Between(fd, o)
      PROVE  fd = current /\ Between(current, <<>>)
  BY <1>1, LaterHead DEF Between
<1>2. ASSUME NEW o, Later(fd, o)
      PROVE  /\ << <<"store", fd>> >> \o o # <<>>
             /\ \A r, v : \A k \in 0 .. 3 : After(k, r, v, o) # <<>>
  <2>1. PICK S : o \in Seq(S)
    BY <1>2, LaterSeq
  <2>2. \A a, b, c, d : /\ <<a>> \o o # <<>> /\ <<a, b>> \o o # <<>> /\ <<a, b, c>> \o o # <<>>
                        /\ <<a, b, c, d>> \o o # <<>>
    BY <2>1
  <2>3. \A k \in 0 .. 3 : k = 0 \/ k = 1 \/ k = 2 \/ k = 3
    OBVIOUS
  <2> QED
    BY <2>2, <2>3 DEF After, Set
<1>3. ~ Leaving(fd) /\ ~ Taking(fd) /\ ~ Taken(fd)
  <2>1. Switch(fd) # <<>>
    BY DEF Switch
  <2> QED
    BY <2>1 DEF Leaving, Taking, Taken
<1>4. ~ \E o : Storing(fd, o)
  BY <1>2 DEF Storing
<1>5. ~ \E o : \E r \in {"start", "cursor"}, k \in 0 .. 3, v \in Nat : Setting(fd, o, r, k, v)
  BY <1>2 DEF Setting
<1> QED
  BY <1>1, <1>3, <1>4, <1>5 DEF Phase

\* A character keeps every screen in its buffer and the foreground as it is.
\* Written while [ttyd] has nothing to do, it is shown if its terminal is
\* (monitor.c:88-116).
LEMMA PutcharShows ==
  ASSUME ScreenSizes, IInv, IInv', ~ under', NEW c \in {"x", "LF", "BS"}, monitor_putchar(c),
         current \in Ttys, crt \in [{"start", "cursor"} -> Nat \X Nat],
         \A m \in Ttys : RowStart(mon[m].screen), UNCHANGED <<ops, current>>
  PROVE  /\ crt' \in [{"start", "cursor"} -> Nat \X Nat]
         /\ \A m \in Ttys : RowStart(mon'[m].screen) /\ mon'[m].foreground = mon[m].foreground
         /\ Between(current, <<>>) /\ ~ between => Between(current, <<>>)'
<1> DEFINE a == Advance(mon[0].cursor, c)
           w == [mon[0] EXCEPT !.cursor = a]
           v == [w EXCEPT !.screen = Attach(w)]
<1>1. 0 \in Ttys /\ IsMonitor(mon[0]) /\ IsMonitor(mon'[0])
  BY BufSize DEF ScreenSizes, IInv
<1>2. /\ IsMonitor(w) /\ w.cursor = a /\ w.screen = mon[0].screen
      /\ w.foreground = mon[0].foreground
  <2>1. IsMonitor(w) /\ w.cursor = a
    BY <1>1, Fields
  <2>2. w.screen = mon[0].screen /\ w.foreground = mon[0].foreground
    BY <1>1, FieldsKept
  <2> QED
    BY <2>1, <2>2
<1>3. \/ /\ w.foreground /\ mon' = [mon EXCEPT ![0] = v]
         /\ crt' = [start |-> IF v.screen # w.screen THEN Halves(v.screen) ELSE crt.start,
                    cursor |-> Halves(v.cursor)]
      \/ ~ w.foreground /\ mon' = [mon EXCEPT ![0] = w] /\ crt' = crt
  BY DEF monitor_putchar
<1>4. /\ IsMonitor(v) /\ v.cursor = w.cursor /\ v.screen = Attach(w)
      /\ v.foreground = w.foreground
  <2> DEFINE x == Attach(w)
  <2> HIDE DEF w, x
  <2>1. /\ IsMonitor([w EXCEPT !.screen = x]) /\ [w EXCEPT !.screen = x].cursor = w.cursor
    BY <1>2, Fields
  <2>2. /\ [w EXCEPT !.screen = x].screen = x /\ [w EXCEPT !.screen = x].foreground = w.foreground
    BY <1>2, FieldsKept
  <2> QED
    BY <2>1, <2>2 DEF x
<1> HIDE DEF w, v, a
<1>5. /\ \A m \in Ttys \ {0} : mon'[m] = mon[m]
      /\ mon'[0] = v \/ mon'[0] = w
      /\ mon'[0].cursor = a /\ mon'[0].foreground = mon[0].foreground
  BY <1>1, <1>2, <1>3, <1>4 DEF IInv
<1>6. a \in 0 .. CRT_BUF_SIZE - 1 /\ CRT_BUF_SIZE \in Nat
  BY <1>1, <1>5, BufSize DEF IInv, CursorInside, Ttys, CRT_BUF_SIZE, ScreenSizes
<1>7. RowStart(w.screen) /\ RowStart(v.screen)
  <2>1. RowStart(w.screen)
    BY <1>1, <1>2
  <2>2. a >= w.screen + CRT_SIZE =>
            RowStart(w.screen + COLS * ((a - w.screen - CRT_SIZE) \div COLS + 1))
    BY <1>6, <2>1, Rows
  <2> QED
    BY <1>2, <1>4, <2>1, <2>2 DEF Attach, screen_detached
<1>8. \A m \in Ttys : RowStart(mon'[m].screen)
  BY <1>5, <1>7
<1>9. \A m \in Ttys : mon'[m].foreground = mon[m].foreground
  BY <1>5
<1>10. v.screen \in Nat /\ w.screen \in Nat /\ a \in Nat
  <2>1. \A x : RowStart(x) => x \in Nat
    BY Rows
  <2> QED
    BY <1>6, <1>7, <2>1
<1>11. /\ Halves(v.screen) \in Nat \X Nat /\ Value(Halves(v.screen)) = v.screen
       /\ Halves(a) \in Nat \X Nat /\ Value(Halves(a)) = a
  BY <1>10, ValueOf DEF Halves
<1>12. crt["start"] \in Nat \X Nat
  OBVIOUS
<1>13. crt' \in [{"start", "cursor"} -> Nat \X Nat]
  <2>1. v.cursor = a
    BY <1>2, <1>4
  <2> QED
    BY <1>3, <1>11, <1>12, <2>1
<1>14. ASSUME Between(current, <<>>), ~ between PROVE Between(current, <<>>)'
  <2>1. Fore(current)'
    BY <1>9, <1>14 DEF Between, Fore, Ttys
  <2>2. Later(current, <<>>)'
    BY <1>14 DEF Between, Later, Scrolls, CursorOn, AttachOn, CurrentOn
  <2>3. Value(crt["start"]) = Where("start", current) /\ Value(crt["cursor"]) = Where("cursor", current)
    BY <1>14, Lists DEF Between, Shows
  <2>4. CASE w.foreground /\ mon' = [mon EXCEPT ![0] = v]
             /\ crt' = [start |-> IF v.screen # w.screen THEN Halves(v.screen) ELSE crt.start,
                        cursor |-> Halves(v.cursor)]
    <3>1. current = 0
      BY <1>1, <1>2, <1>14, <2>4 DEF Between, Fore
    <3>2. Start(0) = 0
      BY <1>6 DEF Start
    <3>3. Word(v.screen) = v.screen /\ Word(w.screen) = w.screen /\ Word(a) = a
      <4>1. CRT_SIZE \in Nat \ {0} /\ BYTE \in Nat \ {0} /\ CRT_BUF_SIZE <= BYTE * BYTE
        BY DEF ScreenSizes, Sizes, CRT_SIZE
      <4>2. v.screen < CRT_BUF_SIZE /\ w.screen < CRT_BUF_SIZE
        <5>1. v.screen + CRT_SIZE <= CRT_BUF_SIZE /\ w.screen + CRT_SIZE <= CRT_BUF_SIZE
          BY <1>7, Rows
        <5> QED
          BY <1>6, <1>10, <4>1, <5>1
      <4> DEFINE K == BYTE * BYTE
      <4>3. K \in Nat
        BY <4>1
      <4> HIDE DEF K
      <4>4. v.screen < K /\ w.screen < K /\ a < K
        <5>1. CRT_BUF_SIZE <= K
          BY <4>1, Zenon DEF K
        <5> QED
          BY <1>6, <1>10, <4>2, <4>3, <5>1
      <4>5. \A x \in Nat : x < K => Word(x) = x
        BY <4>1, Words DEF K
      <4> QED
        BY <1>10, <4>4, <4>5
    <3>5. /\ mon'[0].screen = v.screen /\ mon'[0].cursor = a /\ v.cursor = a
      BY <1>1, <1>2, <1>4, <2>4 DEF IInv
    <3>6. Value(crt["start"]) = w.screen
      BY <1>2, <1>10, <2>3, <3>1, <3>2, <3>3 DEF Where
    <3>7. /\ Value(crt'["start"]) = v.screen
          /\ Value(crt'["cursor"]) = a
      <4>1. /\ crt'["start"] = IF v.screen # w.screen THEN Halves(v.screen) ELSE crt["start"]
            /\ crt'["cursor"] = Halves(a)
        BY <2>4, <3>5
      <4> QED
        BY <1>11, <3>6, <4>1
    <3>8. Where("start", 0)' = v.screen /\ Where("cursor", 0)' = a
      <4>1. /\ Where("start", 0)' = Word(Start(0) + mon'[0].screen)
            /\ Where("cursor", 0)' = Word(Start(0) + mon'[0].cursor)
        BY DEF Where, Word, Start, CRT_BUF_SIZE
      <4> QED
        BY <1>10, <3>2, <3>3, <3>5, <4>1
    <3>9. Shows("start", current)' /\ Shows("cursor", current)'
      BY <3>1, <3>7, <3>8 DEF Shows, Value
    <3> QED
      BY <1>14, <2>1, <2>2, <3>9 DEF Between, CursorOn
  <2>5. CASE ~ w.foreground /\ mon' = [mon EXCEPT ![0] = w] /\ crt' = crt
    <3>1. current # 0
      BY <1>1, <1>2, <1>14, <2>5 DEF Between, Fore
    <3>2. mon'[current] = mon[current]
      BY <1>5, <3>1
    <3>3. Shows("start", current)' /\ Shows("cursor", current)'
      BY <2>3, <2>5, <3>2 DEF Shows, Value, Where, Word, Start, CRT_BUF_SIZE
    <3> QED
      BY <1>14, <2>1, <2>2, <3>3 DEF Between, CursorOn
  <2> QED
    BY <1>3, <2>4, <2>5
<1> QED
  BY <1>8, <1>9, <1>13, <1>14

\* What kind of access is next.
LEMMA Heads ==
  ASSUME NEW fd, ops # <<>>
  PROVE  /\ \A o : Between(fd, o) => Head(ops)[1] \in {"up", "down", "cursor", "attach", "current"}
         /\ \A o : Storing(fd, o) => Head(ops)[1] = "store"
         /\ \A o, r, v : \A k \in 0 .. 3 :
               Setting(fd, o, r, k, v) => Head(ops)[1] \in {"addr", "data"}
         /\ Leaving(fd) => Head(ops)[1] = "back"
         /\ Taking(fd) => Head(ops)[1] = "fore"
         /\ Taken(fd) => Head(ops)[1] = "start"
<1>1. ASSUME NEW o, Between(fd, o)
      PROVE  Head(ops)[1] \in {"up", "down", "cursor", "attach", "current"}
  <2>1. Later(fd, o) /\ ops = o
    BY <1>1 DEF Between
  <2> QED
    BY <2>1, LaterHead
<1>2. ASSUME NEW o, Storing(fd, o)
      PROVE  Head(ops)[1] = "store"
  <2>1. ops = << <<"store", fd>> >> \o o /\ \E S : o \in Seq(S)
    BY <1>2, LaterSeq DEF Storing
  <2>2. Head(ops) = <<"store", fd>>
    BY <2>1
  <2> QED
    BY <2>2
<1>3. ASSUME NEW o, NEW r, NEW v, NEW k \in 0 .. 3, Setting(fd, o, r, k, v)
      PROVE  Head(ops)[1] \in {"addr", "data"}
  <2>1. PICK S : o \in Seq(S)
    BY <1>3, LaterSeq DEF Setting
  <2> DEFINE a1 == <<"addr", <<r, 1>>>>
             d1 == <<"data", v \div BYTE>>
             a2 == <<"addr", <<r, 2>>>>
             d2 == <<"data", v % BYTE>>
  <2>2. \/ ops = <<a1, d1, a2, d2>> \o o \/ ops = <<d1, a2, d2>> \o o
        \/ ops = <<a2, d2>> \o o \/ ops = <<d2>> \o o
    <3>1. k = 0 \/ k = 1 \/ k = 2 \/ k = 3
      OBVIOUS
    <3>2. /\ After(0, r, v, o) = <<a1, d1, a2, d2>> \o o
          /\ After(1, r, v, o) = <<d1, a2, d2>> \o o
          /\ After(2, r, v, o) = <<a2, d2>> \o o
          /\ After(3, r, v, o) = <<d2>> \o o
      BY DEF After, Set
    <3>3. ops = After(k, r, v, o)
      BY <1>3 DEF Setting
    <3> HIDE DEF a1, d1, a2, d2
    <3> QED
      BY <3>1, <3>2, <3>3
  <2>3. a1[1] = "addr" /\ a2[1] = "addr" /\ d1[1] = "data" /\ d2[1] = "data"
    OBVIOUS
  <2> HIDE DEF a1, d1, a2, d2
  <2>4. Head(ops) \in {a1, d1, a2, d2}
    <3>1. CASE ops = <<a1, d1, a2, d2>> \o o
      BY <2>1, <3>1
    <3>2. CASE ops = <<d1, a2, d2>> \o o
      BY <2>1, <3>2
    <3>3. CASE ops = <<a2, d2>> \o o
      BY <2>1, <3>3
    <3>4. CASE ops = <<d2>> \o o
      BY <2>1, <3>4
    <3> QED
      BY <2>2, <3>1, <3>2, <3>3, <3>4
  <2> QED
    BY <2>3, <2>4
<1>4. Leaving(fd) => Head(ops)[1] = "back"
  BY DEF Leaving, Switch
<1>5. Taking(fd) => Head(ops)[1] = "fore"
  BY DEF Taking
<1>6. Taken(fd) => Head(ops)[1] = "start"
  BY DEF Taken
<1> QED
  BY <1>1, <1>2, <1>3, <1>4, <1>5, <1>6

\* A task that writes in the middle leaves [ttyd] where it is in its work, and
\* nothing more is asked of the registers.
LEMMA Disturbed ==
  ASSUME NEW fd \in Ttys, Phase(fd), between', UNCHANGED <<ops, reg, current>>,
         current \in Ttys, \A m \in Ttys : mon'[m].foreground = mon[m].foreground
  PROVE  Phase(fd)'
<1>1. \A f \in Ttys : Fore(f) => Fore(f)'
  BY DEF Fore, Ttys
<1>2. \A o : Later(fd, o) => Later(fd, o)'
  BY DEF Later, Scrolls, CursorOn, AttachOn, CurrentOn
<1>3. \A r : Shows(r, fd)'
  BY DEF Shows
<1>4. \A k, r, v : Told(k, r, v)'
  BY DEF Told
<1>5. ASSUME NEW o, Between(fd, o) PROVE Phase(fd)'
  <2>1. Between(fd, o)'
    BY <1>1, <1>2, <1>3, <1>5 DEF Between
  <2> QED
    BY <2>1 DEF Phase
<1>6. ASSUME NEW o, Storing(fd, o) PROVE Phase(fd)'
  <2>1. Storing(fd, o)'
    BY <1>1, <1>2, <1>3, <1>6 DEF Storing, CursorOn, RowStart
  <2> QED
    BY <2>1 DEF Phase
<1>7. ASSUME NEW o, NEW r \in {"start", "cursor"}, NEW k \in 0 .. 3, NEW v \in Nat,
             Setting(fd, o, r, k, v)
      PROVE  Phase(fd)'
  <2>1. ops' = After(k, r, v, o) /\ Later(fd, o)' /\ Fore(fd)'
    BY <1>1, <1>2, <1>7 DEF Setting
  <2>2. r = "cursor" => o = AttachOn(fd)
    BY <1>7 DEF Setting
  <2>3. Setting(fd, o, r, k, v)'
    BY <1>3, <1>4, <2>1, <2>2 DEF Setting, AttachOn
  <2> QED
    BY <2>3 DEF Phase
<1>8. ASSUME Leaving(fd) \/ Taking(fd) \/ Taken(fd) PROVE Phase(fd)'
  <2>1. (Leaving(fd) \/ Taking(fd) \/ Taken(fd))'
    BY <1>1, <1>8 DEF Leaving, Taking, Taken, Switch, Ttys
  <2> QED
    BY <2>1 DEF Phase
<1> QED
  BY <1>5, <1>6, <1>7, <1>8 DEF Phase

\* Every step keeps [ttyd] at its work.
LEMMA ShowsStep ==
  ASSUME ScreenSizes, IInv, IInv', SInv, [Next]_vars
  PROVE  SInv'
<1> DEFINE Crt == [{"start", "cursor"} -> Nat \X Nat]
           Addr == {"start", "cursor"} \X {1, 2}
           Core == /\ addr \in Addr /\ crt \in Crt /\ current \in Ttys
                   /\ \A m \in Ttys : RowStart(mon[m].screen)
<1> SUFFICES ASSUME ~ under'
             PROVE  Core' /\ \E fd \in Ttys : Phase(fd)'
  BY DEF SInv
<1>1. ~ under
  <2>1. (\E e : under' = (under \/ e)) \/ under' = under
    BY DEF Next, vars, tty_write, tty_in_proc, out_byte, scroll_test, scroll_store, switch_step
  <2> QED
    BY <2>1, Zenon
<1>2. Core
  BY <1>1 DEF SInv
<1>3. PICK fd \in Ttys : Phase(fd)
  BY <1>1 DEF SInv
<1>4. ASSUME UNCHANGED <<mon, current, crt, addr>>
      PROVE  Core'
  BY <1>2, <1>4 DEF RowStart, Ttys
<1>5. ASSUME NEW c \in {"x", "LF", "BS"}, tty_write(c)
      PROVE  Core' /\ \E f \in Ttys : Phase(f)'
  <2>1. UNCHANGED <<ops, reg, current>> /\ monitor_putchar(c) /\ between' = (between \/ ops # <<>>)
    BY <1>5 DEF tty_write
  <2>2. /\ crt' \in Crt
        /\ \A m \in Ttys : RowStart(mon'[m].screen) /\ mon'[m].foreground = mon[m].foreground
        /\ Between(current, <<>>) /\ ~ between => Between(current, <<>>)'
    BY <1>2, <2>1, PutcharShows
  <2>3. addr' = <<"cursor", 2>> \/ addr' = addr
    BY <2>1 DEF monitor_putchar
  <2>4. addr' \in Addr
    BY <1>2, <2>3
  <2>5. Core'
    BY <1>2, <2>1, <2>2, <2>4 DEF RowStart, Ttys
  <2>6. ASSUME between' PROVE Phase(fd)'
    BY <1>2, <1>3, <2>1, <2>2, <2>6, Disturbed
  <2>7. ASSUME ~ between' PROVE Phase(current)'
    <3>1. ~ between /\ ops = <<>>
      BY <2>1, <2>7, Zenon
    <3>2. Between(current, <<>>)
      BY <1>3, <3>1, Rest
    <3> QED
      BY <2>1, <2>2, <3>1, <3>2 DEF Phase
  <2> QED
    BY <1>2, <1>3, <2>5, <2>6, <2>7
<1>6. ASSUME NEW f \in Ttys, tty_in_proc(Switch(f))
      PROVE  Core' /\ \E g \in Ttys : Phase(g)'
  <2>1. ops = <<>> /\ UNCHANGED <<mon, current, crt, addr>> /\ ops' = Switch(f)
    BY <1>6 DEF tty_in_proc
  <2>2. Fore(current)
    BY <1>3, <2>1, Rest DEF Between
  <2>3. Leaving(f)'
    BY <2>1, <2>2 DEF Leaving, Fore, Switch, Ttys
  <2> QED
    BY <1>4, <2>1, <2>3 DEF Phase
<1>7. ASSUME NEW d \in {"up", "down"}, tty_in_proc(Repeat(<<d, current>>)), UNCHANGED between
      PROVE  Core' /\ \E g \in Ttys : Phase(g)'
  <2>1. ops = <<>> /\ UNCHANGED <<mon, current, crt, addr>> /\ ops' = Repeat(<<d, current>>)
    BY <1>7 DEF tty_in_proc
  <2>2. Between(current, <<>>)
    BY <1>3, <2>1, Rest
  <2>3. Shows("start", current) /\ Shows("cursor", current) /\ Fore(current)
    BY <2>2, Lists DEF Between
  <2>4. Shows("start", current)' /\ Shows("cursor", current)' /\ Fore(current)'
    BY <1>7, <2>1, <2>3 DEF Shows, Fore, Value, Where, Word, Start, CRT_BUF_SIZE, Ttys
  <2>5. Repeat(<<d, current>>) \in Scrolls(current)
    BY DEF Repeat, Scrolls, ScreenSizes
  <2>6. Later(current, ops)'
    BY <2>1, <2>5 DEF Later, Scrolls
  <2>7. Between(current, ops)'
    BY <2>1, <2>4, <2>6 DEF Between
  <2> QED
    BY <1>2, <1>4, <2>1, <2>7 DEF Phase
<1>8. CASE out_byte
  <2>1. ops # <<>> /\ Head(ops)[1] \in {"addr", "data"}
    BY <1>8 DEF out_byte, Doing
  <2>2. PICK o : \E r \in {"start", "cursor"}, k \in 0 .. 3, v \in Nat : Setting(fd, o, r, k, v)
    BY <1>3, <2>1, Heads DEF Phase
  <2> PICK r \in {"start", "cursor"}, k \in 0 .. 3, v \in Nat : Setting(fd, o, r, k, v)
    BY <2>2
  <2>3. UNCHANGED <<mon, current>>
    BY <1>8 DEF out_byte
  <2>4. /\ crt' \in Crt /\ addr' \in Addr
        /\ IF k = 3 THEN Between(fd, o)' ELSE Setting(fd, o, r, k + 1, v)'
    BY <1>2, <1>8, <2>2, SettingStep
  <2>5. Phase(fd)'
    BY <2>4 DEF Phase
  <2> QED
    BY <1>2, <2>3, <2>4, <2>5 DEF RowStart, Ttys
<1>9. CASE scroll_test
  <2>1. ops # <<>> /\ Head(ops)[1] \in {"up", "down", "attach"}
    BY <1>9 DEF scroll_test, Doing
  <2>2. PICK o : Between(fd, o)
    BY <1>3, <2>1, Heads DEF Phase
  <2>3. UNCHANGED <<mon, current, crt, addr>>
    BY <1>9 DEF scroll_test
  <2>4. \E p : Between(fd, p)' \/ Storing(fd, p)'
    BY <1>1, <1>2, <1>9, <2>2, TestStep
  <2> QED
    BY <1>4, <2>3, <2>4 DEF Phase
<1>10. CASE scroll_store
  <2>1. ops # <<>> /\ Head(ops)[1] = "store"
    BY <1>10 DEF scroll_store, Doing
  <2>2. PICK o : Storing(fd, o)
    BY <1>3, <2>1, Heads DEF Phase
  <2>3. UNCHANGED <<current, crt, addr>>
    BY <1>10 DEF scroll_store
  <2>4. /\ \E v \in Nat : Setting(fd, o, "start", 0, v)'
        /\ \A m \in Ttys : RowStart(mon'[m].screen)
    BY <1>2, <1>10, <2>2, StoreStep
  <2> QED
    <3>1. Phase(fd)'
      BY <2>4 DEF Phase
    <3> QED
      BY <1>2, <2>3, <2>4, <3>1 DEF RowStart, Ttys
<1>11. CASE switch_step
  <2>1. ops # <<>> /\ Head(ops)[1] \in {"back", "fore", "start", "cursor", "current"}
    BY <1>11 DEF switch_step, Doing
  <2>2. crt' = crt /\ addr' = addr
    BY <1>11 DEF switch_step
  <2>3. \A m \in Ttys : RowStart(mon'[m].screen)
    <3>1. CASE UNCHANGED mon
      BY <1>2, <3>1
    <3>2. CASE /\ Doing({"back", "fore"})
               /\ mon' = [mon EXCEPT ![t].foreground = Doing({"fore"})]
      <4> DEFINE f == Doing({"fore"})
      <4> HIDE DEF f
      <4>1. SetsFore(t, f)
        BY <3>2 DEF SetsFore, f
      <4>2. CASE t \in Ttys
        BY <1>2, <4>1, <4>2, Assigns
      <4>3. CASE t \notin Ttys
        BY <1>2, <4>1, <4>3 DEF SetsFore, IInv
      <4> QED
        BY <4>2, <4>3
    <3> QED
      BY <1>11, <3>1, <3>2 DEF switch_step
  <2>4. CASE Leaving(fd) \/ Taking(fd) \/ Taken(fd)
    <3>1. Phase(fd)'
      BY <1>1, <1>2, <1>11, <2>4, SwitchStep DEF Phase
    <3>2. current' = current
      BY <1>11, <2>1, <2>4, Heads DEF switch_step, Doing
    <3> QED
      BY <1>2, <2>2, <2>3, <3>1, <3>2 DEF RowStart, Ttys
  <2>5. CASE \E o : Between(fd, o)
    <3>0. PICK o : Between(fd, o)
      BY <2>5
    <3>2. \/ (\E v \in Nat : Setting(fd, AttachOn(fd), "cursor", 0, v)') /\ current' = current
          \/ Between(fd, <<>>)' /\ current' = fd
      BY <1>1, <1>2, <1>11, <3>0, SwitchEnd
    <3>3. ASSUME NEW v \in Nat, Setting(fd, AttachOn(fd), "cursor", 0, v)'
          PROVE  Phase(fd)'
      <4>1. "cursor" \in {"start", "cursor"} /\ 0 \in 0 .. 3
        OBVIOUS
      <4>2. \E o2 : \E r \in {"start", "cursor"}, k \in 0 .. 3, w \in Nat :
                Setting(fd, o2, r, k, w)'
        BY <3>3, <4>1
      <4> QED
        BY <4>2 DEF Phase
    <3>4. Between(fd, <<>>)' => Phase(fd)'
      BY DEF Phase
    <3>1. Phase(fd)' /\ current' \in {fd, current}
      BY <3>2, <3>3, <3>4
    <3> QED
      BY <1>2, <2>2, <2>3, <3>1 DEF RowStart, Ttys
  <2> QED
    BY <1>3, <2>1, <2>4, <2>5, Heads DEF Phase
<1>12. CASE UNCHANGED vars
  <2>0. /\ UNCHANGED <<mon, current, crt, addr>> /\ UNCHANGED <<ops, reg, between>>
    BY <1>12 DEF vars
  <2>1. ASSUME NEW o
        PROVE  /\ Fore(fd)' <=> Fore(fd)
               /\ Later(fd, o)' <=> Later(fd, o)
               /\ Where("start", fd)' = Where("start", fd)
               /\ Where("cursor", fd)' = Where("cursor", fd)
               /\ Shows("start", fd)' <=> Shows("start", fd)
               /\ Shows("cursor", fd)' <=> Shows("cursor", fd)
    BY <2>0, Same DEF Shows, Value
  <2>2. ASSUME NEW o, Between(fd, o) PROVE Phase(fd)'
    <3>1. Between(fd, o)'
      BY <2>0, <2>1, <2>2 DEF Between, CursorOn
    <3> QED
      BY <3>1 DEF Phase
  <2>3. ASSUME NEW o, Storing(fd, o) PROVE Phase(fd)'
    <3>1. Storing(fd, o)'
      BY <2>0, <2>1, <2>3 DEF Storing, CursorOn, RowStart
    <3> QED
      BY <3>1 DEF Phase
  <2>4. ASSUME NEW o, NEW r \in {"start", "cursor"}, NEW k \in 0 .. 3, NEW v \in Nat,
               Setting(fd, o, r, k, v)
        PROVE  Phase(fd)'
    <3>1. Where(r, fd)' = Where(r, fd)
      BY <2>1
    <3>2. Told(k, r, v)'
      BY <2>0, <2>4 DEF Setting, Told
    <3>3. ops' = After(k, r, v, o)
      BY <2>0, <2>4 DEF Setting
    <3>4. Setting(fd, o, r, k, v)'
      BY <2>0, <2>1, <2>4, <3>1, <3>2, <3>3 DEF Setting, CursorOn, AttachOn
    <3> QED
      BY <3>4 DEF Phase
  <2>5. ASSUME Leaving(fd) \/ Taking(fd) \/ Taken(fd) PROVE Phase(fd)'
    <3>1. (Leaving(fd) \/ Taking(fd) \/ Taken(fd))'
      BY <2>0, <2>5 DEF Leaving, Taking, Taken, Fore, Switch, Ttys
    <3> QED
      BY <3>1 DEF Phase
  <2>6. Phase(fd)'
    BY <1>3, <2>2, <2>3, <2>4, <2>5 DEF Phase
  <2> QED
    BY <1>4, <2>0, <2>6
<1> QED
  BY <1>5, <1>6, <1>7, <1>8, <1>9, <1>10, <1>11, <1>12 DEF Next

\* ShowsForeground: whatever has been scrolled, switched and written, the
\* registers show the terminal that takes the keys when [ttyd] is done, unless
\* a task wrote in the middle of its work (monitor.c, tty.c).
THEOREM ScreenShown == ASSUME ScreenSizes PROVE Spec => []ShowsForeground
<1>1. Sizes
  BY DEF ScreenSizes
<1>2. Init => IInv /\ SInv
  <2> SUFFICES ASSUME Init PROVE IInv /\ SInv
    OBVIOUS
  <2>1. IInv
    BY <1>1, InitInv
  <2>2. /\ CRT_BUF_SIZE \in Nat /\ 0 \in Ttys /\ COLS \in Nat
    BY <1>1, BufSize DEF Sizes
  <2>3. \A m \in Ttys : mon[m].screen = 0 /\ (mon[m].foreground <=> m = 0)
    BY DEF Init
  <2>4. RowStart(0)
    BY <2>2 DEF RowStart, ScreenSizes
  <2>5. /\ Halves(0) \in Nat \X Nat /\ Value(Halves(0)) = 0
        /\ Halves(COLS) \in Nat \X Nat /\ Value(Halves(COLS)) = COLS
    BY <2>2, ValueOf DEF Halves
  <2>6. crt["start"] = Halves(0) /\ crt["cursor"] = Halves(COLS)
        /\ crt \in [{"start", "cursor"} -> Nat \X Nat]
    BY <2>5 DEF Init, BootCursor
  <2>7. Where("start", 0) = 0 /\ Where("cursor", 0) = COLS
    <3>1. mon[0].screen = 0 /\ mon[0].cursor = COLS
      BY <2>2 DEF Init, BootCursor
    <3>2. Start(0) = 0
      BY <2>2 DEF Start
    <3>3. 0 < BYTE * BYTE /\ COLS < BYTE * BYTE
      <4>1. COLS < CRT_BUF_SIZE
        BY <1>1 DEF Sizes, CRT_BUF_SIZE
      <4> DEFINE K == BYTE * BYTE
      <4>2. K \in Nat /\ CRT_BUF_SIZE <= K
        BY <1>1 DEF Sizes
      <4> HIDE DEF K
      <4>3. 0 < K /\ COLS < K
        BY <2>2, <4>1, <4>2
      <4> QED
        BY <4>3, Zenon DEF K
    <3>4. Word(0) = 0 /\ Word(COLS) = COLS
      BY <1>1, <2>2, <3>3, Words DEF Sizes
    <3> QED
      BY <2>2, <3>1, <3>2, <3>4 DEF Where
  <2>8. Between(0, <<>>)
    BY <2>3, <2>5, <2>6, <2>7, Lists DEF Between, Later, Fore, Shows, Init
  <2> QED
    BY <2>1, <2>2, <2>3, <2>4, <2>6, <2>8 DEF SInv, Phase, Init
<1>3. IInv /\ SInv /\ [Next]_vars => (IInv /\ SInv)'
  BY <1>1, NextInv, ShowsStep
<1>4. IInv /\ SInv => ShowsForeground
  <2> SUFFICES ASSUME IInv, SInv, ops = <<>>, ~ between, ~ under
               PROVE  /\ Fore(current) /\ Shows("start", current) /\ Shows("cursor", current)
                      /\ \A m \in Ttys : /\ mon[m].screen % COLS = 0
                                         /\ mon[m].screen + CRT_SIZE <= CRT_BUF_SIZE
    BY DEF ShowsForeground, Fore, Shows, Where
  <2>1. Between(current, <<>>)
    BY Rest DEF SInv
  <2>2. \A x : RowStart(x) => x % COLS = 0 /\ x + CRT_SIZE <= CRT_BUF_SIZE
    BY Rows
  <2> QED
    BY <2>1, <2>2, Lists DEF Between, SInv
<1> QED
  BY <1>2, <1>3, <1>4, PTL DEF Spec
=============================================================================
