-------------------------------- MODULE Nxsh --------------------------------
(***************************************************************************)
(* The shell, app/nxsh.c: the line editor of main, the history ring and    *)
(* the division of a line into tokens.  A line is a sequence of            *)
(* characters; the command line <<"h">> stands for "history -c".           *)
(*                                                                         *)
(* The module also follows what the user sees after the prompt, and the    *)
(* commands that a user would expect in the history.                       *)
(***************************************************************************)
EXTENDS Naturals, Sequences, SequencesExt

CONSTANTS CMDLINE_MAX, ARGC_MAX, HISTORY_MAX,
          Chars,      \* the characters that are typed
          MaxLines    \* bound on the commands of a behaviour

VARIABLES line,       \* buf.cmdline up to buf.cursor
          state,      \* "line", or the part of an escape sequence read so far
          history,    \* cmdlines, head, tail, cursor
          echo,       \* what the screen shows after the prompt, unless split
          ran,        \* the last HISTORY_MAX - 1 commands since a clear
          split,      \* something was printed that is not in the line
          undefined,  \* cmd_proc was called with an uninitialised token[0]
          ended, lines

vars == <<line, state, history, echo, ran, split, undefined, ended, lines>>

P == INSTANCE Printf WITH INT_MAX <- 0, Widths <- {}, call <- 0

\* What strlen and strcpy see of a buffer.
Str(s) == IF "NUL" \in ToSet(s)
          THEN SubSeq(s, 1, (CHOOSE k \in 1 .. Len(s) : s[k] = "NUL" /\
                                \A j \in 1 .. k - 1 : s[j] # "NUL") - 1)
          ELSE s

HIST_NI(k) == (k + 1) % HISTORY_MAX
HIST_PI(k) == (k + HISTORY_MAX - 1) % HISTORY_MAX
Slots == 0 .. HISTORY_MAX - 1

NoHistory == [cmdlines |-> [k \in Slots |-> <<>>], head |-> HISTORY_MAX - 1,
              tail |-> HISTORY_MAX - 1, cursor |-> 0]

Init == /\ line = <<>> /\ state = "line" /\ echo = <<>> /\ history = NoHistory
        /\ ran = <<>> /\ split = FALSE /\ undefined = FALSE /\ ended = FALSE /\ lines = 0

-----------------------------------------------------------------------------
(* History *)

\* Mutant: the tail does not move out of the way of the head.
history_append_tail(cmdline) ==
    [history EXCEPT !.head = HIST_NI(@),
                    !.cmdlines[HIST_NI(history.head)] = cmdline,
                    !.cursor = HIST_NI(HIST_NI(history.head))]

history_append(cmdline) ==
    LET head == HIST_NI(history.head)
    IN  [cmdlines |-> [history.cmdlines EXCEPT ![head] = cmdline],
         head |-> head,
         tail |-> IF head = history.tail THEN HIST_NI(head) ELSE history.tail,
         cursor |-> HIST_NI(head)]

\* Mutant: history_prev does not stop at the oldest command.
history_prev_wrap == HIST_PI(history.cursor)

\* The cursor after history_prev and history_next; history_next at the end
\* returns "" instead of the slot of the cursor.
history_prev == IF HIST_PI(history.cursor) = history.tail
                THEN history.cursor ELSE HIST_PI(history.cursor)
AtEnd == history.cursor = HIST_NI(history.head)
history_next == IF AtEnd THEN history.cursor ELSE HIST_NI(history.cursor)

history_clear(h) == [h EXCEPT !.head = HISTORY_MAX - 1, !.tail = HISTORY_MAX - 1, !.cursor = 0]

\* The slots that cmd_history lists.
Listing == LET n == (history.head + HISTORY_MAX - history.tail) % HISTORY_MAX
           IN  [k \in 1 .. n |-> history.cmdlines[(history.tail + k) % HISTORY_MAX]]

-----------------------------------------------------------------------------
(* main *)

\* input_proc: the tokens that strsep finds, the empty ones dropped.
Tokens(s) ==
    LET start(k) == s[k] # " " /\ (k = 1 \/ s[k - 1] = " ")
        end(k) == CHOOSE e \in k .. Len(s) : /\ \A j \in k .. e : s[j] # " "
                                             /\ e = Len(s) \/ s[e + 1] = " "
        starts == SelectSeq([k \in 1 .. Len(s) |-> k], start)
    IN  [k \in 1 .. Len(starts) |-> SubSeq(s, starts[k], end(starts[k]))]

Recent(s) == IF Len(s) < HISTORY_MAX THEN s ELSE Tail(s)

\* '\n': the line goes to the history, its first token is the command.
enter ==
    LET s == Str(line)
        h == IF s = <<>> THEN history ELSE history_append(s)
        clear == Tokens(s) = << <<"h">> >>
    IN  /\ lines < MaxLines /\ lines' = lines + 1
        /\ line' = <<>> /\ echo' = <<>> /\ split' = FALSE
        /\ undefined' = (s # <<>> /\ Tokens(s) = <<>>)
        /\ history' = IF clear THEN history_clear(h) ELSE h
        /\ ran' = IF clear THEN <<>> ELSE IF s = <<>> THEN ran ELSE Recent(Append(ran, s))
        /\ UNCHANGED <<state, ended>>

\* '\b'
backspace ==
    /\ IF line = <<>> THEN UNCHANGED <<line, echo>>
       ELSE /\ line' = Front(line)
            /\ echo' = IF split THEN echo ELSE Front(echo)
    /\ UNCHANGED <<state, history, ran, split, undefined, ended, lines>>

\* Another character
insert(ch) ==
    /\ IF Len(line) < CMDLINE_MAX - 1
       THEN line' = Append(line, ch) /\ echo' = IF split THEN echo ELSE Append(echo, ch)
       ELSE UNCHANGED <<line, echo>>
    /\ UNCHANGED <<state, history, ran, split, undefined, ended, lines>>

\* nxsh_ctrl_up and nxsh_ctrl_down: the line is erased from the screen and
\* replaced by a command of the history, which is printed as a format.
recall(cursor, cmdline) ==
    LET left == SubSeq(echo, 1, Len(echo) - Len(line))
        printed == P!vsprintf(cmdline, <<>>)
    IN  /\ history' = [history EXCEPT !.cursor = cursor]
        /\ line' = cmdline
        /\ split' = (split \/ printed # cmdline)
        /\ echo' = IF split' THEN <<>> ELSE left \o printed
        /\ state' = "line"
        /\ UNCHANGED <<ran, undefined, ended, lines>>

nxsh_ctrl_up == recall(history_prev, history.cmdlines[history_prev])
nxsh_ctrl_down == recall(history_next, IF AtEnd THEN <<>> ELSE history.cmdlines[history_next])

\* ctrl, one character at a time: a character that does not belong to a known
\* sequence is printed and not put into the line.
ctrl(ch) ==
    \/ state = "ESC" /\ ch = "[" /\ state' = "ESC ["
       /\ UNCHANGED <<line, history, echo, ran, split, undefined, ended, lines>>
    \/ state = "ESC [" /\ ch = "A" /\ nxsh_ctrl_up
    \/ state = "ESC [" /\ ch = "B" /\ nxsh_ctrl_down
    \/ /\ ~ (state = "ESC" /\ ch = "[") /\ ~ (state = "ESC [" /\ ch \in {"A", "B"})
       /\ state' = "line"
       /\ IF (state = "ESC [" /\ ch \in {"C", "D"}) \/ ch = "NUL"
          THEN UNCHANGED <<echo, split>>
          ELSE echo' = <<>> /\ split' = TRUE
       /\ UNCHANGED <<line, history, ran, undefined, ended, lines>>

\* main's loop: one character from getchar.
getchar(ch) ==
    /\ ~ ended /\ ~ undefined
    /\ IF state # "line" THEN ctrl(ch)
       ELSE \/ ch = "ESC" /\ state' = "ESC"
               /\ UNCHANGED <<line, history, echo, ran, split, undefined, ended, lines>>
            \/ ch = "LF" /\ enter
            \/ ch = "BS" /\ backspace
            \/ ch \notin {"ESC", "LF", "BS"} /\ insert(ch)

\* getchar returns EOF: main returns and _start calls exit.
eof_error ==
    /\ ~ ended /\ ended' = TRUE
    /\ line' = <<>> /\ state' = "line" /\ history' = NoHistory /\ echo' = <<>> /\ ran' = <<>>
    /\ split' = FALSE /\ undefined' = FALSE /\ lines' = 0

\* tty_in_proc sends '[' and an arrow's letter after an ESC; one other
\* character stands for an input that lost a byte.
Next == \/ eof_error
        \/ state = "line" /\ \E ch \in Chars : getchar(ch)
        \/ state # "line" /\ \E ch \in {"[", "A", "B", "C"} : getchar(ch)

-----------------------------------------------------------------------------
(* Properties *)

\* The screen shows the line that Enter will run, as long as no command with
\* a % was recalled (nxsh.c:299 passes it to printf as the format) and no
\* unknown escape sequence was typed.
EchoIsLine == ~ split => echo = line

\* The history lists the last HISTORY_MAX - 1 commands since it was cleared,
\* in order, wherever the ring has wrapped (nxsh.c:57-65).
ListsLastCommands == Listing = ran

\* Up shows a command that was entered and is listed, once there is one; Down
\* shows one too, or an empty line, or what is left in the slot after the
\* newest one (history_next steps onto that slot before it returns "").
RecallsCommands ==
    [][state = "ESC [" /\ ran # <<>>
        => /\ getchar("A") => line' \in ToSet(ran)
           /\ getchar("B") => line' \in ToSet(ran) \cup {<<>>}
                                \cup {history.cmdlines[HIST_NI(history.head)]}]_vars

\* No line has more tokens than input_proc's array has room for, or fills the
\* buffer to its last byte: ARGC_MAX and CMDLINE_MAX are chosen independently
\* (nxsh.c:16-18) and input_proc does not test i.
ArgcFits == Len(line) < CMDLINE_MAX /\ Len(Tokens(Str(line))) <= ARGC_MAX

\* The line, the screen and the history ring stay in step, and the line fits
\* into its buffers, whatever is typed.
LineInStep == EchoIsLine /\ ListsLastCommands /\ ArgcFits
=============================================================================
