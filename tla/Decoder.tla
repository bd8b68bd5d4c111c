------------------------------ MODULE Decoder -------------------------------
(***************************************************************************)
(* keyboard_read (drivers/keyboard/keyboard.c): [ttyd] turns scan codes    *)
(* into keys.  Scan codes arrive through the ring of module Keyboard,      *)
(* which is a bounded queue here, and keyboard_read waits in the middle of *)
(* a sequence for the bytes it still needs.                                *)
(*                                                                         *)
(* The person at the keyboard presses and releases keys in any order.  The *)
(* module follows what a correct terminal would make of that, and compares *)
(* it with the keys that keyboard_read passes to its handler.              *)
(***************************************************************************)
EXTENDS Naturals, Sequences, SequencesExt

CONSTANTS KEYBOARD_IN_BYTES,
          Keys,       \* the keys that are pressed, a subset of DOMAIN Make
          MaxPresses  \* bound on the presses of a behaviour

VARIABLES wire,       \* bytes sent by the keyboard, not in the ring yet
          kbuf,       \* the ring
          got,        \* the bytes that keyboard_read has taken so far
          mods,       \* shift_l ... alt_r: those of the flags that are set
          locks,      \* caps_lock, num_lock: those that are set
          port,       \* the last byte read from KB_DATA
          leds,       \* <<>>, or set_leds waits: <<the ACK it waits for, key>>
          down,       \* the keys that are held down
          want_locks, \* the locks as the presses have left them
          want,       \* the keys that the presses stand for, not delivered
          presses,
          lost,       \* a byte was dropped by a full ring
          ahead,      \* a key moved while set_leds was waiting
          wrong       \* the handler got a key that nobody pressed

kvars == <<down, want_locks, presses>>
vars == <<wire, kbuf, got, mods, locks, port, leds, kvars, want, lost, ahead, wrong>>

\* Scan code set 1, as the appendix of keymap.h lists it.
Make == [a |-> <<30>>, SHIFT_L |-> <<42>>, SHIFT_R |-> <<54>>,
         CTRL_L |-> <<29>>, CTRL_R |-> <<224, 29>>,
         CAPS_LOCK |-> <<58>>, NUM_LOCK |-> <<69>>,
         UP |-> <<224, 72>>, PAD_8 |-> <<72>>,
         PRINTSCREEN |-> <<224, 42, 224, 55>>,
         PAUSEBREAK |-> <<225, 29, 69, 225, 157, 197>>]

FLAG_BREAK == 128
KB_ACK == 250

\* Pause has no break code, Print Screen's is not its make code with the bit.
Break(k) == IF k = "PAUSEBREAK" THEN <<>>
            ELSE IF k = "PRINTSCREEN" THEN <<224, 183, 224, 170>>
            ELSE LET m == Make[k]
                 IN  [m EXCEPT ![Len(m)] = @ + FLAG_BREAK]

\* The rows of keymap for these codes: !Shift, Shift, E0.
keymap(code) == CASE code = 30 -> <<"a", "A", "0">>
                  [] code = 42 -> <<"SHIFT_L", "SHIFT_L", "0">>
                  [] code = 54 -> <<"SHIFT_R", "SHIFT_R", "0">>
                  [] code = 29 -> <<"CTRL_L", "CTRL_L", "CTRL_R">>
                  [] code = 58 -> <<"CAPS_LOCK", "CAPS_LOCK", "0">>
                  [] code = 69 -> <<"NUM_LOCK", "NUM_LOCK", "0">>
                  [] code = 72 -> <<"PAD_8", "8", "UP">>
                  [] OTHER -> <<"0", "0", "0">>

Modifiers == {"SHIFT_L", "SHIFT_R", "CTRL_L", "CTRL_R"}
Shifts == {"SHIFT_L", "SHIFT_R"}
Locks == {"CAPS_LOCK", "NUM_LOCK"}
Toggle(S, x) == (S \ {x}) \cup ({x} \ S)
Xor(p, q) == p # q

\* keyboard_setup
Init == /\ wire = <<>> /\ kbuf = <<>> /\ got = <<>>
        /\ mods = {} /\ locks = {"NUM_LOCK"} /\ port = KB_ACK /\ leds = <<>>
        /\ down = {} /\ want_locks = {"NUM_LOCK"} /\ want = <<>>
        /\ presses = 0 /\ lost = FALSE /\ ahead = FALSE /\ wrong = FALSE

-----------------------------------------------------------------------------
(* The keyboard *)

\* What a key stands for when it goes down with the keys D held.
Meaning(k, D, L) ==
    LET shift == D \cap Shifts # {}
        name == CASE k = "a" -> IF Xor(shift, "CAPS_LOCK" \in L) THEN "A" ELSE "a"
                  [] k = "PAD_8" -> IF shift \/ "NUM_LOCK" \in L THEN "8" ELSE "UP"
                  [] OTHER -> k
    IN  <<name, D \cap Modifiers>>

Silent == {"PRINTSCREEN", "PAUSEBREAK"}

\* Nobody types on after a byte was dropped: bounds the behaviours that the
\* properties say nothing about.
press(k) ==
    /\ wire = <<>> /\ presses < MaxPresses /\ ~ lost
    /\ k \notin down
    /\ presses' = presses + 1
    /\ wire' = Make[k]
    /\ down' = down \cup ({k} \ {"PAUSEBREAK"})
    /\ want_locks' = IF k \in Locks THEN Toggle(want_locks, k) ELSE want_locks
    /\ want' = IF k \in Silent THEN want
               ELSE Append(want, Meaning(k, IF k \in Modifiers THEN down' ELSE down, want_locks))
    /\ ahead' = (ahead \/ leds # <<>>)
    /\ UNCHANGED <<kbuf, got, mods, locks, port, leds, lost, wrong>>

release(k) ==
    /\ wire = <<>> /\ ~ lost
    /\ k \in down
    /\ wire' = Break(k)
    /\ down' = down \ {k}
    /\ ahead' = (ahead \/ leds # <<>>)
    /\ UNCHANGED <<kbuf, got, mods, locks, port, leds, want_locks, want, presses, lost, wrong>>

\* keyboard_handler: a full ring drops the byte.  Every byte of the keyboard,
\* its answers to commands included, comes this way: [ttyd] runs with
\* interrupts enabled.
keyboard_handler ==
    /\ wire # <<>>
    /\ wire' = Tail(wire)
    /\ port' = Head(wire)
    /\ IF Len(kbuf) < KEYBOARD_IN_BYTES
       THEN kbuf' = Append(kbuf, Head(wire)) /\ UNCHANGED lost
       ELSE lost' = TRUE /\ UNCHANGED kbuf
    /\ UNCHANGED <<got, mods, locks, leds, kvars, want, ahead, wrong>>

-----------------------------------------------------------------------------
(* keyboard_read *)

\* Mutant: a Print Screen sequence is left one byte early.
Reading_early(s) ==
    \/ s = <<>> \/ s = <<224>> \/ s = <<224, 42>> \/ s = <<224, 183>>
    \/ Len(s) < 6 /\ IsPrefix(s, Make["PAUSEBREAK"])

\* After the bytes s the function calls get_byte_from_kbuf again.
Reading(s) ==
    \/ s = <<>> \/ s = <<224>>
    \/ Len(s) < 6 /\ IsPrefix(s, Make["PAUSEBREAK"])
    \/ s \in {<<224, 42>>, <<224, 42, 224>>, <<224, 183>>, <<224, 183, 224>>}

IsPause(s) == s = Make["PAUSEBREAK"]
IsPrint(s) == s \in {Make["PRINTSCREEN"], Break("PRINTSCREEN")}

\* The column of keymap: E0 goes before Shift, and caps_lock inverts Shift
\* for letters.
Column(s, row) ==
    LET caps == Xor(mods \cap Shifts # {}, "CAPS_LOCK" \in locks /\ row[1] = "a")
    IN  IF s[1] = 224 THEN 3 ELSE IF caps THEN 2 ELSE 1

\* The keypad without num_lock.
Pad(key) == IF key = "PAD_8" THEN IF "NUM_LOCK" \in locks THEN "8" ELSE "UP" ELSE key

\* keyboard_read from is_make on: the flags and locks, and the key that goes
\* to the handler if it is a make code.
Decode(s) ==
    LET scan_code == IF s[1] = 224 THEN s[2] ELSE s[1]
        is_make == scan_code < FLAG_BREAK
        row == keymap(scan_code % FLAG_BREAK)
        key == row[Column(s, row)]
    IN  [mods |-> IF key \notin Modifiers THEN mods
                  ELSE IF is_make THEN mods \cup {key} ELSE mods \ {key},
         locks |-> IF key \in Locks /\ is_make THEN Toggle(locks, key) ELSE locks,
         call |-> is_make,
         key |-> Pad(key)]

\* handler(fd, key): compared with what was pressed.
handler(key) ==
    IF want # <<>> /\ Head(want) = key
    THEN want' = Tail(want) /\ UNCHANGED wrong
    ELSE wrong' = TRUE /\ UNCHANGED want

\* Mutant: set_leds waits for the answer to a byte it has not sent.
Command_none == wire

\* out_byte(KB_DATA, ..): the keyboard will answer.
Command == Append(wire, KB_ACK)

keyboard_read ==
    /\ leds = <<>>
    /\ kbuf # <<>>
    /\ kbuf' = Tail(kbuf)
    /\ LET s == Append(got, Head(kbuf)) IN
       IF Reading(s)
       THEN got' = s /\ UNCHANGED <<wire, mods, locks, leds, want, wrong>>
       ELSE /\ got' = <<>>
            /\ IF IsPause(s) \/ IsPrint(s)
               THEN UNCHANGED <<wire, mods, locks, leds, want, wrong>>
               ELSE LET d == Decode(s) IN
                    /\ mods' = d.mods
                    /\ locks' = d.locks
                    /\ IF d.locks # locks
                       THEN /\ wire' = Command
                            /\ leds' = <<1, <<d.key, d.mods>>>>
                            /\ UNCHANGED <<want, wrong>>
                       ELSE /\ IF d.call THEN handler(<<d.key, d.mods>>)
                                           ELSE UNCHANGED <<want, wrong>>
                            /\ UNCHANGED <<wire, leds>>
    /\ UNCHANGED <<port, kvars, lost, ahead>>

\* set_leds: keyboard_ack reads the port until it holds an ACK, then the
\* second byte is sent, and after its ACK keyboard_read goes on.  The port
\* still holds the first ACK when the wait for the second begins.
set_leds ==
    /\ leds # <<>>
    /\ port = KB_ACK
    /\ IF leds[1] = 1
       THEN /\ wire' = Command
            /\ leds' = <<2, leds[2]>>
            /\ UNCHANGED <<want, wrong>>
       ELSE /\ leds' = <<>>
            /\ handler(leds[2])
            /\ UNCHANGED wire
    /\ UNCHANGED <<kbuf, got, mods, locks, port, kvars, lost, ahead>>

Next == \/ \E k \in Keys : press(k) \/ release(k)
        \/ keyboard_handler \/ keyboard_read \/ set_leds

Spec == Init /\ [][Next]_vars

-----------------------------------------------------------------------------
(* Properties *)

Quiet == wire = <<>> /\ kbuf = <<>> /\ got = <<>> /\ leds = <<>>

\* As long as the ring has dropped no byte, the handler is called once for
\* every press, in their order, with the key that the modifiers and locks of
\* that moment select (keyboard.c: keyboard_read keeps them in variables that
\* lag behind the keyboard, and swallows the sequences of Print Screen and
\* Pause, which contain the codes of other keys).  And when everything sent has
\* been read, the flags are those of the keys that are held (a byte dropped at
\* keyboard.c:27 may be the release of a modifier, which then sticks).
DecodesPresses ==
    ~ lost => /\ ~ wrong
              /\ Quiet => /\ want = <<>>
                          /\ mods = down \cap Modifiers /\ locks = want_locks

\* set_leds leaves its polling loop, unless a key moves while it is in it: a
\* scan code that follows the ACK replaces it in the port before the loop has
\* seen it, and [ttyd] then reads no key any more (keyboard.c:65).
LedsAnswered == leds # <<>> /\ wire = <<>> /\ port # KB_ACK => ahead
=============================================================================
