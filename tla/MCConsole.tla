----------------------------- MODULE MCConsole ------------------------------
(***************************************************************************)
(* The console, from the keyboard's interrupt to the reader of a terminal: *)
(* instances of Keyboard, Decoder and Tty.  A behaviour is one of one of   *)
(* them; the variables of the others keep their initial values.            *)
(***************************************************************************)
EXTENDS Keyboard

VARIABLES active,
          wire, kbuf, got, mods, locks, port, leds, down, want_locks, want, presses, lost,
          ahead, miskeyed,
          in, current, i, todo, treg, rpc, rreg, n, r, keys, placed, seen, raced, full, wrong

MCKeys == {"a", "SHIFT_L", "CAPS_LOCK", "UP", "PRINTSCREEN", "PAUSEBREAK"}

D == INSTANCE Decoder WITH KEYBOARD_IN_BYTES <- 3, Keys <- MCKeys, MaxPresses <- 3,
                           wrong <- miskeyed
T == INSTANCE Tty WITH TTYS_COUNT <- 2, TTY_BUF_SIZE <- 2, Counts <- {1, 2}, MaxKeys <- 2,
                       sent <- placed, over <- full

dvars == <<wire, kbuf, got, mods, locks, port, leds, down, want_locks, want, presses, lost,
           ahead, miskeyed>>
tvars == <<in, current, i, todo, treg, rpc, rreg, n, r, keys, placed, seen, raced, full, wrong>>
all == <<active, vars, dvars, tvars>>

CInit == /\ Init /\ D!Init /\ T!Init
         /\ active \in {"Keyboard", "Decoder", "Tty"}

CNext == /\ UNCHANGED active
         /\ \/ active = "Keyboard" /\ Next /\ UNCHANGED <<dvars, tvars>>
            \/ active = "Decoder" /\ D!Next /\ UNCHANGED <<vars, tvars>>
            \/ active = "Tty" /\ T!Next /\ UNCHANGED <<vars, dvars>>

\* [ttyd] and the reader come back onto the running queue after each turn.
\* Nobody has to type.
CSpec == /\ CInit /\ [][CNext]_all
         /\ WF_all(active = "Keyboard" /\ get_byte_from_kbuf
                     /\ UNCHANGED <<active, dvars, tvars>>)
         /\ WF_all(active = "Tty" /\ T!put
                     /\ UNCHANGED <<active, vars, dvars>>)
         /\ WF_all(active = "Tty" /\ T!reader
                     /\ UNCHANGED <<active, vars, dvars>>)

-----------------------------------------------------------------------------
(* Properties *)

\* keyboard_read returns the keys that were pressed, see Decoder.
DecodesPresses == D!DecodesPresses

\* set_leds leaves its polling loop unless a key moves meanwhile, see Decoder.
LedsAnswered == D!LedsAnswered

\* Without a lost update of count, a terminal's buffer is a queue, see Tty.
FifoUnlessRaced == T!FifoUnlessRaced

\* A read of a terminal returns once there are characters, see Tty.
ReadReturns == T!ReadReturns
=============================================================================
