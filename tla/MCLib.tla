------------------------------- MODULE MCLib --------------------------------
(***************************************************************************)
(* The shell, the libraries below it and the screen it prints on:          *)
(* instances of Monitor, Nxsh, Printf and Strings.  A behaviour is one of  *)
(* one of them; the variables of the others keep their initial values.     *)
(***************************************************************************)
EXTENDS Monitor

VARIABLES active, call, args,
          line, state, history, echo, ran, split, undefined, ended, lines

MCWidths == {<<>>, <<"3">>, <<"1", "0">>}
MCChars == {"h", "%", " ", "LF", "BS", "ESC"}

P == INSTANCE Printf WITH INT_MAX <- 15, Widths <- MCWidths
S == INSTANCE Strings WITH Chars <- {1, 2, 3}, MaxLen <- 4
N == INSTANCE Nxsh WITH CMDLINE_MAX <- 3, ARGC_MAX <- 1, HISTORY_MAX <- 3, MaxLines <- 3,
                        Chars <- MCChars

svars == <<mon, crt, addr, ops, reg, current, steps, under, between>>
nvars == <<line, state, history, echo, ran, split, undefined, ended, lines>>
all == <<active, svars, call, args, nvars>>

LInit == /\ Init /\ P!Init /\ S!Init /\ N!Init
         /\ active \in {"Monitor", "Printf", "Strings", "Nxsh"}

LNext == /\ UNCHANGED active
         /\ \/ active = "Monitor" /\ Next /\ UNCHANGED <<call, args, nvars>>
            \/ active = "Printf" /\ P!Next /\ UNCHANGED <<svars, args, nvars>>
            \/ active = "Strings" /\ S!Next /\ UNCHANGED <<svars, call, nvars>>
            \/ active = "Nxsh" /\ N!Next /\ UNCHANGED <<svars, call, args>>

LSpec == LInit /\ [][LNext]_all

-----------------------------------------------------------------------------
(* Properties *)

\* vsprintf prints numbers that read back to themselves, see Printf.
PrintsNumbers == P!PrintsNumbers

\* The functions of lib/string agree with what they are for, see Strings.
StringsAgree == S!StringsAgree

\* nxsh's line, what the screen shows of it and its history agree, see Nxsh.
LineInStep == N!LineInStep

\* The arrow keys bring back a command that was entered, see Nxsh.
RecallsCommands == N!RecallsCommands
=============================================================================
