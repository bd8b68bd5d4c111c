------------------------------- MODULE Printf -------------------------------
(***************************************************************************)
(* vsprintf (lib/stdio/printf.c), the formatter behind printf, sprintf and *)
(* printk.  A string is a sequence of characters, a character is a string  *)
(* of length 1.  The conversions are operators; a behaviour of the module  *)
(* is a sequence of calls with formats and arguments taken from small      *)
(* sets.                                                                   *)
(***************************************************************************)
EXTENDS Integers, Sequences, SequencesExt

CONSTANTS INT_MAX,   \* ints are -INT_MAX-1 .. INT_MAX
          Widths     \* the minimum lengths, as sequences of digits

VARIABLE call        \* the last call: the format, its arguments, the result

vars == <<call>>

UINT == 2 * (INT_MAX + 1)
Digit == <<"0", "1", "2", "3", "4", "5", "6", "7", "8", "9">>
lower == Digit \o <<"a", "b", "c", "d", "e", "f">>
upper == Digit \o <<"A", "B", "C", "D", "E", "F">>
Index(s, c) == CHOOSE k \in 1 .. Len(s) : s[k] = c

\* The macro intlen of lib/misc.h
intlen(n, radix) == CHOOSE k \in 1 .. 8 : n < radix ^ k /\ (k > 1 => n >= radix ^ (k - 1))

\* The loop that stores the digits from the last one on
Digits(n, radix, table) ==
    LET len == intlen(n, radix)
    IN  [k \in 1 .. len |-> table[((n \div radix ^ (len - k)) % radix) + 1]]

Fill(c, k) == IF k > 0 THEN [j \in 1 .. k |-> c] ELSE <<>>

\* How the numeric conversions lay out prefix, digits and padding
Field(pre, body, left, zero, min_len) ==
    LET t == min_len - Len(body) - Len(pre)
    IN  IF left THEN pre \o body \o Fill(" ", t)
        ELSE IF zero THEN pre \o Fill("0", t) \o body
        ELSE Fill(" ", t) \o pre \o body

\* Mutant: the absolute value is taken as an int, so that the smallest int
\* stays negative and is printed as 0.
vsprintf_d_abs(arg, left, zero, min_len) ==
    Field(IF arg < 0 THEN <<"-">> ELSE <<>>,
          Digits(IF arg = -INT_MAX - 1 THEN 0 ELSE IF arg < 0 THEN -arg ELSE arg, 10, Digit),
          left, zero, min_len)

vsprintf_d(arg, left, zero, min_len) ==
    Field(IF arg < 0 THEN <<"-">> ELSE <<>>,
          Digits(IF arg < 0 THEN (UINT - 1 - (arg % UINT) + 1) % UINT ELSE arg, 10, Digit),
          left, zero, min_len)

vsprintf_u(arg, left, zero, min_len) ==
    Field(<<>>, Digits(arg % UINT, 10, Digit), left, zero, min_len)

vsprintf_x(arg, capital, left, zero, min_len) ==
    Field(<<>>, Digits(arg % UINT, 16, IF capital THEN upper ELSE lower), left, zero, min_len)

vsprintf_p(arg, left, zero, min_len) ==
    Field(<<"0", "x">>, Digits(arg % UINT, 16, lower), left, zero, min_len)

vsprintf_s(arg, left, min_len) ==
    LET pad == Fill(" ", min_len - Len(arg))
    IN  IF left THEN arg \o pad ELSE pad \o arg

Conversions == {"c", "d", "u", "x", "X", "s", "p"}

\* One conversion; an argument that is not there is whatever the stack holds.
Convert(ch, st) ==
    IF st.args = <<>> THEN <<"?">>
    ELSE LET arg == Head(st.args) IN
         CASE ch = "c" -> arg
           [] ch = "d" -> vsprintf_d(arg, st.left, st.zero, st.min_len)
           [] ch = "u" -> vsprintf_u(arg, st.left, st.zero, st.min_len)
           [] ch = "x" -> vsprintf_x(arg, FALSE, st.left, st.zero, st.min_len)
           [] ch = "X" -> vsprintf_x(arg, TRUE, st.left, st.zero, st.min_len)
           [] ch = "s" -> vsprintf_s(arg, st.left, st.min_len)
           [] ch = "p" -> vsprintf_p(arg, st.left, st.zero, st.min_len)

\* One character of the format.  In a conversion (spec) a character that is
\* no flag, digit or conversion is copied and the conversion goes on.
Scan(st, ch) ==
    IF ~ st.spec THEN
        IF ch = "%" THEN [st EXCEPT !.spec = TRUE, !.left = FALSE, !.zero = FALSE, !.min_len = 0]
        ELSE [st EXCEPT !.out = Append(@, ch)]
    ELSE CASE ch = "-" -> [st EXCEPT !.left = TRUE]
           [] ch = "0" /\ st.min_len = 0 /\ ~ st.left /\ ~ st.zero -> [st EXCEPT !.zero = TRUE]
           [] ch \in ToSet(Digit) /\ ~ (ch = "0" /\ st.min_len = 0 /\ ~ st.left /\ ~ st.zero) ->
                [st EXCEPT !.min_len = @ * 10 + Index(Digit, ch) - 1]
           [] ch \in Conversions ->
                [st EXCEPT !.out = @ \o Convert(ch, st), !.spec = FALSE,
                           !.args = IF @ = <<>> THEN @ ELSE Tail(@)]
           [] OTHER -> [st EXCEPT !.out = Append(@, ch)]

vsprintf(fmt, args) ==
    FoldLeft(Scan, [out |-> <<>>, spec |-> FALSE, left |-> FALSE, zero |-> FALSE,
                    min_len |-> 0, args |-> args], fmt).out

-----------------------------------------------------------------------------
(* The calls *)

Flags == {<<>>, <<"-">>, <<"0">>, <<"-", "0">>, <<"0", "-">>}
Numeric == {"d", "u", "x", "X", "p"}
Texts == {<<>>, <<"a">>, <<"a", "%">>}
Spec1(f, w, ch) == <<"%">> \o f \o w \o <<ch>>

NoCall == [flag |-> <<>>, width |-> <<>>, conv |-> "", arg |-> 0, after |-> <<>>, out |-> <<>>]
Init == call = NoCall

printf(f, w, ch, arg, after) ==
    /\ call.conv = ""
    /\ call' = [flag |-> f, width |-> w, conv |-> ch, arg |-> arg,
                after |-> after,
                out |-> vsprintf(Spec1(f, w, ch) \o after, <<arg, 7>>)]

\* The next call starts afresh: nothing of the last one is kept.
Return == call.conv # "" /\ call' = NoCall

Calls == \E f \in Flags, w \in Widths, after \in {<<>>, <<"]">>, <<" ", "%", "d">>} :
             \/ \E ch \in Numeric, arg \in -INT_MAX - 1 .. INT_MAX : printf(f, w, ch, arg, after)
             \/ \E arg \in Texts : printf(f, w, "s", arg, after)

Next == Calls \/ Return

-----------------------------------------------------------------------------
(* Properties *)

Width(w) == FoldLeft(LAMBDA n, d : n * 10 + Index(Digit, d) - 1, 0, w)
Upto(a, b) == IF a > b THEN a ELSE b

\* The number that a field shows: its sign and its digits, padding apart.
Number(s, radix, table) ==
    LET d == SelectSeq(s, LAMBDA c : c \in ToSet(table))
    IN  FoldLeft(LAMBDA n, c : n * radix + Index(table, c) - 1, 0, d)
          * (IF "-" \in ToSet(s) THEN -1 ELSE 1)

\* The output of the first conversion of the last call.
Own == LET rest == vsprintf(call.after, <<7>>)
       IN  SubSeq(call.out, 1, Len(call.out) - Len(rest))

\* What vsprintf prints for a number can be read back to the same number, for
\* every flag and width and up to the ends of the range (the smallest int has
\* no positive counterpart, printf.c:16).
ReadsBack ==
    call.conv \in Numeric =>
        LET v == IF call.conv = "d" THEN call.arg ELSE call.arg % UINT
        IN  IF call.conv \in {"d", "u"} THEN Number(Own, 10, Digit) = v
            ELSE Number(Own, 16, IF call.conv = "X" THEN upper ELSE lower) = v

\* A field is as wide as the format asks for, and wider only when what it
\* shows is: sign, 0x and padding share the width.  A left-justified field has
\* no leading padding, whichever order - and 0 have.
FieldWidth ==
    call.conv # "" =>
        LET natural == vsprintf(<<"%", call.conv>>, <<call.arg>>)
        IN  /\ Len(Own) = Upto(Width(call.width), Len(natural))
            /\ "-" \in ToSet(call.flag) => IsPrefix(natural, Own)

\* A conversion ends with its letter: what follows it is formatted as if it
\* stood alone, and with the next argument.
ConversionEnds == call.conv # "" => IsSuffix(vsprintf(call.after, <<7>>), call.out)

\* What vsprintf prints for a conversion is the number, in a field of the
\* width asked for, and has no effect on what follows (printf.c: vsprintf
\* resets flags and width for every conversion).
PrintsNumbers == ReadsBack /\ FieldWidth /\ ConversionEnds
=============================================================================
