------------------------------ MODULE Strings -------------------------------
(***************************************************************************)
(* The string functions that paths and command lines go through:           *)
(* lib/string/*.c, lib/c/basename.c and lib/c/dirname.c.  A string is a    *)
(* sequence of characters, its '\0' left out; a pointer into it is an      *)
(* index from 0 on.  A loop of the code becomes First: the first index at  *)
(* which its condition fails.                                              *)
(***************************************************************************)
EXTENDS Integers, Sequences, SequencesExt, FiniteSetsExt

CONSTANTS Chars,     \* characters: numbers other than 0
          MaxLen     \* bound on the length of a string

VARIABLE args        \* the arguments of the last call

vars == <<args>>

SEP == 1             \* PATH_SEP[0]
SPACE == 2
Null == -1

Str(n) == UNION {[1 .. k -> Chars] : k \in 0 .. n}
At(s, i) == IF i \in 0 .. Len(s) - 1 THEN s[i + 1] ELSE 0
From(s, i) == SubSeq(s, i + 1, Len(s))
Upto(s, i) == SubSeq(s, 1, i)
First(P(_)) == Min({i \in 0 .. MaxLen : P(i)})

-----------------------------------------------------------------------------
(* lib/string *)

\* Mutant: one character less is compared.
strncmp_less(s1, s2, n) ==
    IF n = 0 THEN 0
    ELSE LET Stop(i) == At(s1, i) = 0 \/ At(s2, i) = 0 \/ n - i <= 2 \/ At(s1, i) # At(s2, i)
         IN  At(s1, First(Stop)) - At(s2, First(Stop))

strncmp(s1, s2, n) ==
    IF n = 0 THEN 0
    ELSE LET Stop(i) == At(s1, i) = 0 \/ At(s2, i) = 0 \/ n - i = 1 \/ At(s1, i) # At(s2, i)
         IN  At(s1, First(Stop)) - At(s2, First(Stop))

strcmp(s1, s2) ==
    LET Stop(i) == At(s1, i) = 0 \/ At(s2, i) = 0 \/ At(s1, i) # At(s2, i)
    IN  At(s1, First(Stop)) - At(s2, First(Stop))

startswith(a, b) == strncmp(a, b, Len(b)) = 0

strstr(haystack, needle) ==
    LET Stop(i) == At(haystack, i) = 0 \/ strncmp(From(haystack, i), needle, Len(needle)) = 0
    IN  IF At(haystack, First(Stop)) = 0 THEN Null ELSE First(Stop)

strpbrk(s, a) ==
    LET Stop(i) == At(s, i) = 0 \/ At(s, i) \in ToSet(a)
    IN  IF At(s, First(Stop)) = 0 THEN Null ELSE First(Stop)

strcspn(s, r) ==
    LET Stop(i) == At(s, i) = 0 \/ At(s, i) \in ToSet(r) IN First(Stop)

strspn(s, a) ==
    LET Stop(i) == At(s, i) = 0 \/ At(s, i) \notin ToSet(a) IN First(Stop)

\* The token, and the string that is left; Null is <<Null>>.
strsep(s, delim) ==
    LET p == strpbrk(s, delim)
    IN  IF p = Null THEN <<s, <<Null>>>> ELSE <<Upto(s, p), From(s, p + 1)>>

\* while ((token = strsep(&s, delim)) != Null)
Tokens(s, delim) ==
    LET loop[n \in 0 .. MaxLen + 1, r \in Str(MaxLen) \cup {<<Null>>}] ==
            IF r = <<Null>> \/ n = 0 THEN <<>>
            ELSE <<strsep(r, delim)[1]>> \o loop[n - 1, strsep(r, delim)[2]]
    IN  loop[MaxLen + 1, s]

\* From the end, then from the start, as long as there is a space
trim(s) ==
    LET t == Max({0} \cup {k \in 1 .. Len(s) : s[k] # SPACE})
        Start(i) == At(Upto(s, t), i) # SPACE
    IN  From(Upto(s, t), First(Start))

-----------------------------------------------------------------------------
(* lib/c *)

\* The last separator; -1 if there is none.  The test for one at the end of
\* the path looks at the '\0' (basename.c:9) and never succeeds.
LastSep(path) == Max({-1} \cup {i \in 0 .. Len(path) - 1 : At(path, i) = SEP})

basename(path) == From(path, LastSep(path) + 1)

DOT == <<46>>
dirname(path) == IF LastSep(path) = -1 THEN DOT ELSE Upto(path, LastSep(path))

-----------------------------------------------------------------------------
(* The calls *)

NoArgs == <<<<>>, <<>>, 0>>

Init == args = NoArgs

call(s, a, n) == args = NoArgs /\ args' = <<s, a, n>>

Return == args # NoArgs /\ args' = NoArgs

Next == (\E s \in Str(MaxLen), a \in Str(2), n \in 0 .. MaxLen : call(s, a, n)) \/ Return

-----------------------------------------------------------------------------
(* Properties *)

\* x comes before y in the order of the first characters that differ.
Before(x, y) ==
    \E k \in 0 .. MaxLen : /\ k <= Len(x) /\ k < Len(y)
                           /\ Upto(x, k) = Upto(y, k) /\ At(x, k) < At(y, k)
Cut(s, n) == Upto(s, IF n < Len(s) THEN n ELSE Len(s))

\* strcmp and strncmp order strings, and their first n characters, by the
\* first difference, and give 0 only for equal ones; startswith tells a prefix
\* also when the string is shorter than it.
ComparesInOrder ==
    LET s == args[1]  a == args[2]  n == args[3] IN
    /\ strcmp(s, a) < 0 <=> Before(s, a)
    /\ strcmp(s, a) = 0 <=> s = a
    /\ strncmp(s, a, n) < 0 <=> Before(Cut(s, n), Cut(a, n))
    /\ strncmp(s, a, n) = 0 <=> Cut(s, n) = Cut(a, n)
    /\ startswith(s, a) <=> IsPrefix(a, s)

\* The loop around strsep, through which every path and command line goes,
\* cuts a string at every delimiter: no token has one, their number is that of
\* the delimiters and one more (also at the ends and next to each other), and
\* nothing else is lost.
SplitsAtDelimiters ==
    LET s == args[1]  a == args[2]  t == Tokens(s, a) IN
    /\ \A k \in 1 .. Len(t) : strcspn(t[k], a) = Len(t[k])
    /\ Len(t) = 1 + Len(SelectSeq(s, LAMBDA c : c \in ToSet(a)))
    /\ FlattenSeq(t) = SelectSeq(s, LAMBDA c : c \notin ToSet(a))

\* strstr finds the first occurrence if there is one (an empty needle is not
\* found in an empty string), strspn and strcspn the longest starts.
FindsFirst ==
    LET s == args[1]  a == args[2]
        found == {i \in 0 .. Len(s) - 1 : IsPrefix(a, From(s, i))}
    IN  /\ strstr(s, a) = IF found = {} THEN Null ELSE Min(found)
        /\ \A i \in 0 .. strspn(s, a) - 1 : At(s, i) \in ToSet(a)
        /\ At(s, strspn(s, a)) \notin ToSet(a)
        /\ strcspn(s, a) = IF strpbrk(s, a) = Null THEN Len(s) ELSE strpbrk(s, a)

\* dirname and basename, which devfs_mknod uses together on copies of a path,
\* put together give the path again, and the name has no separator.
PathPartsFit ==
    LET s == args[1] IN
    /\ SEP \notin ToSet(basename(s))
    /\ IF SEP \in ToSet(s) THEN dirname(s) \o <<SEP>> \o basename(s) = s
       ELSE dirname(s) = DOT /\ basename(s) = s

\* trim takes the spaces at both ends and nothing else, and takes all of a
\* string of spaces without running over its start.
TrimsBothEnds ==
    LET s == args[1] IN
    /\ At(trim(s), 0) # SPACE /\ At(trim(s), Len(trim(s)) - 1) # SPACE
    /\ \E i \in 0 .. Len(s) : /\ trim(s) = SubSeq(s, i + 1, i + Len(trim(s)))
                              /\ ToSet(Upto(s, i)) \cup ToSet(From(s, i + Len(trim(s))))
                                     \subseteq {SPACE}

\* The string functions do what their names say, for all strings up to a bound.
StringsAgree == /\ ComparesInOrder /\ SplitsAtDelimiters /\ FindsFirst
                /\ PathPartsFit /\ TrimsBothEnds
=============================================================================
