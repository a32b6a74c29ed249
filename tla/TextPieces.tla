----------------------------- MODULE TextPieces -----------------------------
(***************************************************************************)
(* Small functions of core/text: the lines of a text (line_iterator), its  *)
(* words (split), numbers in any base (base_x_encode) and names that are   *)
(* compared without regard to case, as the map of headers does.            *)
(* Characters of lines and words are one-character strings, "r" and "n"    *)
(* the line breaks; those of names are their ASCII codes.                  *)
(***************************************************************************)
EXTENDS Integers, Sequences, FiniteSets, SequencesExt, FiniteSetsExt

LineBreaks == {"r", "n"}
find_any_char(s, p, any) == Min({q \in p .. Len(s) + 1 : q = Len(s) + 1 \/ s[q] \in any})

\* Faulty variant: a carriage return is always a line break of its own.
BehindOne(s, p) == p + 1

\* Where the next line begins, behind the line break at p.
NextLine(s, p) == IF s[p] = "r" /\ p < Len(s) /\ s[p + 1] = "n" THEN p + 2 ELSE p + 1

RECURSIVE LinesFrom(_, _)
LinesFrom(s, b) ==
    LET e == find_any_char(s, b, LineBreaks)
    IN  <<SubSeq(s, b, e - 1)>> \o IF e <= Len(s) THEN LinesFrom(s, NextLine(s, e)) ELSE <<>>

line_iterator(s) == LinesFrom(s, 1)

\* The words of s, where begin is the beginning of the one that p is in, or 0.
RECURSIVE SplitFrom(_, _, _, _)
SplitFrom(s, p, begin, splitters) ==
    LET ends == p > Len(s) \/ s[p] \in splitters
        word == IF ends /\ begin > 0 THEN <<SubSeq(s, begin, p - 1)>> ELSE <<>>
        next == IF ends THEN 0 ELSE IF begin > 0 THEN begin ELSE p
    IN  word \o IF p > Len(s) THEN <<>> ELSE SplitFrom(s, p + 1, next, splitters)

split(s, splitters) == SplitFrom(s, 1, 0, splitters)
-----------------------------------------------------------------------------
Unit == 256       \* values of the unsigned type that the number has

\* Faulty variant: a power of the base itself is written with one digit.
ReachesLate(n, multiple) == n > multiple

Reaches(n, multiple) == n >= multiple

\* The first power of the base that n does not reach, in Unit's arithmetic; 0 if
\* there is none after Unit steps, that is, if the loop does not end.
RECURSIVE Magnitude(_, _, _, _)
Magnitude(n, multiple, base, steps) ==
    CASE steps = 0 -> 0
      [] steps > 0 /\ Reaches(n, multiple) -> Magnitude(n, (multiple * base) % Unit, base, steps - 1)
      [] OTHER -> multiple

RECURSIVE DigitsFrom(_, _, _, _)
DigitsFrom(n, multiple, base, room) ==
    CASE multiple <= 1 -> [ok |-> TRUE, ends |-> TRUE, digits |-> <<n>>]
      [] multiple > 1 /\ room = 1 -> [ok |-> FALSE, ends |-> TRUE, digits |-> <<n \div multiple>>]
      [] OTHER -> LET r == DigitsFrom(n % multiple, multiple \div base, base, room - 1)
                  IN  [r EXCEPT !.digits = <<n \div multiple>> \o @]

base_x_encode(n, base, room) ==
    LET multiple == Magnitude(n, base, base, Unit)
    IN  CASE room = 0 \/ base < 2 -> [ok |-> FALSE, ends |-> TRUE, digits |-> <<>>]
          [] room > 0 /\ base >= 2 /\ multiple > 0 -> DigitsFrom(n, multiple \div base, base, room)
          [] OTHER -> [ok |-> FALSE, ends |-> FALSE, digits |-> <<>>]
-----------------------------------------------------------------------------
Lower == 97 .. 122
Upper == 65 .. 90

\* Faulty variant: only a lower case letter on the left is made upper case.
FoldedLeft(a, b) == IF a \in Lower /\ b \in Upper THEN a - 32 - b ELSE a - b

\* The difference of two characters. A letter is made upper case only if the
\* other one is an upper case letter.
Difference(a, b) ==
    CASE a \in Lower /\ b \in Upper -> a - 32 - b
      [] b \in Lower /\ a \in Upper -> a - (b - 32)
      [] OTHER -> a - b

compare_str_ascii_case_insensitive(a, b) ==
    LET At(s, i) == IF i <= Len(s) THEN s[i] ELSE 0
        differ == {i \in 1 .. Max({Len(a), Len(b)}) : Difference(At(a, i), At(b, i)) # 0}
        n == Difference(At(a, Min(differ)), At(b, Min(differ)))
    IN  IF differ = {} THEN 0 ELSE IF n > 0 THEN 1 ELSE -1
-----------------------------------------------------------------------------
\* The lines of a text are what stands between its line breaks, of which "\r\n"
\* is one; its words are the longest parts without a splitter.
TextIsSplit(s) ==
    LET breaks == {i \in DOMAIN s : s[i] = "n" \/ (s[i] = "r" /\ ~(i < Len(s) /\ s[i + 1] = "n"))}
        From(S) == {i \in DOMAIN s : s[i] \notin S /\ (i = 1 \/ s[i - 1] \in S)}
        Visible(t, S) == SelectSeq(t, LAMBDA c : c \notin S)
    IN  /\ Len(line_iterator(s)) = Cardinality(breaks) + 1
        /\ FlattenSeq(line_iterator(s)) = Visible(s, LineBreaks)
        /\ \A S \in {LineBreaks, {" "}, {" ", "n"}} :
             /\ Len(split(s, S)) = Cardinality(From(S))
             /\ FlattenSeq(split(s, S)) = Visible(s, S)
             /\ \A i \in DOMAIN split(s, S) : split(s, S)[i] # <<>>

\* A number is written right, without a zero in front, if and only if its digits
\* fit and the type can hold a power of the base above it. Otherwise the loop does
\* not end, or ends at a wrong power and other digits are written.
NumberIsWritten(n, base, room) ==
    LET r == base_x_encode(n, base, room)
        k == CHOOSE i \in 1 .. 8 : n < base^i /\ (i > 1 => n >= base^(i - 1))
        At(i) == r.digits[i] * base^(Len(r.digits) - i)
        right == r.ok /\ Len(r.digits) = k /\ MapThenSumSet(At, 1 .. k) = n
    IN  /\ right <=> k <= room /\ base^k < Unit
        /\ r.ok /\ base^k < Unit => right
        /\ base^k < Unit => r.ends
        /\ Len(r.digits) <= room

Folded(s) == [i \in DOMAIN s |-> IF s[i] \in Lower THEN s[i] - 32 ELSE s[i]]

\* Names are equal if they differ in case only, and the order is that of their
\* upper case forms as long as no character stands between Z and a.
NamesAreOrdered(a, b) ==
    LET n == compare_str_ascii_case_insensitive(a, b)
        Less(s, t) == \E i \in 1 .. Len(t) : /\ \A j \in 1 .. i - 1 : j <= Len(s) /\ s[j] = t[j]
                                             /\ i > Len(s) \/ s[i] < t[i]
    IN  /\ n = -compare_str_ascii_case_insensitive(b, a)
        /\ n = 0 <=> Folded(a) = Folded(b)
        /\ (\A i \in DOMAIN a : a[i] \notin 91 .. 96) /\ (\A i \in DOMAIN b : b[i] \notin 91 .. 96) =>
             (n = -1 <=> Less(Folded(a), Folded(b)))

\* Refuted: "treat all alphas as if they appear where the upper case chars
\* appear" (strutil-inline.h:174). A = a and A < _ but _ < a: this is not an
\* order, and the map of headers may lose a name with an underscore.
OrderIsTransitive(a, b, c) ==
    compare_str_ascii_case_insensitive(a, b) <= 0 /\ compare_str_ascii_case_insensitive(b, c) <= 0 =>
        compare_str_ascii_case_insensitive(a, c) <= 0

\* Refuted: "Represent an arbitrary, unsigned number in an arbitrary base."
\* (base_x_encode.h:11). The loop for the largest numbers of a type never ends.
EveryNumberIsWritten(n, base) == base_x_encode(n, base, 9).ok

=============================================================================
