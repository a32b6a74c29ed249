------------------------------- MODULE Interp -------------------------------
(***************************************************************************)
(* interp() of core/text: a format with references to numbered arguments,  *)
(* {1}, {1=comment}, {1 %spec} and {1~none|one|many}.  A format is a       *)
(* sequence of one-character strings; in the result an argument is the     *)
(* record of its number and whether a specifier was applied to it.  An     *)
(* argument is the number that a choice compares (its value, or 0 or 1 for *)
(* strings and Booleans).                                                  *)
(***************************************************************************)
EXTENDS Integers, Sequences, SequencesExt, FiniteSetsExt, NumberScan

Unsigned == 16               \* 2^32: values of an unsigned; of uint64_t: WordSize
format_specifier_buflen == 3 \* 32

find_any_char(s, p, any, end) == Min({q \in p .. end : q = end \/ s[q] \in any})
SkipBlanks(s, p, end) == Min({q \in p .. end : q = end \/ s[q] # " "})
rtrim(s, b, e) == Max({b} \cup {q + 1 : q \in {i \in b .. e - 1 : s[i] # " "}})

to_string(n, spec) == <<[arg |-> n, spec |-> spec]>>

\* {n~first|second|...}: the candidate that the value counts, or the last one.
\* Blanks are cut off before the first candidate and behind the chosen one.
RECURSIVE ChooseFrom(_, _, _, _, _)
ChooseFrom(s, begin, end_of_arg, j, value_to_compare) ==
    LET q == find_any_char(s, begin, {"|"}, end_of_arg)
    IN  IF j = value_to_compare \/ q = end_of_arg THEN SubSeq(s, begin, rtrim(s, begin, q) - 1)
        ELSE ChooseFrom(s, q + 1, end_of_arg, j + 1, value_to_compare)

\* The reference whose number begins at p: what it adds, and the place of its
\* closing brace; p itself if it is not a reference. The number is compared as
\* an unsigned but used as a uint64_t.
scan_arg(s, p, args) ==
    LET end == Len(s) + 1
        digits == scan_digits(s, p, 10)
        n == digits.n
        end_of_arg == find_any_char(s, digits.p, {"}", "n"}, end)
        next == SkipBlanks(s, digits.p, end)
        end_of_spec == rtrim(s, next, find_any_char(s, next, {"}", "="}, end))
        begin == SkipBlanks(s, next + 1, end_of_arg)
        failed == [p |-> p, txt |-> <<>>]
    IN  IF ~(n > 0 /\ n % Unsigned <= Len(args) /\ CharAt(s, end_of_arg) = "}") THEN failed
        ELSE CASE s[next] = "%" -> IF end_of_spec < next + format_specifier_buflen
                                     THEN [p |-> end_of_arg, txt |-> to_string(n, TRUE)] ELSE failed
               [] s[next] \in {"}", "="} -> [p |-> end_of_arg, txt |-> to_string(n, FALSE)]
               [] s[next] = "~" ->
                    [p |-> end_of_arg, txt |-> ChooseFrom(s, begin, end_of_arg, 0, args[n])]
               [] OTHER -> failed

\* Faulty variant: a reference at the end of the format does not fit.
NoLastReference(s, p) == s[p] = "{" /\ p + 3 <= Len(s)

\* A brace that a whole reference may follow.
MayRefer(s, p) == s[p] = "{" /\ p + 2 <= Len(s)

RECURSIVE InterpFrom(_, _, _)
InterpFrom(s, p, args) ==
    LET r == scan_arg(s, p + 1, args)
    IN  CASE p > Len(s) -> <<>>
          [] p <= Len(s) /\ ~MayRefer(s, p) -> <<s[p]>> \o InterpFrom(s, p + 1, args)
          [] p <= Len(s) /\ MayRefer(s, p) /\ s[p + 1] = "{" -> <<"{">> \o InterpFrom(s, p + 2, args)
          [] p <= Len(s) /\ MayRefer(s, p) /\ s[p + 1] # "{" /\ r.p > p + 1 ->
               r.txt \o InterpFrom(s, r.p + 1, args)
          [] OTHER -> <<"{", s[p + 1]>> \o InterpFrom(s, p + 2, args)

interp(s, args) == InterpFrom(s, 1, args)
-----------------------------------------------------------------------------
(* Formats as they are meant: a sequence of pieces                         *)

Meaning(piece, args) ==
    CASE piece.is = "plain" -> piece.text
      [] piece.is = "brace" -> <<"{">>
      [] piece.is = "arg" -> to_string(piece.n, FALSE)
      [] piece.is = "spec" -> to_string(piece.n, TRUE)
      [] piece.is = "choice" -> IF args[piece.n] + 1 \in DOMAIN piece.of THEN piece.of[args[piece.n] + 1]
                                ELSE piece.of[Len(piece.of)]

\* A format means what its pieces mean, one after the other, whatever stands
\* before or behind a reference; unless a doubled brace is the end of it.
FormatIsFollowed(pieces, args) ==
    LET text == FlattenSeq([i \in DOMAIN pieces |-> pieces[i].text])
    IN  pieces # <<>> /\ pieces[Len(pieces)].is # "brace" =>
          interp(text, args) = FlattenSeq([i \in DOMAIN pieces |-> Meaning(pieces[i], args)])

\* Refuted: every reference that is followed is to one of the arguments. {17},
\* in this width, is taken for {1} when it is compared, but not when it is used.
ReferencesAreArguments(s, args) ==
    \A p \in DOMAIN s : scan_arg(s, p, args).p > p => scan_digits(s, p, 10).n \in DOMAIN args

\* Refuted: a doubled brace is one brace; it is two at the end of a format.
BracesAreDoubled(pieces, args) ==
    LET text == FlattenSeq([i \in DOMAIN pieces |-> pieces[i].text])
    IN  interp(text, args) = FlattenSeq([i \in DOMAIN pieces |-> Meaning(pieces[i], args)])

=============================================================================
