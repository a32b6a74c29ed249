----------------------------- MODULE NumberScan -----------------------------
(***************************************************************************)
(* scan_number() of core/text and in_numeric_range() of core/cli, which    *)
(* tests a value from the command line with it.  A text is a sequence of   *)
(* one-character strings.  A floating-point number is counted in           *)
(* hundredths and taken to be exact; a word has 12 bits instead of 64.     *)
(***************************************************************************)
EXTENDS Integers, Sequences, TLC, SequencesExt, FiniteSetsExt

WordSize == 4096
Hundred == 100
Numerals == <<"0", "1", "2", "3", "4", "5", "6", "7", "8", "9", "a", "b", "c", "d", "e", "f">>

DigitOf(c) == (CHOOSE i \in 1 .. 17 : i = 17 \/ Numerals[i] = c) - 1
IsDigit(c, radix) == \E i \in 1 .. radix : Numerals[i] = c
CharAt(s, p) == IF p <= Len(s) THEN s[p] ELSE "end"

\* Faulty variant: an underscore ends the number.
DigitsUngrouped(s, p, radix) ==
    Min({q \in p .. Len(s) + 1 : q = Len(s) + 1 \/ ~IsDigit(s[q], radix)})

\* The first place from p on that is neither a digit nor an underscore.
EndOfDigits(s, p, radix) ==
    Min({q \in p .. Len(s) + 1 : q = Len(s) + 1 \/ ~(IsDigit(s[q], radix) \/ s[q] = "_")})

DigitsOf(s, p, q) == SelectSeq(SubSeq(s, p, q - 1), LAMBDA c : c # "_")

\* scan_hex_digits(), scan_binary_digits(), scan_octal_digits() and
\* scan_decimal_digits_pre_radix(): n wraps like a uint64_t.
scan_digits(s, p, radix) ==
    LET Scanned(q) == [p |-> q, n |-> FoldLeft(LAMBDA n, c : (n * radix + DigitOf(c)) % WordSize,
                                               0, DigitsOf(s, p, q))]
    IN  Scanned(EndOfDigits(s, p, radix))

\* In hundredths: no more than two digits are ever given.
Hundredths(d) ==
    (IF Len(d) > 0 THEN 10 * DigitOf(d[1]) ELSE 0) + (IF Len(d) > 1 THEN DigitOf(d[2]) ELSE 0)

scan_decimal_digits_post_radix(s, p) ==
    LET Scanned(q) == [p |-> q, n |-> Hundredths(DigitsOf(s, p, q))]
    IN  Scanned(EndOfDigits(s, p, 10))

scan_decimal_number(s, p) ==
    scan_digits(s, IF CharAt(s, p) \in {"+", "-"} THEN p + 1 ELSE p, 10)
      @@ [negative |-> CharAt(s, p) = "-"]

\* Numbers that begin with 0 and name their base, if p is at one and at least
\* three characters are left. The digit behind the 0 of an octal number is
\* skipped like the letter of the other formats.
Prefixed(s, p) ==
    IF CharAt(s, p) # "0" \/ p + 2 > Len(s) THEN "none"
    ELSE CASE s[p + 1] = "x" -> "hex"
           [] s[p + 1] = "b" -> "binary"
           [] IsDigit(s[p + 1], 8) -> "octal"
           [] OTHER -> "none"

Radix(format) == CASE format = "hex" -> 16 [] format = "binary" -> 2 [] format = "octal" -> 8

\* The rest of a number behind its sign, in three steps: the digits before the
\* point, those behind it and the exponent. A number has a place p, a format, a
\* sign, the whole number and, in hundredths, the fraction so far. The digits
\* behind a leading point are not read, the digits before an exponent count only
\* if there is a point, and the sign only if there is an exponent.
ScanWhole(s, p, negative) ==
    (IF CharAt(s, p) = "." THEN [p |-> p, n |-> 0, format |-> "float"]
     ELSE scan_digits(s, p, 10) @@ [format |-> "decimal"])
      @@ [negative |-> negative, float |-> 0]

ScanFraction(s, w) ==
    LET Behind(r) == [w EXCEPT !.p = r.p, !.format = "float", !.float = r.n + Hundred * w.n]
    IN  IF w.format = "decimal" /\ CharAt(s, w.p) = "."
          THEN Behind(scan_decimal_digits_post_radix(s, w.p + 1)) ELSE w

Scaled(w, e) == IF e.negative THEN w.float \div 10^e.n ELSE w.float * 10^e.n

ScanExponent(s, w) ==
    LET Behind(e) == [w EXCEPT !.p = e.p, !.format = "float",
                               !.float = (IF w.negative THEN -1 ELSE 1) * Scaled(w, e)]
    IN  IF w.p < Len(s) /\ s[w.p] = "e" THEN Behind(scan_decimal_number(s, w.p + 1)) ELSE w

ScanDecimal(s, p, negative) == ScanExponent(s, ScanFraction(s, ScanWhole(s, p, negative)))

ScanBased(s, p, format, negative) ==
    scan_digits(s, p + 2, Radix(format)) @@ [format |-> format, negative |-> negative, float |-> 0]

ScanBehindSign(s, p, negative) ==
    LET Of(format) == IF format = "none" THEN ScanDecimal(s, p, negative)
                      ELSE ScanBased(s, p, format, negative)
    IN  Of(Prefixed(s, p))

\* p = 1 says that nothing was accepted.
scan_number(s, allowed) ==
    LET If(r) == IF r.format \in allowed THEN r ELSE [r EXCEPT !.p = 1]
    IN  If(ScanBehindSign(s, IF CharAt(s, 1) \in {"+", "-"} THEN 2 ELSE 1, CharAt(s, 1) = "-"))

\* A whole number with its sign, as an int64_t.
Signed(info) ==
    LET n == IF info.n >= WordSize \div 2 THEN info.n - WordSize ELSE info.n
    IN  IF info.negative THEN -n ELSE n

\* Whether a value is accepted; a limit of a floating-point number may be absent.
in_numeric_range(s, min, max, allowed) ==
    LET InRange(info) ==
            /\ info.p = Len(s) + 1
            /\ IF info.format = "float"
                 THEN info.float >= Hundred * min /\ info.float <= Hundred * max
                 ELSE Signed(info) >= min /\ Signed(info) <= max
    IN  InRange(scan_number(s, allowed))

-----------------------------------------------------------------------------
(* Numbers as they are meant: a sign, a format, the digits with underscores *)
(* among them, two digits of a fraction (or none) and an exponent (or none) *)

Prefix(format) == CASE format = "hex" -> <<"0", "x">> [] format = "binary" -> <<"0", "b">>
                    [] format = "octal" -> <<"0">> [] OTHER -> <<>>

TextOf(w) ==
    w.sign \o Prefix(w.format) \o w.digits
      \o (IF w.fraction = <<>> THEN <<>> ELSE <<".">> \o w.fraction)
      \o (IF w.exponent = <<>> THEN <<>> ELSE <<"e">> \o w.exponent)

\* What the digits are worth, place by place.
Worth(w) ==
    LET d == SelectSeq(w.digits, LAMBDA c : c # "_")
        radix == IF w.format \in {"hex", "binary", "octal"} THEN Radix(w.format) ELSE 10
        At(i) == DigitOf(d[i]) * radix^(Len(d) - i)
    IN  MapThenSumSet(At, 1 .. Len(d))

Negated(w, n) == IF w.sign = <<"-">> THEN -n ELSE n

FloatWorth(w) ==
    LET f == w.fraction
        n == Hundred * Worth(w) + (IF f = <<>> THEN 0 ELSE 10 * DigitOf(f[1]) + DigitOf(f[2]))
    IN  Negated(w, IF w.exponent = <<>> THEN n ELSE n * 10^DigitOf(w.exponent[1]))

\* What the code makes of a number: decimal, hexadecimal and binary ones that
\* fit an int64_t are read for what they are worth, and larger ones wrap; the
\* first digit of an octal number does not count; a floating-point number without
\* a fraction is 0, and one without an exponent loses its sign.
WorthAsRead(w) ==
    LET signed == IF Worth(w) < WordSize \div 2 THEN Worth(w) ELSE Worth(w) - WordSize
        float == FloatWorth(w)
    IN  CASE w.format = "octal" -> Negated(w, Worth([w EXCEPT !.digits = Tail(@)]))
          [] w.format = "float" /\ w.fraction = <<>> -> 0
          [] w.format = "float" /\ w.fraction # <<>> ->
               IF w.exponent = <<>> /\ float < 0 THEN -float ELSE float
          [] OTHER -> Negated(w, signed)

\* Numbers of every format are read to their end, with the worth above, and are
\* accepted from the command line if, and only if, that is in range and their
\* format is allowed. Only an octal number of one digit is not recognised.
NumbersAreRead(w, min, max) ==
    LET Float == w.format = "float"
        unit == IF Float THEN Hundred ELSE 1
        Read(s, info, n) ==
            /\ IF w.format = "octal" /\ Len(w.digits) = 1 THEN info.p = 1
               ELSE /\ info.p = Len(s) + 1
                    /\ n = IF Float THEN info.float ELSE Signed(info)
                    /\ in_numeric_range(s, min, max, {w.format}) <=> n \in unit * min .. unit * max
            /\ \A f \in {"decimal", "hex", "binary", "octal", "float"} \ {info.format} :
                 scan_number(s, {f}).p = 1
    IN  \E s \in {TextOf(w)} : Read(s, scan_number(s, {w.format}), WorthAsRead(w))

\* Refuted: "0777 (octal is detected by leading 0)" (scan_numbers.h:75); the
\* first digit behind the 0 is not counted.
OctalIsRead(w) ==
    w.format = "octal" /\ Len(w.digits) > 1 => scan_number(TextOf(w), {"octal"}).n = Worth(w)

\* Refuted: "floating point" among the formats that are supported
\* (scan_numbers.h:69); 5e1 is read as 0, and -1.5 as 1.5.
FloatIsRead(w) == w.format = "float" => scan_number(TextOf(w), {"float"}).float = FloatWorth(w)

=============================================================================
