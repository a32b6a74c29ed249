---------------------------- MODULE JsonScalars -----------------------------
(***************************************************************************)
(* Numbers and strings of core/data/json, character by character: how      *)
(* reader.cpp decodes them, how writer.cpp writes them, how value.cpp      *)
(* converts numbers, and how the place of an error is counted.             *)
(*                                                                         *)
(* Characters are bytes.  Integers have 2 bits in the place of 32 and 4 in *)
(* the place of 64; a double has 2 bits of mantissa, which is enough for   *)
(* all integers of 2 bits and not for those of 4, and is counted in        *)
(* halves.  A scalar is a record of its type and its number; the number of *)
(* a string or a container is its size.                                    *)
(***************************************************************************)
EXTENDS Unicode, FiniteSetsExt

Containers == {"array", "object"}

-----------------------------------------------------------------------------
(* Conversion *)

min_int == -2
max_int == 1
max_uint == 3
min_int64 == -8
max_int64 == 7
max_uint64 == 15
Doubles == {0, 1, 2, 3, 4, 6, 8, 12, 16, 24, 32} \cup {-1, -2, -3, -4, -6, -8, -12, -16, -24}

\* The double nearest to an integer, in halves: to even when there are two.
Double(n) ==
    LET far(d) == IF d > 2 * n THEN d - 2 * n ELSE 2 * n - d
        near == {d \in Doubles : \A e \in Doubles : far(d) <= far(e)}
    IN  IF Cardinality(near) = 1 THEN CHOOSE d \in near : TRUE
        ELSE CHOOSE d \in near : d \in {1, 2, 4, 8, 16, 32, -2, -4, -8, -16}

\* Twice the number that a node stands for.
Halves(n) == IF n.type = "real" THEN n.num ELSE 2 * n.num
Truncated(halves) == IF halves >= 0 THEN halves \div 2 ELSE -((-halves) \div 2)

in_range(d, min, max) == d >= Double(min) /\ d <= Double(max)
is_integral(d) == d % 2 = 0

is_int(n) ==
    CASE n.type = "int" -> n.num \in min_int .. max_int
      [] n.type = "uint" -> n.num <= max_int
      [] n.type = "real" -> in_range(n.num, min_int, max_int) /\ is_integral(n.num)
      [] OTHER -> FALSE

is_uint(n) ==
    CASE n.type = "int" -> n.num >= 0 /\ n.num <= max_uint
      [] n.type = "uint" -> n.num <= max_uint
      [] n.type = "real" -> in_range(n.num, 0, max_uint) /\ is_integral(n.num)
      [] OTHER -> FALSE

\* Faulty variant: the limit itself counts as in range.
IsInt64Inclusive(n) ==
    CASE n.type = "int" -> TRUE
      [] n.type = "uint" -> n.num <= max_int64
      [] n.type = "real" -> in_range(n.num, min_int64, max_int64) /\ is_integral(n.num)
      [] OTHER -> FALSE

is_int64(n) ==
    CASE n.type = "int" -> TRUE
      [] n.type = "uint" -> n.num <= max_int64
      [] n.type = "real" -> /\ n.num >= Double(min_int64) /\ n.num < Double(max_int64)
                            /\ is_integral(n.num)
      [] OTHER -> FALSE

isUInt64(n) ==
    CASE n.type = "int" -> n.num >= 0
      [] n.type = "uint" -> TRUE
      [] n.type = "real" -> n.num >= 0 /\ n.num < Double(max_uint64) /\ is_integral(n.num)
      [] OTHER -> FALSE

isNumeric(n) == is_int64(n) \/ isUInt64(n) \/ n.type = "real"

\* as_int() and its relatives: whether they return, and if so what.
Returns(v) == [ok |-> TRUE, val |-> v]
Throws == [ok |-> FALSE, val |-> 0]
Guarded(ok, v) == IF ok THEN Returns(v) ELSE Throws

as_int(n) ==
    CASE n.type \in {"int", "uint"} -> Guarded(is_int(n), n.num)
      [] n.type = "real" -> Guarded(in_range(n.num, min_int, max_int), Truncated(n.num))
      [] n.type \in {"null", "bool"} -> Returns(n.num)
      [] OTHER -> Throws

as_uint(n) ==
    CASE n.type \in {"int", "uint"} -> Guarded(is_uint(n), n.num)
      [] n.type = "real" -> Guarded(in_range(n.num, 0, max_uint), Truncated(n.num))
      [] n.type \in {"null", "bool"} -> Returns(n.num)
      [] OTHER -> Throws

as_int64(n) ==
    CASE n.type = "int" -> Returns(n.num)
      [] n.type = "uint" -> Guarded(is_int64(n), n.num)
      [] n.type = "real" -> Guarded(in_range(n.num, min_int64, max_int64), Truncated(n.num))
      [] n.type \in {"null", "bool"} -> Returns(n.num)
      [] OTHER -> Throws

as_uint64(n) ==
    CASE n.type = "uint" -> Returns(n.num)
      [] n.type = "int" -> Guarded(isUInt64(n), n.num)
      [] n.type = "real" -> Guarded(in_range(n.num, 0, max_uint64), Truncated(n.num))
      [] n.type \in {"null", "bool"} -> Returns(n.num)
      [] OTHER -> Throws

\* as_double(), in halves
as_double(n) ==
    CASE n.type \in {"int", "uint"} -> Returns(Double(n.num))
      [] n.type = "real" -> Returns(n.num)
      [] n.type \in {"null", "bool"} -> Returns(2 * n.num)
      [] OTHER -> Throws

as_bool(n) ==
    IF n.type \in {"string"} \cup Containers THEN Throws
    ELSE Returns(IF n.num = 0 THEN 0 ELSE 1)

\* as_string(); the text itself is not modelled.
as_string(n) == Guarded(n.type \notin Containers, n.num)

is_convertible_to(n, type) ==
    CASE type = "null" -> \/ isNumeric(n) /\ as_double(n).val = 0
                          \/ n.type \in {"bool", "string"} \cup Containers /\ n.num = 0
                          \/ n.type = "null"
      [] type = "int" -> \/ is_int(n) \/ n.type \in {"bool", "null"}
                         \/ n.type = "real" /\ in_range(n.num, min_int, max_int)
      [] type = "uint" -> \/ is_uint(n) \/ n.type \in {"bool", "null"}
                          \/ n.type = "real" /\ in_range(n.num, 0, max_uint)
      [] type \in {"real", "bool"} -> isNumeric(n) \/ n.type \in {"bool", "null"}
      [] type = "string" -> isNumeric(n) \/ n.type \in {"bool", "null", "string"}
      [] OTHER -> n.type \in {type, "null"}

-----------------------------------------------------------------------------
(* Numbers as text *)

Minus == 45
Point == 46
IsDecimal(c) == c \in 48 .. 57
IsExponent(c) == c \in {69, 101}

\* The first place from i on where no digit is.
PastDigits(s, i) == Min({j \in i .. Len(s) + 1 : j = Len(s) + 1 \/ ~IsDecimal(s[j])})

\* The place behind the number whose first character was consumed already: it
\* may have no digits at all.
read_number(s, i) ==
    LET whole == PastDigits(s, i)
        part == IF ByteAt(s, whole) = Point THEN PastDigits(s, whole + 1) ELSE whole
        signed == IF ByteAt(s, part + 1) \in {43, Minus} THEN part + 2 ELSE part + 1
    IN  IF IsExponent(ByteAt(s, part)) THEN PastDigits(s, signed) ELSE part

match(s, i, pattern) == Len(s) - i + 1 >= Len(pattern) /\ SubSeq(s, i, i + Len(pattern) - 1) = pattern

Decoded(type, n) == [type |-> type, num |-> n]
Undecoded == Decoded("error", 0)

\* sscanf(): a number is there if a digit follows the sign, or the point.
decode_double(token) ==
    LET i == IF token[1] = Minus THEN 2 ELSE 1
        first == IF ByteAt(token, i) = Point THEN i + 1 ELSE i
    IN  IF IsDecimal(ByteAt(token, first)) THEN Decoded("real", 0) ELSE Undecoded

\* Faulty variant: only what is beyond the threshold counts as too large.
TooLargeLate(n, digit, last, max) == n > max \div 10

\* Whether another digit would exceed max.
TooLarge(n, digit, last, max) ==
    n >= max \div 10 /\ (n > max \div 10 \/ ~last \/ digit > max % 10)

RECURSIVE DecodeFrom(_, _, _, _)
DecodeFrom(token, i, n, max) ==
    LET digit == token[i] - 48
    IN  IF i > Len(token)
          THEN IF token[1] = Minus THEN Decoded("int", -n)
               ELSE Decoded(IF n <= max_int THEN "int" ELSE "uint", n)
        ELSE IF ~IsDecimal(token[i]) \/ TooLarge(n, digit, i = Len(token), max) THEN decode_double(token)
        ELSE DecodeFrom(token, i + 1, n * 10 + digit, max)

decode_number(token) ==
    IF token[1] = Minus THEN DecodeFrom(token, 2, 0, -min_int64)
    ELSE DecodeFrom(token, 1, 0, max_uint64)

RECURSIVE uint_to_string(_)
uint_to_string(n) ==
    (IF n \div 10 = 0 THEN <<>> ELSE uint_to_string(n \div 10)) \o <<48 + (n % 10)>>

\* -value of a signed number, which overflows at the lowest one and there gives,
\* in a build that wraps, the same number; as an unsigned one it is right again.
Negated(n) == IF n = min_int64 THEN min_int64 ELSE -n
AsUnsigned(n) == n % (max_uint64 + 1)

\* value_to_string() of a signed or an unsigned number
value_to_string(n) ==
    IF n < 0 THEN <<Minus>> \o uint_to_string(AsUnsigned(Negated(n))) ELSE uint_to_string(n)

-----------------------------------------------------------------------------
(* Strings as text *)

Quote == 34
Backslash == 92
LetterU == 117
Escaped == <<Quote, Backslash, 8, 12, 10, 13, 9>>
Letters == <<Quote, Backslash, 98, 102, 110, 114, 116>>

codepoint_to_utf8(cp) ==
    LET Low(shift) == 128 + ((cp \div 2^shift) % 64)
    IN  CASE cp <= 127 -> <<cp>>
          [] cp \in 128 .. 2047 -> <<192 + ((cp \div 64) % 32), Low(0)>>
          [] cp \in 2048 .. 65535 -> <<224 + ((cp \div 4096) % 16), Low(6), Low(0)>>
          [] cp \in 65536 .. 1114111 -> <<240 + ((cp \div 262144) % 8), Low(12), Low(6), Low(0)>>
          [] OTHER -> <<>>

\* The place behind the string whose opening quote was consumed already; one
\* beyond that of the end if it is not closed.
RECURSIVE read_string(_, _)
read_string(s, i) ==
    IF i > Len(s) THEN Len(s) + 2
    ELSE IF s[i] = Backslash THEN read_string(s, Min({i + 2, Len(s) + 1}))
    ELSE IF s[i] = Quote THEN i + 1
    ELSE read_string(s, i + 1)

\* Four hexadecimal digits at i, of which the end comes before end.
decode_unicode_escape_sequence(s, i, end) ==
    LET r == ScanDigits(s, i, Min({i + 4, end}), 16)
        plain == \A j \in i .. i + 3 : ByteAt(s, j) # Underscore
    IN  [ok |-> end - i >= 4 /\ r.p = i + 4 /\ plain, n |-> r.n]

\* Faulty variant: the halves of a pair stay two characters.
DecodeHalf(s, i, end) ==
    LET first == decode_unicode_escape_sequence(s, i, end)
    IN  [ok |-> first.ok, cp |-> first.n, p |-> i + 4]

\* Whatever follows the first half of a pair is taken for the second.
decode_unicode_codepoint(s, i, end) ==
    LET first == decode_unicode_escape_sequence(s, i, end)
        second == decode_unicode_escape_sequence(s, i + 6, end)
        pair == first.n \in 55296 .. 56319
        follows == end - i >= 10 /\ s[i + 4] = Backslash /\ s[i + 5] = LetterU
    IN  IF first.ok /\ pair
          THEN [ok |-> follows /\ second.ok, p |-> i + 10,
                cp |-> 65536 + (first.n % 1024) * 1024 + (second.n % 1024)]
          ELSE [ok |-> first.ok, cp |-> first.n, p |-> i + 4]

Fails == [ok |-> FALSE, out |-> <<>>]

\* The text between the quotes of a token, from i on.
RECURSIVE DecodeText(_, _, _)
DecodeText(s, i, out) ==
    LET end == Len(s)
        c == ByteAt(s, i + 1)
        u == decode_unicode_codepoint(s, i + 2, end)
    IN  CASE i = end -> [ok |-> TRUE, out |-> out]
          [] i < end /\ s[i] = Quote -> [ok |-> TRUE, out |-> out]
          [] i < end /\ s[i] \notin {Quote, Backslash} -> DecodeText(s, i + 1, Append(out, s[i]))
          [] i < end /\ s[i] = Backslash /\ (i + 1 = end \/ c \notin {47, LetterU} \cup Range(Letters)) -> Fails
          [] i + 1 < end /\ s[i] = Backslash /\ c = 47 -> DecodeText(s, i + 2, Append(out, c))
          [] i + 1 < end /\ s[i] = Backslash /\ c \in Range(Letters) ->
               DecodeText(s, i + 2, Append(out, Partner(c, Letters, Escaped)))
          [] OTHER -> IF u.ok THEN DecodeText(s, u.p, out \o codepoint_to_utf8(u.cp)) ELSE Fails

decode_string(token) == DecodeText(token, 2, <<>>)

\* Faulty variant: only what follows the quote in the switch is escaped.
QuotedButBackslash(c) ==
    CASE c \in Range(Escaped) \ {Backslash} -> <<Backslash, Partner(c, Escaped, Letters)>>
      [] c \in (0 .. 31) \ Range(Escaped) -> <<Backslash, LetterU>> \o Hex(c, 4)
      [] OTHER -> <<c>>

\* How one byte is written.
QuotedByte(c) ==
    CASE c \in Range(Escaped) -> <<Backslash, Partner(c, Escaped, Letters)>>
      [] c \in (0 .. 31) \ Range(Escaped) -> <<Backslash, LetterU>> \o Hex(c, 4)
      [] OTHER -> <<c>>

\* value_to_quoted_string_n(), which value_to_quoted_string() agrees with up to
\* the first 0.
value_to_quoted_string(s) == <<Quote>> \o FlattenSeq([i \in 1 .. Len(s) |-> QuotedByte(s[i])]) \o <<Quote>>

-----------------------------------------------------------------------------
(* The place of an error *)

LineFeed == 10
Return == 13

\* Faulty variant: CR LF is two line breaks.
BehindEither(s, i) == i + 1

\* The place behind the line break at i.
BehindBreak(s, i) == IF s[i] = Return /\ ByteAt(s, i + 1) = LineFeed THEN i + 2 ELSE i + 1

RECURSIVE LocateFrom(_, _, _, _, _)
LocateFrom(s, i, location, start, line) ==
    LET behind == BehindBreak(s, i)
    IN  IF i >= location \/ i > Len(s) THEN [line |-> line + 1, column |-> location - start + 1]
        ELSE IF s[i] \in {Return, LineFeed} THEN LocateFrom(s, behind, location, behind, line + 1)
        ELSE LocateFrom(s, i + 1, location, start, line)

get_location_line_and_column(s, location) == LocateFrom(s, 1, location, 1, 0)

-----------------------------------------------------------------------------
(* What these functions promise *)

\* A number that is_int(), is_uint(), is_int64() or isUInt64() vouches for is
\* returned unchanged by the conversion of that name; and what
\* is_convertible_to() promises, the conversions keep. Whatever a conversion
\* returns is in the range of its type, with two exceptions: 2 to the power of 63
\* passes as_int64(), and 2 to the power of 64 as_uint64().
ConversionsAreSafe(n) ==
    LET Exact(r) == r.ok /\ 2 * r.val = Halves(n)
    IN  /\ is_int(n) => Exact(as_int(n))
        /\ is_uint(n) => Exact(as_uint(n))
        /\ is_int64(n) => Exact(as_int64(n)) /\ as_int64(n).val <= max_int64
        /\ isUInt64(n) => Exact(as_uint64(n)) /\ as_uint64(n).val <= max_uint64
        /\ is_convertible_to(n, "int") => as_int(n).ok
        /\ is_convertible_to(n, "uint") => as_uint(n).ok
        /\ as_int(n).ok => as_int(n).val \in min_int .. max_int
        /\ as_uint(n).ok => as_uint(n).val \in 0 .. max_uint
        /\ as_int64(n).ok =>
             (as_int64(n).val \in min_int64 .. max_int64 <=> n # [type |-> "real", num |-> 2 * (max_int64 + 1)])
        /\ as_uint64(n).ok =>
             (as_uint64(n).val \in 0 .. max_uint64 <=> n # [type |-> "real", num |-> 2 * (max_uint64 + 1)])
        /\ is_convertible_to(n, "bool") => as_bool(n).ok
        /\ is_convertible_to(n, "real") => as_double(n).ok
        /\ is_convertible_to(n, "string") => as_string(n).ok

Numeral(n) == IF n < 0 THEN <<Minus>> \o uint_to_string(-n) ELSE uint_to_string(n)

\* An integer is decoded as an integer if, and only if, it fits into 64 bits
\* (4 here); the limits themselves are among those that do. What is written is
\* the number in decimal, is read to its end and decoded as it was.
IntegerIsKept(n) ==
    LET token == Numeral(n)
        d == decode_number(token)
    IN  /\ read_number(token, 2) = Len(token) + 1
        /\ n \in min_int64 .. max_uint64 => value_to_string(n) = token
        /\ IF n \in min_int64 .. max_uint64 THEN d.type \in {"int", "uint"} /\ d.num = n
           ELSE d.type = "real"

\* Any bytes are written as a string that ends where it should and is decoded as
\* what it was.
StringIsKept(s) ==
    LET token == value_to_quoted_string(s)
    IN  /\ read_string(token, 2) = Len(token) + 1
        /\ decode_string(token) = [ok |-> TRUE, out |-> s]

\* A codepoint that is written as \u, in two halves if it is large, is decoded as
\* the bytes that core/text writes for it.
EscapedCodepointIsKept(cp) ==
    LET U(n) == <<Backslash, LetterU>> \o Hex(n, 4)
        text == IF cp < 65536 THEN U(cp)
                ELSE U(55296 + (cp - 65536) \div 1024) \o U(56320 + ((cp - 65536) % 1024))
    IN  cp \notin 55296 .. 56319 =>
          decode_string(<<Quote>> \o text \o <<Quote>>) = [ok |-> TRUE, out |-> add_codepoint_to_utf8(4, cp).out]

\* The place of a token is its column, counted from 1, in the line that as many
\* line breaks precede, of which CR LF counts as one.
PlaceIsRight(s, location) ==
    LET breaks == {i \in 1 .. location - 1 :
                     s[i] = LineFeed \/ (s[i] = Return /\ ByteAt(s, i + 1) # LineFeed)}
        place == get_location_line_and_column(s, location)
    IN  s[location] \notin {LineFeed, Return} =>
          /\ place.line = Cardinality(breaks) + 1
          /\ place.column = location - Max({0} \cup breaks)

\* Refuted: "double out of int64_t range" (value.cpp): as_int64() returns only
\* what fits in an int64_t. It lets 2 to the power of 63 through.
Int64InRange(n) == as_int64(n).ok => as_int64(n).val \in min_int64 .. max_int64

\* Refuted: "' is not a number." (reader.cpp:659). A minus without a digit is
\* decoded as 0.
OnlyNumbersAreDecoded(token) == decode_number(token).type # "error" => \E i \in 1 .. Len(token) : IsDecimal(token[i])

=============================================================================
