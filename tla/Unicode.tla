------------------------------ MODULE Unicode -------------------------------
(***************************************************************************)
(* UTF-8 and escape sequences of core/text: unicode.cpp and the digit      *)
(* scanners of scan_numbers.cpp that escapes are read with.  A text is a   *)
(* sequence of bytes, which a byte 0 follows in memory; positions count    *)
(* from 1.                                                                 *)
(***************************************************************************)
EXTENDS Integers, Sequences, SequencesExt

MAX_UNICODE_CHAR == 1114111
UNICODE_REPLACEMENT_CHAR == 65533

ByteAt(s, i) == IF i <= Len(s) THEN s[i] ELSE 0

is_utf8_continuation_byte(c) == c \in 128 .. 191
is_utf8_lead_byte(c) == c \in 194 .. 244

predict_length_of_codepoint_from_lead_byte(c) ==
    CASE c \in 1 .. 127 -> 1
      [] c \in 194 .. 223 -> 2
      [] c \in 224 .. 239 -> 3
      [] c \in 240 .. 244 -> 4
      [] OTHER -> 0

proper_length_of_codepoint(cp) ==
    CASE cp <= 127 -> 1 [] cp \in 128 .. 2047 -> 2 [] cp \in 2048 .. 65535 -> 3 [] OTHER -> 4

is_surrogate(cp) == cp \in 55296 .. 57343

\* Where the next character begins, by the look of its first byte alone.
next_utf8_char_inline(s, i) ==
    CHOOSE j \in i + 1 .. Len(s) + 1 :
        LET Stops(k) == ByteAt(s, k) < 128 \/ is_utf8_lead_byte(ByteAt(s, k))
        IN  Stops(j) /\ \A k \in i + 1 .. j - 1 : ~Stops(k)

\* The codepoint at i, and where the next one begins: at the byte that should
\* have continued this one if there is such a byte.
get_codepoint_from_utf8(s, i) ==
    LET n == predict_length_of_codepoint_from_lead_byte(ByteAt(s, i))
        bad == {k \in 1 .. n - 1 : ~is_utf8_continuation_byte(ByteAt(s, i + k))}
        lead == IF n = 1 THEN s[i] ELSE ByteAt(s, i) % 2^(7 - n)
        cp == FoldLeft(LAMBDA acc, k : 64 * acc + (s[i + k] % 64), lead, [k \in 1 .. n - 1 |-> k])
    IN  CASE n = 0 -> [cp |-> UNICODE_REPLACEMENT_CHAR, next |-> i + 1]
          [] n > 0 /\ bad # {} ->
               [cp |-> UNICODE_REPLACEMENT_CHAR, next |-> i + CHOOSE k \in bad : \A l \in bad : k <= l]
          [] n > 0 /\ bad = {} /\ cp > MAX_UNICODE_CHAR ->
               [cp |-> UNICODE_REPLACEMENT_CHAR, next |-> i + 1]
          [] OTHER -> [cp |-> cp, next |-> i + n]

\* The number of bytes of the character at i, 0 if they are malformed. The test
\* against the largest codepoint comes to nothing, because a codepoint beyond it
\* was already replaced.
length_of_codepoint(s, i) ==
    LET n == predict_length_of_codepoint_from_lead_byte(ByteAt(s, i))
    IN  IF \A k \in 1 .. n - 1 : is_utf8_continuation_byte(ByteAt(s, i + k)) THEN n ELSE 0

RECURSIVE CountFrom(_, _)
CountFrom(s, i) ==
    IF i > Len(s) THEN 0 ELSE 1 + CountFrom(s, get_codepoint_from_utf8(s, i).next)

count_codepoints_in_utf8(s) == CountFrom(s, 1)

\* The place of a codepoint, 0 if it is not there.
RECURSIVE FindFrom(_, _, _)
FindFrom(s, i, cp) ==
    LET g == get_codepoint_from_utf8(s, i)
    IN  IF i > Len(s) THEN 0 ELSE IF g.cp = cp THEN i ELSE FindFrom(s, g.next, cp)

find_codepoint_in_utf8(s, cp) == FindFrom(s, 1, cp)

\* Faulty variant: encodings longer than needed pass.
WellFormedOverlong(s, i) ==
    LET g == get_codepoint_from_utf8(s, i)
    IN  /\ ~(g.cp = UNICODE_REPLACEMENT_CHAR /\ g.next = i + 1)
        /\ ~is_surrogate(g.cp)

\* What is_well_formed_utf8() asks of the character at i.
WellFormedAt(s, i) ==
    LET g == get_codepoint_from_utf8(s, i)
        bytes == g.next - i
    IN  /\ ~(g.cp = UNICODE_REPLACEMENT_CHAR /\ g.next = i + 1)
        /\ ~(bytes > 1 /\ proper_length_of_codepoint(g.cp) < bytes)
        /\ ~is_surrogate(g.cp)

RECURSIVE WellFormedFrom(_, _)
WellFormedFrom(s, i) ==
    i > Len(s) \/ (WellFormedAt(s, i) /\ WellFormedFrom(s, get_codepoint_from_utf8(s, i).next))

is_well_formed_utf8(s) == WellFormedFrom(s, 1)

-----------------------------------------------------------------------------
(* Writing into a buffer of room bytes: whether the function returned true, *)
(* what was written, and what it leaves in buf_length.                      *)

Refused(room) == [ok |-> FALSE, out |-> <<>>, room |-> room]
Written(room, bytes) == [ok |-> TRUE, out |-> bytes, room |-> room]
WrittenIf(enough, room, bytes) == IF enough THEN Written(room, bytes) ELSE Refused(room)

\* advance_and_return_true() adds to buf_length what was written.
AdvancedIf(enough, room, bytes) ==
    IF enough THEN Written(room + Len(bytes), bytes) ELSE Refused(room)

\* The bytes of a codepoint; none beyond the last codepoint, without complaint.
add_codepoint_to_utf8(room, cp) ==
    LET Low(shift) == 128 + ((cp \div 2^shift) % 64)
    IN  CASE room < 1 -> Refused(room)
          [] room >= 1 /\ cp < 128 -> Written(room, <<cp>>)
          [] room >= 1 /\ cp \in 128 .. 2047 -> WrittenIf(room >= 2, room, <<192 + cp \div 64, Low(0)>>)
          [] room >= 1 /\ cp \in 2048 .. 65535 ->
               WrittenIf(room >= 3, room, <<224 + cp \div 4096, Low(6), Low(0)>>)
          [] room >= 1 /\ cp \in 65536 .. MAX_UNICODE_CHAR ->
               WrittenIf(room >= 4, room, <<240 + cp \div 262144, Low(12), Low(6), Low(0)>>)
          [] OTHER -> Written(room, <<>>)

\* cat_codepoint_to_utf8() and its relatives keep one byte for the 0 at the end.
Terminated(room, r) == IF r.ok THEN Written(r.room, Append(r.out, 0)) ELSE Refused(room)

cat_codepoint_to_utf8(room, cp) ==
    IF room = 0 THEN Refused(room) ELSE Terminated(room, add_codepoint_to_utf8(room - 1, cp))

NEED_1CHAR_ESCAPES == <<10, 13, 9, 12, 11, 8, 7>>
CHARS_FOR_1CHAR_ESCAPES == <<110, 114, 116, 102, 118, 98, 97>>

\* The partner of the first c in from, as strchr() finds it: it also finds the 0
\* that ends the string, whose partner is a 0.
Partner(c, from, to) ==
    IF c = 0 THEN 0 ELSE to[CHOOSE i \in 1 .. Len(from) : from[i] = c]

Hex(n, digits) == [k \in 1 .. digits |->
    LET d == (n \div 16^(digits - k)) % 16 IN IF d < 10 THEN 48 + d ELSE 55 + d]

\* snprintf() ends what it writes with a 0, so that of an escape that just fits
\* the last digit is lost.
Printed(room, bytes) == IF Len(bytes) < room THEN bytes ELSE Append(SubSeq(bytes, 1, room - 1), 0)

HexEscape(room, cp) ==
    CASE cp <= 127 -> AdvancedIf(room > 4, room, <<92, 120>> \o Hex(cp, 2))
      [] cp \in 128 .. 65535 -> AdvancedIf(room >= 6, room, Printed(room, <<92, 117>> \o Hex(cp, 4)))
      [] OTHER -> AdvancedIf(room >= 10, room, Printed(room, <<92, 85>> \o Hex(cp, 8)))

write_2byte_sequence(room, c) == AdvancedIf(room >= 2, room, <<92, c>>)

\* Codepoint 0 becomes a backslash and a 0.
add_escape_sequence(room, cp) ==
    IF cp \in {0} \cup Range(NEED_1CHAR_ESCAPES)
      THEN write_2byte_sequence(room, Partner(cp, NEED_1CHAR_ESCAPES, CHARS_FOR_1CHAR_ESCAPES))
      ELSE HexEscape(room, cp)

\* With no room at all the one byte less is taken for a huge buffer.
cat_escape_sequence(room, cp) ==
    Terminated(room, add_escape_sequence(IF room = 0 THEN 1000 ELSE room - 1, cp))

\* Faulty variant: quotes are not escaped.
AddUnquoted(room, cp) ==
    CASE room < 1 -> Refused(room)
      [] room >= 1 /\ cp \in Range(NEED_1CHAR_ESCAPES) ->
           write_2byte_sequence(room, Partner(cp, NEED_1CHAR_ESCAPES, CHARS_FOR_1CHAR_ESCAPES))
      [] room >= 1 /\ cp \in 32 .. 126 -> AdvancedIf(TRUE, room, <<cp>>)
      [] OTHER -> HexEscape(room, cp)

add_utf8_or_escape_sequence(room, cp) ==
    CASE room < 1 -> Refused(room)
      [] room >= 1 /\ cp \in Range(NEED_1CHAR_ESCAPES) ->
           write_2byte_sequence(room, Partner(cp, NEED_1CHAR_ESCAPES, CHARS_FOR_1CHAR_ESCAPES))
      [] room >= 1 /\ cp \in {92, 34, 39} -> write_2byte_sequence(room, cp)
      [] room >= 1 /\ cp = 127 -> AdvancedIf(room >= 4, room, <<92, 120>> \o Hex(127, 2))
      [] room >= 1 /\ cp \in (32 .. 126) \ {92, 34, 39} -> AdvancedIf(TRUE, room, <<cp>>)
      [] OTHER -> HexEscape(room, cp)

cat_utf8_or_escape_sequence(room, cp) ==
    IF room = 0 THEN Refused(room) ELSE Terminated(room, add_utf8_or_escape_sequence(room - 1, cp))

-----------------------------------------------------------------------------
(* Scanning an escape *)

Underscore == 95
DigitValue(c) ==
    CASE c \in 48 .. 57 -> c - 48 [] c \in 97 .. 102 -> c - 87 [] c \in 65 .. 70 -> c - 55 [] OTHER -> 99

\* The digits of some base from i up to, but not at, end, underscores among
\* them; their value, which stays at one beyond the largest codepoint, and the
\* place of the first byte that is neither. Stands for scan_hex_digits(),
\* scan_octal_digits(), scan_binary_digits() and the digits before a radix point.
ScanDigits(s, i, end, base) ==
    LET Digit(k) == DigitValue(ByteAt(s, k)) < base
        stop == CHOOSE k \in i .. end :
                  /\ k = end \/ ~(Digit(k) \/ ByteAt(s, k) = Underscore)
                  /\ \A l \in i .. k - 1 : Digit(l) \/ ByteAt(s, l) = Underscore
        digits == SelectSeq(SubSeq(s, i, stop - 1), LAMBDA c : c # Underscore)
        Saturated(n) == IF n > MAX_UNICODE_CHAR THEN MAX_UNICODE_CHAR + 1 ELSE n
    IN  [n |-> FoldLeft(LAMBDA acc, c : Saturated(base * acc + DigitValue(c)), 0, digits), p |-> stop]

\* The codepoint that an escape behind a backslash stands for, and the place
\* behind it. All digits must be there; otherwise the scan stops behind the
\* letter, and in front of the first digit of an octal escape.
scan_unicode_escape_sequence(s, i) ==
    LET c == ByteAt(s, i)
        octal == c \in 48 .. 55
        from == IF octal THEN i ELSE i + 1
        end == from + (CASE octal -> 3 [] c = 120 -> 2 [] c = 117 -> 4 [] c = 85 -> 8 [] OTHER -> 0)
        r == ScanDigits(s, from, end, IF octal THEN 8 ELSE 16)
    IN  CASE c \in {92, 34, 39} -> [cp |-> c, p |-> i + 1]
          [] c \in Range(CHARS_FOR_1CHAR_ESCAPES) ->
               [cp |-> Partner(c, CHARS_FOR_1CHAR_ESCAPES, NEED_1CHAR_ESCAPES), p |-> i + 1]
          [] end > from /\ r.p = end /\ ~(c = 85 /\ r.n > MAX_UNICODE_CHAR) -> [cp |-> r.n, p |-> end]
          [] OTHER -> [cp |-> UNICODE_REPLACEMENT_CHAR, p |-> from]

-----------------------------------------------------------------------------
(* What these functions promise *)

\* Table 3-7 of the Unicode standard: what a character may be made of.
Utf8Forms ==
    LET More == 128 .. 191
    IN  {<<0 .. 127>>, <<194 .. 223, More>>,
         <<{224}, 160 .. 191, More>>, <<225 .. 236, More, More>>, <<{237}, 128 .. 159, More>>,
         <<{238, 239}, More, More>>, <<{240}, 144 .. 191, More, More>>,
         <<241 .. 243, More, More, More>>, <<{244}, 128 .. 143, More, More>>}

RECURSIVE IsUtf8(_)
IsUtf8(s) ==
    s = <<>> \/ \E f \in Utf8Forms :
        /\ Len(f) <= Len(s)
        /\ \A i \in 1 .. Len(f) : s[i] \in f[i]
        /\ IsUtf8(SubSeq(s, Len(f) + 1, Len(s)))

NothingBreaksOff(s) ==
    \A i \in 1 .. Len(s) : predict_length_of_codepoint_from_lead_byte(s[i]) > 0
                             => length_of_codepoint(s, i) > 0

\* is_well_formed_utf8() accepts what the standard allows and, unless a
\* character breaks off, nothing else. What is allowed is taken apart into as
\* many codepoints as its characters have first bytes, each of which is found,
\* by either way of stepping through the text.
TextIsTakenApart(s) ==
    /\ IsUtf8(s) => is_well_formed_utf8(s)
    /\ is_well_formed_utf8(s) /\ NothingBreaksOff(s) => IsUtf8(s)
    /\ IsUtf8(s) =>
         /\ count_codepoints_in_utf8(s) = Cardinality({i \in 1 .. Len(s) : ~is_utf8_continuation_byte(s[i])})
         /\ \A i \in 1 .. Len(s) : ~is_utf8_continuation_byte(s[i]) =>
              LET g == get_codepoint_from_utf8(s, i)
                  found == find_codepoint_in_utf8(s, g.cp)
              IN  /\ g.next = next_utf8_char_inline(s, i)
                  /\ g.next = i + length_of_codepoint(s, i)
                  /\ found \in 1 .. i /\ get_codepoint_from_utf8(s, found).cp = g.cp

\* A codepoint is written exactly if it fits, as UTF-8 or as an escape, and is
\* read back, and what is written never needs more than the room there is. There
\* are two exceptions: of an escape with \\u or \\U that leaves no room for a zero
\* behind it the last digit is replaced by one and yet it counts as written; and
\* cat_escape_sequence() writes into a buffer without any room.
CodepointIsKept(cp, room) ==
    LET utf8 == add_codepoint_to_utf8(room, cp)
        escape == add_escape_sequence(room, cp)
        either == add_utf8_or_escape_sequence(room, cp)
        Reads(s) == LET r == scan_unicode_escape_sequence(s, 2)
                    IN  s[1] = 92 /\ r.cp = cp /\ r.p = Len(s) + 1
        Kept(s, n) == IF cp > 127 /\ Len(s) = n
                        THEN Last(s) = 0 /\ \E digit \in Range(Hex(cp, 1)) : Reads(Append(Front(s), digit))
                        ELSE Reads(s)
    IN  /\ utf8.ok <=> room >= proper_length_of_codepoint(cp)
        /\ utf8.ok /\ cp > 0 => get_codepoint_from_utf8(utf8.out, 1) = [cp |-> cp, next |-> Len(utf8.out) + 1]
        /\ escape.ok => Kept(escape.out, room) \/ (cp = 0 /\ escape.out = <<92, 0>>)
        /\ either.ok => IF cp \in (32 .. 126) \ {92, 34, 39} THEN either.out = <<cp>> ELSE Kept(either.out, room)
        /\ \A r \in {escape, either, cat_codepoint_to_utf8(room, cp), cat_utf8_or_escape_sequence(room, cp)} :
             r.ok => Len(r.out) <= room
        /\ cat_escape_sequence(room, cp).ok => Len(cat_escape_sequence(room, cp).out) <= room \/ room = 0
        /\ room >= 11 => escape.ok /\ either.ok

\* Refuted: "true if buffer obeys all rules of utf8 formation" (unicode.h:84).
\* A character of three or four bytes that breaks off after its second or third
\* passes, because only a replacement after one byte counts as an error.
WellFormedIsUtf8(s) == is_well_formed_utf8(s) => IsUtf8(s)

\* Refuted: "Append the correct escape sequence for a particular unicode
\* codepoint." (unicode.h:177). In a buffer that it fills the last digit is lost,
\* and true is returned all the same (unicode.cpp:215-221, 268-270).
EscapeIsWhole(cp, room) ==
    LET r == add_utf8_or_escape_sequence(room, cp) IN r.ok => 0 \notin Range(r.out)

\* Refuted: "Number of bytes available in buf. Advanced if anything is written"
\* (unicode.h:140). Behind an escape there seems to be more room than before.
RoomShrinks(cp, room) ==
    LET r == add_escape_sequence(room, cp) IN r.ok => r.room = room - Len(r.out)

=============================================================================
