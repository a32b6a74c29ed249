------------------------------ MODULE Punycode ------------------------------
(***************************************************************************)
(* punycode_encode() and punycode_decode() of core/text, called without    *)
(* case flags.  maxint is the largest value of a punycode_uint; it is a    *)
(* parameter, so that the tests for overflow can be met with small         *)
(* numbers.  Characters of the output are numbers, too.                    *)
(***************************************************************************)
EXTENDS Integers, Sequences, SequencesExt, FiniteSetsExt

base == 36
tmin == 1
tmax == 26
skew == 38
damp == 700
initial_bias == 72
initial_n == 128
delimiter == 45

basic(cp) == cp < 128

decode_digit(cp) ==
    CASE cp \in 48 .. 57 -> cp - 22
      [] cp \in 65 .. 90 -> cp - 65
      [] cp \in 97 .. 122 -> cp - 97
      [] OTHER -> base

encode_digit(d) == IF d < 26 THEN d + 97 ELSE d + 22

RECURSIVE Scale(_, _)
Scale(delta, k) ==
    IF delta > ((base - tmin) * tmax) \div 2 THEN Scale(delta \div (base - tmin), k + base)
    ELSE k + ((base - tmin + 1) * delta) \div (delta + skew)

adapt(delta, numpoints, firsttime) ==
    LET d == IF firsttime THEN delta \div damp ELSE delta \div 2
    IN  Scale(d + d \div numpoints, 0)

\* How large the digit at k must be for another one to follow.
Threshold(k, bias) ==
    IF k <= bias THEN tmin ELSE IF k >= bias + tmax THEN tmax ELSE k - bias

\* delta as a generalized variable-length integer.
RECURSIVE EncodeInt(_, _, _)
EncodeInt(q, k, bias) ==
    LET t == Threshold(k, bias)
    IN  IF q < t THEN <<encode_digit(q)>>
        ELSE <<encode_digit(t + ((q - t) % (base - t)))>>
                \o EncodeInt((q - t) \div (base - t), k + base, bias)

\* The inner loop of the encoder, for one codepoint of the input.
EncodePoint(e, cp, b, maxint, max_out) ==
    LET delta == IF cp < e.n THEN e.delta + 1 ELSE e.delta
        digits == EncodeInt(delta, base, e.bias)
    IN  CASE e.status # "success" -> e
          [] e.status = "success" /\ delta > maxint -> [e EXCEPT !.status = "overflow"]
          [] e.status = "success" /\ delta <= maxint /\ cp # e.n -> [e EXCEPT !.delta = delta]
          [] OTHER -> IF Len(e.out) + Len(digits) > max_out THEN [e EXCEPT !.status = "big_output"]
                      ELSE [e EXCEPT !.out = @ \o digits, !.delta = 0, !.h = @ + 1,
                                     !.bias = adapt(delta, e.h + 1, e.h = b)]

\* Faulty variant: the distance to the next codepoint is added unguarded.
AdvanceUnguarded(e, m, maxint) == [e EXCEPT !.delta = (@ + (m - e.n) * (e.h + 1)) % (maxint + 1), !.n = m]

\* On to the next larger codepoint, m.
AdvanceTo(e, m, maxint) ==
    IF m - e.n > (maxint - e.delta) \div (e.h + 1) THEN [e EXCEPT !.status = "overflow"]
    ELSE [e EXCEPT !.delta = @ + (m - e.n) * (e.h + 1), !.n = m]

RECURSIVE EncodeLoop(_, _, _, _, _)
EncodeLoop(e, input, b, maxint, max_out) ==
    IF e.status # "success" \/ e.h >= Len(input) THEN e
    ELSE LET larger == {cp \in Range(input) : cp >= e.n}
             from == AdvanceTo(e, Min(larger), maxint)
             done == FoldLeft(LAMBDA x, cp : EncodePoint(x, cp, b, maxint, max_out), from, input)
         IN  EncodeLoop([done EXCEPT !.delta = @ + 1, !.n = @ + 1], input, b, maxint, max_out)

punycode_encode(input, maxint, max_out) ==
    LET plain == SelectSeq(input, basic)
        b == Len(plain)
        first == [n |-> initial_n, delta |-> 0, h |-> b, bias |-> initial_bias, status |-> "success",
                  out |-> IF b > 0 THEN Append(plain, delimiter) ELSE <<>>]
        last == EncodeLoop(first, input, b, maxint, max_out)
    IN  IF b > 0 /\ b + 1 > max_out THEN [status |-> "big_output", out |-> <<>>]
        ELSE [status |-> last.status, out |-> last.out]

-----------------------------------------------------------------------------

\* Reads one integer from d.in on and adds it to d.i.
RECURSIVE DecodeInt(_, _, _, _, _)
DecodeInt(d, input, w, k, maxint) ==
    LET digit == decode_digit(input[d.in])
        t == Threshold(k, d.bias)
        next == [d EXCEPT !.in = @ + 1, !.i = @ + digit * w]
    IN  CASE d.in > Len(input) -> [d EXCEPT !.status = "bad_input"]
          [] d.in <= Len(input) /\ digit >= base -> [d EXCEPT !.status = "bad_input"]
          [] d.in <= Len(input) /\ digit < base /\ digit > (maxint - d.i) \div w ->
               [d EXCEPT !.status = "overflow"]
          [] OTHER -> IF digit < t THEN next
                      ELSE IF w > maxint \div (base - t) THEN [d EXCEPT !.status = "overflow"]
                      ELSE DecodeInt(next, input, w * (base - t), k + base, maxint)

\* One codepoint goes into the output.
RECURSIVE DecodeLoop(_, _, _, _)
DecodeLoop(d, input, maxint, max_out) ==
    LET r == DecodeInt(d, input, 1, base, maxint)
        count == Len(d.out) + 1
        n == d.n + r.i \div count
        at == r.i % count
    IN  IF d.status # "success" \/ d.in > Len(input) THEN d
        ELSE IF r.status # "success" THEN r
        ELSE IF r.i \div count > maxint - d.n THEN [r EXCEPT !.status = "overflow"]
        ELSE IF Len(d.out) >= max_out THEN [r EXCEPT !.status = "big_output"]
        ELSE DecodeLoop([r EXCEPT !.bias = adapt(r.i - d.i, count, d.i = 0), !.n = n,
                                  !.out = InsertAt(@, at + 1, n), !.i = at + 1],
                        input, maxint, max_out)

punycode_decode(input, maxint, max_out) ==
    LET b == Max({1} \cup {j \in 1 .. Len(input) : input[j] = delimiter}) - 1
        first == [n |-> initial_n, i |-> 0, bias |-> initial_bias, status |-> "success",
                  out |-> SubSeq(input, 1, b), in |-> IF b > 0 THEN b + 2 ELSE 1]
        last == DecodeLoop(first, input, maxint, max_out)
    IN  CASE b > max_out -> [status |-> "big_output", out |-> <<>>]
          [] b <= max_out /\ \E j \in 1 .. b : ~basic(input[j]) -> [status |-> "bad_input", out |-> <<>>]
          [] OTHER -> [status |-> last.status, out |-> last.out]

-----------------------------------------------------------------------------
(* What these functions promise *)

\* A text that the encoder accepts is what the decoder makes of its encoding,
\* however close its codepoints come to maxint; one that would overflow is
\* refused. Of two buffers the smaller gives the same result or none.
PunycodeRoundTrip(text, maxint, room) ==
    LET e == punycode_encode(text, maxint, 99)
        small == punycode_encode(text, maxint, room)
    IN  /\ e.status \in {"success", "overflow"}
        /\ e.status = "success" =>
             punycode_decode(e.out, maxint, Len(text)) = [status |-> "success", out |-> text]
        /\ small.status = "success" => small = e /\ Len(e.out) <= room
        /\ small.status = "big_output" => Len(e.out) > room \/ e.status = "overflow"

=============================================================================
