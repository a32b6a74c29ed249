----------------------------- MODULE LexerTokens -----------------------------
(***************************************************************************)
(* lang/lexer.cpp: the tokens within one line, which Lexer leaves out.     *)
(* Operators are found by looking up to three characters ahead; numbers by *)
(* get_number_token(), a copy of scan_number() that has drifted from it.   *)
(* The text is followed by a zero byte, as strings are.  "q" is the        *)
(* apostrophe, which stands for the three quotes; escapes are left out.    *)
(***************************************************************************)
EXTENDS Integers, Sequences, FiniteSets, TLC, NumberScan

\* operator.tuples: the operators and how they are spelled.
Operators ==
    {<<"paren", "(">>, <<"close_paren", ")">>, <<"dot", ".">>, <<"safe_dot", "?", ".">>,
     <<"spread", "*", ".">>, <<"brace", "[">>, <<"safe_subscript", "?", "[">>,
     <<"safe_empty", "[", "?">>, <<"safe_subscript_safe_empty", "?", "[", "?">>,
     <<"close_brace", "]">>, <<"positive_mark", "+", "<">>, <<"negative_mark", "-", "<">>,
     <<"double_positive_mark", "+", "+", "<">>, <<"double_negative_mark", "-", "-", "<">>,
     <<"bit_not", "~">>, <<"bool_not", "!">>, <<"star", "*">>, <<"slash", "/">>, <<"mod", "%">>,
     <<"plus", "+">>, <<"minus", "-">>, <<"increment", "+", "+">>, <<"decrement", "-", "-">>,
     <<"lshift", "<", "<">>, <<"rshift", ">", ">">>, <<"unsigned_rshift", ">", ">", ">">>,
     <<"greater", ">">>, <<"less", "<">>, <<"greater_equal", ">", "=">>, <<"less_equal", "<", "=">>,
     <<"instance_of", ":", ":">>, <<"bool_equal", "=", "=">>, <<"not_equal", "!", "=">>,
     <<"spaceship", "<", "=", ">">>, <<"qspaceship", "?", "<", "=", ">">>,
     <<"spaceshipq", "<", "=", ">", "?">>, <<"in", "-", "[">>, <<"not_in", "!", "-", "[">>,
     <<"bit_and", "&">>, <<"bit_xor", "^">>, <<"bit_or", "|">>, <<"bool_and", "&", "&">>,
     <<"bool_or", "|", "|">>, <<"ternary", "?">>, <<"elvis", "?", ":">>, <<"colon", ":">>,
     <<"gets", ":", "=">>, <<"assign_equals", "=">>, <<"plus_equals", "+", "=">>,
     <<"minus_equals", "-", "=">>, <<"times_equals", "*", "=">>, <<"divide_equals", "/", "=">>,
     <<"mod_equals", "%", "=">>, <<"bit_and_equals", "&", "=">>, <<"bit_xor_equals", "^", "=">>,
     <<"bit_or_equals", "|", "=">>, <<"lshift_equals", "<", "<", "=">>,
     <<"rshift_equals", ">", ">", "=">>, <<"comma", ",">>}

Blanks == {" ", "t"}
IsAlpha(c) == c \in {"a", "b", "e", "x", "A"}
IsDecimal(c) == IsDigit(c, 10)

\* A token of a type that ends before place e; numbers have a value.
Token(type, e) == [type |-> type, e |-> e, value |-> <<>>]

consume(p, char_count, type) == Token(type, p + char_count)

\* The second character decides, if it is one of those in next.
Second(s, p, next, alone) ==
    IF CharAt(s, p + 1) \in DOMAIN next THEN consume(p, 2, next[CharAt(s, p + 1)])
    ELSE consume(p, 1, alone)
-----------------------------------------------------------------------------
\* get_number_token(), in the steps of scan_number(). The digits behind a leading
\* point are read; as there, the digits before an exponent count only behind a
\* point, and the sign of a fraction only before an exponent.
WholePart(s, from, negative) ==
    (IF CharAt(s, from) = "." THEN [p |-> from, n |-> 0] ELSE scan_digits(s, from, 10))
      @@ [type |-> "decimal", negative |-> negative, float |-> 0]

BehindPoint(s, w) ==
    LET To(r) == [w EXCEPT !.p = r.p, !.type = "float", !.float = Hundred * w.n + r.n]
    IN  IF CharAt(s, w.p) = "." THEN To(scan_decimal_digits_post_radix(s, w.p + 1)) ELSE w

BehindExponent(s, w) ==
    LET Power(e) == IF e.negative THEN w.float \div 10^e.n ELSE w.float * 10^e.n
        To(e) == [w EXCEPT !.p = e.p, !.type = "float",
                           !.float = IF w.negative THEN -Power(e) ELSE Power(e)]
    IN  IF w.p + 1 <= Len(s) /\ s[w.p] = "e" THEN To(scan_decimal_number(s, w.p + 1)) ELSE w

\* set_possibly_signed_value(), and the value of a fraction
NumberToken(w) ==
    [type |-> w.type, e |-> w.p, value |-> IF w.type = "float" THEN w.float ELSE Signed(w)]

NumberFrom(s, from, base, negative) ==
    NumberToken(
        IF base = "none" THEN BehindExponent(s, BehindPoint(s, WholePart(s, from, negative)))
        ELSE scan_digits(s, from + 2, Radix(base)) @@ [type |-> base, negative |-> negative])

get_number_token(s, p) ==
    LET Number(from) == NumberFrom(s, from, Prefixed(s, from), s[p] = "-")
    IN  Number(IF s[p] \in {"+", "-"} THEN p + 1 ELSE p)
-----------------------------------------------------------------------------
\* Faulty variant: an operator of three characters is not recognized at the end.
LessBeforeMore(s, p) ==
    CASE CharAt(s, p + 1) = "<" /\ CharAt(s, p + 2) = "=" -> consume(p, 3, "lshift_equals")
      [] CharAt(s, p + 1) = "=" /\ CharAt(s, p + 2) = ">" /\ p + 3 <= Len(s) ->
           IF CharAt(s, p + 3) = "?" THEN consume(p, 4, "spaceshipq") ELSE consume(p, 3, "spaceship")
      [] OTHER -> Second(s, p, "<" :> "lshift" @@ "=" :> "less_equal", "less")

scan_lt(s, p) ==
    CASE CharAt(s, p + 1) = "<" /\ CharAt(s, p + 2) = "=" -> consume(p, 3, "lshift_equals")
      [] CharAt(s, p + 1) = "=" /\ CharAt(s, p + 2) = ">" ->
           IF CharAt(s, p + 3) = "?" THEN consume(p, 4, "spaceshipq") ELSE consume(p, 3, "spaceship")
      [] OTHER -> Second(s, p, "<" :> "lshift" @@ "=" :> "less_equal", "less")

scan_gt(s, p) ==
    CASE CharAt(s, p + 1) = ">" /\ CharAt(s, p + 2) = "=" -> consume(p, 3, "rshift_equals")
      [] CharAt(s, p + 1) = ">" /\ CharAt(s, p + 2) = ">" -> consume(p, 3, "unsigned_rshift")
      [] OTHER -> Second(s, p, ">" :> "rshift" @@ "=" :> "greater_equal", "greater")

scan_question(s, p) ==
    CASE CharAt(s, p + 1) = "[" /\ CharAt(s, p + 2) = "?" ->
           consume(p, 3, "safe_subscript_safe_empty")
      [] CharAt(s, p + 1) = "<" /\ CharAt(s, p + 2) = "=" /\ CharAt(s, p + 3) = ">" ->
           consume(p, 4, "qspaceship")
      [] OTHER -> Second(s, p, "." :> "safe_dot" @@ "[" :> "safe_subscript" @@ ":" :> "elvis", "ternary")

scan_minus(s, p) ==
    CASE CharAt(s, p + 1) = "-" /\ CharAt(s, p + 2) = "<" -> consume(p, 3, "double_negative_mark")
      [] IsDecimal(CharAt(s, p + 1)) -> get_number_token(s, p)
      [] OTHER -> Second(s, p, "-" :> "decrement" @@ "=" :> "minus_equals" @@ "[" :> "in"
                                 @@ "<" :> "negative_mark", "minus")

scan_plus(s, p) ==
    CASE CharAt(s, p + 1) = "+" /\ CharAt(s, p + 2) = "<" -> consume(p, 3, "double_positive_mark")
      [] IsDecimal(CharAt(s, p + 1)) -> get_number_token(s, p)
      [] OTHER -> Second(s, p, "+" :> "increment" @@ "=" :> "plus_equals" @@ "<" :> "positive_mark", "plus")

scan_bang(s, p) ==
    IF CharAt(s, p + 1) = "-" /\ CharAt(s, p + 2) = "[" THEN consume(p, 3, "not_in")
    ELSE Second(s, p, "=" :> "not_equal", "bool_not")

scan_dot(s, p) ==
    IF IsDecimal(CharAt(s, p + 1)) THEN get_number_token(s, p) ELSE consume(p, 1, "dot")

scan_brace(s, p) == Second(s, p, "?" :> "safe_empty", "brace")
scan_colon(s, p) == Second(s, p, "=" :> "gets" @@ ":" :> "instance_of", "colon")
scan_star(s, p) == Second(s, p, "." :> "spread" @@ "=" :> "times_equals", "star")
scan_slash(s, p) == Second(s, p, "=" :> "divide_equals", "slash")
scan_amper(s, p) == Second(s, p, "&" :> "bool_and" @@ "=" :> "bit_and_equals", "bit_and")
scan_equals(s, p) == Second(s, p, "=" :> "bool_equal", "assign_equals")
scan_pipe(s, p) == Second(s, p, "|" :> "bool_or" @@ "=" :> "bit_or_equals", "bit_or")
scan_caret(s, p) == Second(s, p, "=" :> "bit_xor_equals", "bit_xor")
scan_percent(s, p) == Second(s, p, "=" :> "mod_equals", "mod")

\* A comment looks for its continuation behind the end of the line, and in the
\* last line ends there: one place beyond the end of the text.
scan_hash(s, p) ==
    Token(IF CharAt(s, p + 1) = "#" /\ CharAt(s, p + 2) = "#" THEN "doc_comment" ELSE "comment", Len(s) + 2)

\* Ends behind the closing quote, or with the text; that is no error.
scan_quote(s, p) ==
    Token("quoted_string", Min({q + 1 : q \in {i \in p + 1 .. Len(s) : s[i] = "q"}} \cup {Len(s) + 1}))

\* Blanks behind the last word are part of the phrase.
get_phrase_token(s, p) ==
    Token(IF s[p] = "A" THEN "verb" ELSE "noun",
          Min({q \in p .. Len(s) + 1 : q = Len(s) + 1 \/ ~(IsAlpha(s[q]) \/ IsDecimal(s[q]) \/ s[q] \in {"q", " "})}))

\* The token at p: advance() without the layout.
TokenAt(s, p) ==
    LET c == s[p]
    IN  CASE c = "<" -> scan_lt(s, p) [] c = ">" -> scan_gt(s, p) [] c = "?" -> scan_question(s, p)
          [] c = "." -> scan_dot(s, p) [] c = "=" -> scan_equals(s, p) [] c = "~" -> consume(p, 1, "bit_not")
          [] c = "[" -> scan_brace(s, p) [] c = "]" -> consume(p, 1, "close_brace")
          [] c = "(" -> consume(p, 1, "paren") [] c = ")" -> consume(p, 1, "close_paren")
          [] c = "/" -> scan_slash(s, p) [] c = "%" -> scan_percent(s, p) [] c = "*" -> scan_star(s, p)
          [] c = "&" -> scan_amper(s, p) [] c = "!" -> scan_bang(s, p) [] c = "|" -> scan_pipe(s, p)
          [] c = "^" -> scan_caret(s, p) [] c = "#" -> scan_hash(s, p) [] c = "q" -> scan_quote(s, p)
          [] c = "-" -> scan_minus(s, p) [] c = "+" -> scan_plus(s, p) [] c = ":" -> scan_colon(s, p)
          [] c = "," -> consume(p, 1, "comma")
          [] IsAlpha(c) -> get_phrase_token(s, p) [] IsDecimal(c) -> get_number_token(s, p)
          [] OTHER -> Token("error", p + 1)

\* All calls of advance() from place p on, until it returns false.
RECURSIVE AdvanceFrom(_, _)
AdvanceFrom(s, p) ==
    LET Found(t) == <<[b |-> p] @@ t>> \o AdvanceFrom(s, t.e)
    IN  IF p > Len(s) THEN <<>>
        ELSE IF s[p] \in Blanks THEN AdvanceFrom(s, p + 1) ELSE Found(TokenAt(s, p))

advance(s) == AdvanceFrom(s, 1)
-----------------------------------------------------------------------------
Formats == {"decimal", "hex", "binary", "octal", "float"}
Fits(s, p, spelling) ==
    p + Len(spelling) - 1 <= Len(s) /\ \A i \in 1 .. Len(spelling) : s[p + i - 1] = spelling[i]

\* An operator is the longest one that fits, at the end of the text as well.
LongestOperator(s, t) ==
    LET ops == {o \in Operators : Fits(s, t.b, Tail(o))}
    IN  \A o \in Operators : Head(o) = t.type =>
          /\ o \in ops /\ t.e = t.b + Len(o) - 1
          /\ \A longer \in ops : Len(longer) <= Len(o)

\* A number is the one that scan_number() finds there.
SameNumber(t, info) ==
    /\ info.p = t.e - t.b + 1 /\ info.format = t.type
    /\ t.value = IF t.type = "float" THEN info.float ELSE Signed(info)

\* A token is read for each part of a text that is not blank, in order and
\* within the text, but a comment ends one place beyond it; each
\* operator is the longest one that fits; and a number is the one that
\* scan_number() finds there, unless it begins with a point.
TextBecomesTokens(s) ==
    LET Right(ts, i, t) ==
            /\ t.e > t.b
            /\ t.e = Len(s) + 2 \/ t.e <= Len(s) + 1
            /\ t.e = Len(s) + 2 <=> t.type \in {"comment", "doc_comment"}
            /\ \A q \in t.e .. (IF i < Len(ts) THEN ts[i + 1].b ELSE Len(s) + 1) - 1 : s[q] \in Blanks
            /\ LongestOperator(s, t)
            /\ t.type \in Formats /\ s[t.b] # "." =>
                 SameNumber(t, scan_number(SubSeq(s, t.b, Len(s)), Formats))
    IN  \E ts \in {advance(s)} :
          /\ \A i \in DOMAIN ts : Right(ts, i, ts[i])
          /\ ts = <<>> => \A q \in DOMAIN s : s[q] \in Blanks

\* Refuted: a token ends within the text; a comment in the last line does not.
TokensAreWithinText(s) == \A t \in Range(advance(s)) : t.e <= Len(s) + 1

\* Refuted: what get_number_token() reads, scan_number() reads; .5 is 0 for it.
NumbersHaveOneValue(s) ==
    \A t \in Range(advance(s)) : t.type = "float" =>
        t.value = scan_number(SubSeq(s, t.b, Len(s)), Formats).float

=============================================================================
