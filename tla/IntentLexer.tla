---------------------------- MODULE IntentLexer -----------------------------
(***************************************************************************)
(* The Python front end, src/intent/lang: the generators of lex.py, the    *)
(* filter of parse.py that holds back lines with errors, and the parser.   *)
(* A text is a sequence of one-character strings, "n" being a line break   *)
(* and "t" a tab; offsets count from 0, as in the source.                  *)
(*                                                                         *)
(* A generator is a function from the state of the lexer, which holds the  *)
(* tokens that were yielded so far, to a new one.  status is "ok", or      *)
(* "raised" after an exception, or "hangs" in a loop that does not end.    *)
(***************************************************************************)
EXTENDS Integers, Sequences, SequencesExt, FiniteSetsExt

Skippable == {" ", "t", "r"}
At(text, i) == IF i < Len(text) THEN text[i + 1] ELSE "end"

skip_whitespace(text, i) ==
    IF i >= Len(text) THEN i
    ELSE Min({j \in i .. Len(text) : j = Len(text) \/ At(text, j) \notin Skippable})

LexState == [i |-> 0, indent |-> 0, line_num |-> 1, line_start |-> 0, stack |-> 0,
             toks |-> <<>>, status |-> "ok"]

Token(ls, ttype, begin, end) ==
    [ttype |-> ttype, begin |-> begin, end |-> end, line_num |-> ls.line_num,
     col |-> 1 + begin - ls.line_start]

Yield(ls, ttype, begin, end) == [ls EXCEPT !.toks = Append(@, Token(ls, ttype, begin, end))]
Raise(ls) == [ls EXCEPT !.status = "raised"]
Push(ls) == [ls EXCEPT !.stack = @ + 1]
Pop(ls) == [ls EXCEPT !.stack = @ - 1]

\* Faulty variant: the last character is cut off with the blanks.
BreakShort(text, any, i) ==
    LET begin == skip_whitespace(text, i)
        stop == Min({j \in begin .. Len(text) : j = Len(text) \/ At(text, j) \in any})
        solid == {j \in begin .. stop - 1 : At(text, j) \notin Skippable}
    IN  [ok |-> begin < Len(text), begin |-> begin, end |-> Max({begin} \cup solid),
         i |-> stop, c |-> At(text, stop)]

\* The text up to one of the characters of any, without the blanks around it. If
\* only blanks are left, three values are returned where four are unpacked.
break_on_any(text, any, i) ==
    LET begin == skip_whitespace(text, i)
        stop == Min({j \in begin .. Len(text) : j = Len(text) \/ At(text, j) \in any})
        solid == {j \in begin .. stop - 1 : At(text, j) \notin Skippable}
    IN  [ok |-> begin < Len(text), begin |-> begin, end |-> Max({begin} \cup {j + 1 : j \in solid}),
         i |-> stop, c |-> At(text, stop)]

\* The error that _hypertext() yields on its way out. There is never a remainder:
\* without a bracket the rest of the text has been consumed.
LexError(ls) == Yield(ls, "LEX_ERROR", ls.i, ls.i)

\* Behind the part b of a text; what it holds is yielded up to a place.
Told(ls, b, end) ==
    [IF b.begin < b.end THEN Yield(ls, "TEXT", b.begin, end) ELSE ls EXCEPT !.i = b.i]

\* Behind a divider: one more character is skipped, and the closing bracket is
\* not consumed.
Divider(text, ls) ==
    LET Closed(told, b) == IF b.c = "]" THEN Yield(told, "END_HYPERTEXT", b.begin, b.end) ELSE LexError(told)
        Label(after, b) == IF b.ok THEN Closed(Told(after, b, b.end), b) ELSE Raise(LexError(after))
        Behind(after) == IF after.i >= Len(text) THEN LexError(after)
                         ELSE Label(after, break_on_any(text, {"]"}, after.i))
    IN  Behind([Yield(ls, "HYPERTEXT_DIVIDER", ls.i, ls.i + 1) EXCEPT !.i = @ + 2])

\* The character behind the bracket is never looked at, so that every section is
\* an anchor. Line breaks do not end it.
RECURSIVE hypertext(_, _)
RECURSIVE HypertextRest(_, _)
hypertext(text, ls) ==
    Pop(HypertextRest(text, [Yield(Push(ls), "BEGIN_ANCHOR", ls.i, ls.i + 1) EXCEPT !.i = @ + 1]))

HypertextRest(text, ls) ==
    LET Behind(inner) == IF inner.status = "raised" THEN LexError(inner) ELSE HypertextRest(text, inner)
        Part(b, told) ==
            CASE b.c = "end" -> LexError(told)
              [] b.c = "|" -> Divider(text, told)
              [] b.c = "[" -> Behind(hypertext(text, told))
              [] b.c = "]" -> [Yield(told, "END_HYPERTEXT", b.i, b.i + 1) EXCEPT !.i = @ + 1]
        Found(b) == IF b.ok THEN Part(b, Told(ls, b, b.end)) ELSE Raise(LexError(ls))
    IN  IF ls.i >= Len(text) THEN LexError(ls) ELSE Found(break_on_any(text, {"[", "|", "]"}, ls.i))

RECURSIVE ParagraphFrom(_, _)
ParagraphFrom(text, ls) ==
    LET Behind(linked) == IF linked.status # "ok" \/ linked.i >= Len(text) THEN linked
                          ELSE ParagraphFrom(text, linked)
        Part(b) == IF ~b.ok THEN Raise(ls)
                   ELSE IF b.c = "[" THEN Behind(hypertext(text, Told(ls, b, b.i)))
                   ELSE Told(ls, b, b.end)
    IN  Part(break_on_any(text, {"[", "n"}, ls.i))

paragraph(text, ls) == Pop(ParagraphFrom(text, Push(ls)))

\* _name(), then what follows the colon. A semicolon ends the name and stays.
term(text, ls) ==
    LET Defined(pivot, def) == [Yield(pivot, "TEXT", def.begin, def.end) EXCEPT !.i = def.i]
        Behind(pivot) == IF At(text, pivot.i) \in {"n", "end"} THEN pivot
                         ELSE Defined(pivot, break_on_any(text, {"n"}, pivot.i))
        Pivot(named, i) == [Yield(named, "PIVOT_TERM", i, i + 1) EXCEPT !.i = skip_whitespace(text, i + 1)]
        Named(name, named) == IF name.c = ":" THEN Behind(Pivot(named, name.i)) ELSE named
        Name(name) == Named(name, [Yield(ls, "NAME", name.begin, name.end) EXCEPT !.i = name.i])
    IN  Name(break_on_any(text, {":", ";", "n"}, ls.i))

RECURSIVE YieldMany(_, _)
YieldMany(ls, spans) ==
    IF spans = <<>> THEN ls
    ELSE YieldMany(Yield(ls, Head(spans)[1], Head(spans)[2], Head(spans)[3]), Tail(spans))

\* Indents and dedents. n, which becomes the new indent, is counted down while
\* indents are yielded, so that the indent never grows.
account_indent(ls, tabs, from, k) ==
    LET in == [j \in 1 .. Max({0, tabs - ls.indent}) |-> <<"INDENT", from + j - 1, from + j>>]
        out == [j \in 1 .. Max({0, ls.indent - tabs}) |-> <<"DEDENT", k, k>>]
    IN  [YieldMany(ls, out \o in) EXCEPT !.indent = Min({tabs, ls.indent})]

\* What a line holds beyond its white space, from k on.
LineBody(text, ls, k) ==
    LET Dashed(dash) == IF dash.i >= Len(text) THEN dash ELSE term(text, dash)
    IN  IF At(text, k) # "-" THEN paragraph(text, [Yield(ls, "BEGIN_PARA", k, k) EXCEPT !.i = k])
        ELSE Dashed([Yield(ls, "BEGIN_TERM", k, k + 1) EXCEPT !.i = skip_whitespace(text, k + 1)])

LineEnd(text, ls) ==
    IF ls.status = "ok" /\ At(text, ls.i) = "n"
      THEN [Yield(ls, "END_LINE", ls.i, ls.i + 1) EXCEPT !.i = @ + 1] ELSE ls

\* _line(). _fragment_is_next() does not advance, so that a blank in the first
\* place, or behind the tabs, is compared for ever.
line(text, from) ==
    LET Body(ls, tabs, k) == IF At(text, k) \in {"n", "end"} THEN [ls EXCEPT !.i = k]
                             ELSE LineBody(text, account_indent(ls, tabs, ls.i, k), k)
        Indented(ls, tabs) ==
            IF At(text, ls.i + tabs) = " " THEN [ls EXCEPT !.status = "hangs"]
            ELSE [Pop(LineEnd(text, Body(ls, tabs, skip_whitespace(text, ls.i + tabs))))
                    EXCEPT !.line_num = @ + 1]
    IN  Indented([Push(from) EXCEPT !.line_start = from.i],
                 Min({j \in 0 .. Len(text) : At(text, from.i + j) # "t"}))

RECURSIVE LinesFrom(_, _)
LinesFrom(text, ls) ==
    IF ls.status # "ok" \/ ls.i >= Len(text) THEN ls ELSE LinesFrom(text, line(text, ls))

lex(text) ==
    LET Ended(ls) == IF ls.status = "ok" THEN Yield(ls, "END_DOC", Len(text), Len(text)) ELSE ls
    IN  Ended(LinesFrom(text, Yield(LexState, "BEGIN_DOC", 0, 0)))

-----------------------------------------------------------------------------
(* parse.py *)

ends_line(t) == t.ttype \in {"END_LINE", "END_DOC"}
NoToken == [ttype |-> "none"]

\* Faulty variant: the tokens of a line stay pending when it ends.
CheckedAgain(st, t) ==
    CASE ends_line(t) ->
           [st EXCEPT !.out = Append(IF st.error # NoToken THEN Append(@, st.error) ELSE @ \o st.pending, t)]
      [] t.ttype = "LEX_ERROR" -> [st EXCEPT !.error = t]
      [] OTHER -> [st EXCEPT !.pending = Append(@, t)]

\* One token through the filter. error_on_line is not reset with the line.
Checked(st, t) ==
    CASE ends_line(t) ->
           [st EXCEPT !.out = Append(IF st.error # NoToken THEN Append(@, st.error) ELSE @ \o st.pending, t),
                      !.pending = <<>>]
      [] t.ttype = "LEX_ERROR" -> [st EXCEPT !.error = t]
      [] OTHER -> [st EXCEPT !.pending = Append(@, t)]

\* If the lexer raises, what is pending is never yielded.
syntax_checked_token_stream(ls) ==
    LET Ended(st) == IF ls.status = "ok" THEN st.out \o st.pending ELSE st.out
    IN  Ended(FoldLeft(Checked, [pending |-> <<>>, error |-> NoToken, out |-> <<>>], ls.toks))

\* The parser: nodes and what became of it. toks are the tokens still to come,
\* and a stream that ends too early is a syntax error.
Stop(st, how) == [st EXCEPT !.status = how, !.toks = <<>>]

\* A Paragraph takes text and anchors up to the end of the line; anything else
\* raises.
RECURSIVE Paragraph(_)
Paragraph(st) ==
    LET t == Head(st.toks)
        rest == [st EXCEPT !.toks = Tail(@)]
    IN  CASE st.toks = <<>> -> st
          [] st.toks # <<>> /\ ends_line(t) -> rest
          [] st.toks # <<>> /\ t.ttype = "TEXT" -> Paragraph(rest)
          [] st.toks # <<>> /\ t.ttype = "BEGIN_ANCHOR" ->
               IF Len(rest.toks) < 2 THEN Stop(st, "incomplete")
               ELSE IF rest.toks[2].ttype # "END_HYPERTEXT" THEN Stop(st, "raised")
               ELSE Paragraph([rest EXCEPT !.toks = SubSeq(@, 3, Len(@))])
          [] OTHER -> Stop(st, "raised")

\* A Term takes a name, a pivot and one token more, whatever it is.
Term(st) ==
    IF Len(st.toks) >= 2 /\ st.toks[2].ttype # "PIVOT_TERM" THEN Stop(st, "raised")
    ELSE IF Len(st.toks) < 3 THEN Stop(st, "incomplete")
    ELSE [st EXCEPT !.toks = SubSeq(@, 4, Len(@))]

RECURSIVE ParseFrom(_)
ParseFrom(st) ==
    LET t == Head(st.toks)
        rest == [st EXCEPT !.toks = Tail(@)]
        Node(n) == IF n.status = "ok" THEN [n EXCEPT !.nodes = Append(@, t)] ELSE n
    IN  CASE st.toks = <<>> -> st
          [] st.toks # <<>> /\ t.ttype = "BEGIN_PARA" -> ParseFrom(Node(Paragraph(rest)))
          [] st.toks # <<>> /\ t.ttype = "BEGIN_TERM" -> ParseFrom(Node(Term(rest)))
          [] st.toks # <<>> /\ t.ttype = "LEX_ERROR" -> ParseFrom(Node(rest))
          [] st.toks # <<>> /\ ends_line(t) -> ParseFrom(rest)
          [] OTHER -> Stop(st, "raised")

ParseTokens(st) ==
    IF st.toks = <<>> THEN Stop(st, "incomplete")
    ELSE IF Head(st.toks).ttype # "BEGIN_DOC" THEN Stop(st, "raised")
    ELSE ParseFrom([st EXCEPT !.toks = Tail(@)])

\* parse_text(), on what the lexer yields for it.
parse_text(ls) ==
    LET Ended(st) == IF st.status = "ok" THEN [st EXCEPT !.status = ls.status] ELSE st
    IN  Ended(ParseTokens([nodes |-> <<>>, status |-> "ok", toks |-> syntax_checked_token_stream(ls)]))

-----------------------------------------------------------------------------
(* What the front end promises of one text *)

Count(toks, types) == Cardinality({i \in DOMAIN toks : toks[i].ttype \in types})

\* A line that begins with a blank, perhaps behind tabs.
BlankBegins(text) ==
    \E i, j \in 0 .. Len(text) - 1 :
        /\ i <= j /\ (i = 0 \/ At(text, i - 1) = "n")
        /\ At(text, j) = " " /\ \A k \in i .. j - 1 : At(text, k) = "t"

\* Without brackets the lexer comes to the end of a text, unless a line begins
\* with a blank, where it does not come back; only with brackets may it raise.
\* Tokens come in the order of the text and stay within it. As long as no divider
\* is met, each character of the text is in one token at most and, unless the
\* lexer stops early, the letters are each in one. Every section that is opened
\* is closed or reported, and the stack of states is empty in the end.
TextBecomesTokens(text) ==
    LET Holding(ls, i) == Cardinality({k \in DOMAIN ls.toks : ls.toks[k].begin <= i /\ i < ls.toks[k].end})
    IN  \E ls \in {lex(text)} :
          /\ "[" \notin Range(text) => ls.status = IF BlankBegins(text) THEN "hangs" ELSE "ok"
          /\ ls.status = "hangs" => BlankBegins(text)
          /\ \A t \in Range(ls.toks) : t.begin <= t.end
          /\ \A k \in 2 .. Len(ls.toks) : ls.toks[k].ttype # "END_DOC" => ls.toks[k - 1].begin <= ls.toks[k].begin
          /\ "|" \notin Range(text) => \A i \in 0 .. Len(text) - 1 :
               Holding(ls, i) \in (IF ls.status = "ok" /\ At(text, i) = "a" THEN {1} ELSE 0 .. 1)
          /\ Count(ls.toks, {"BEGIN_ANCHOR"}) = Count(ls.toks, {"END_HYPERTEXT", "LEX_ERROR"})
          /\ ls.status = "ok" => ls.stack = 0

Errors(ls) == SelectSeq(ls.toks, LAMBDA t : t.ttype = "LEX_ERROR")
GoodLines(ls, errors) == SelectSeq(ls.toks, LAMBDA t : \A e \in Range(errors) : t.line_num # e.line_num)

\* A text that the parser understands all of: no brackets, no indents, and a
\* colon in each line that begins with a dash.
IsPlain(text) ==
    LET Begins(i) == i = 0 \/ At(text, i - 1) = "n"
    IN  /\ {"[", "t"} \cap Range(text) = {} /\ ~BlankBegins(text)
        /\ \A i \in 0 .. Len(text) - 1 : Begins(i) /\ At(text, i) = "-" =>
             \E j \in i .. Len(text) - 1 : At(text, j) = ":" /\ \A k \in i .. j : At(text, k) # "n"

\* A plain text is parsed to its end. An error in the first line makes the parser
\* raise before the first node.
\* The filter passes on the tokens of all lines but those with an error, once
\* and in order, and what is parsed to its end gives one node for each paragraph
\* and each term. If a section is left open, the line it began in is one error
\* instead: the filter never forgets an error, and yet hides no other line,
\* because an open section reaches to the end of the text.
LinesBecomeNodes(text) ==
    LET Nodes(good, errors) ==
            SelectSeq(good, LAMBDA t : t.ttype \in {"BEGIN_PARA", "BEGIN_TERM"})
              \o (IF errors = <<>> THEN <<>> ELSE <<Last(errors)>>)
        Right(ls, parsed, errors, good) ==
            /\ ls.status = "ok" =>
                 SelectSeq(syntax_checked_token_stream(ls), LAMBDA t : t.ttype # "LEX_ERROR") = good
            /\ parsed.status = "ok" => parsed.nodes = Nodes(good, errors)
            /\ IsPlain(text) => parsed.status = "ok"
            /\ ls.status = "ok" /\ errors # <<>> /\ Last(errors).line_num = 1 =>
                 parsed.status = "raised" /\ parsed.nodes = <<>>
    IN  \E ls \in {lex(text)} : Right(ls, parse_text(ls), Errors(ls), GoodLines(ls, Errors(ls)))

\* Refuted: "set ls.indent to detected value" (lex.py:54); the indent never grows.
IndentIsDetected(text) ==
    \E ls \in {lex(text)} :
        ls.status = "ok" /\ Count(ls.toks, {"INDENT"}) > 0 =>
            ls.indent = Min({j \in 0 .. Len(text) : At(text, ls.line_start + j) # "t"})

\* Refuted: that every text is lexed to its end; one blank at the start of a line
\* suffices (lex.py:13).
EveryTextIsLexed(text) == lex(text).status # "hangs"

\* Refuted: "they only have to deal with parsing problems, not lexer problems"
\* (parse.py:28). With the tokens of the first line its filter holds back the
\* one that begins the document, and the parser raises.
FirstLineMayBeBad(text) ==
    \E ls \in {lex(text)} :
        ls.status = "ok" /\ Errors(ls) # <<>> => parse_text(ls).status # "raised"

=============================================================================
