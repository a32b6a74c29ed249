------------------------------ MODULE TextWrap ------------------------------
(***************************************************************************)
(* wrap_lines() of core/text: text is broken into lines that fit a         *)
(* terminal.  A text is a sequence of bytes: "x" stands for any visible    *)
(* character of one byte or the first byte of a longer one, "c" for a      *)
(* continuation byte, "n" and "r" for line feed and carriage return.       *)
(* Positions count from 1, so that the end of the input is Len(s) + 1.     *)
(***************************************************************************)
EXTENDS Integers, Sequences, FiniteSetsExt

NoWrap == 0
MaxIndent == 64
Breaks == {"n", "r"}

\* The next glyph, which for the last one is the end.
next_utf8_char(s, ptr) ==
    Min({i \in ptr + 1 .. Len(s) + 2 : i > Len(s) \/ s[i] # "c"})

\* Faulty variant: a run of hyphens may go beyond the last column.
HyphenRunTooLong(s, ptr, most) ==
    Max({k \in 0 .. most + 2 : \A i \in ptr .. ptr + k - 1 : i <= Len(s) /\ s[i] = "-"})

\* How many hyphens follow from ptr on, but no more than most.
HyphenRun(s, ptr, most) ==
    Max({k \in 0 .. most : \A i \in ptr .. ptr + k - 1 : i <= Len(s) /\ s[i] = "-"})

\* Hyphens: a pair stays together, of a longer run as many as fit, and the line
\* is broken behind them. The caller then steps over one more character, unseen.
find_best_hyphen_wrap(s, st, width) ==
    LET Hyphen(i) == i <= Len(s) /\ s[i] = "-"
        double == Hyphen(st.ptr + 1)
        many == Hyphen(st.ptr - 1) \/ (double /\ Hyphen(st.ptr + 2))
        To(n) == [st EXCEPT !.ptr = @ + n, !.len = @ + n, !.wrap = st.ptr + n]
    IN  IF many THEN To(HyphenRun(s, st.ptr, width - st.len))
        ELSE IF ~double THEN To(1)
        ELSE IF st.len < width - 1 THEN To(2)
        ELSE [st EXCEPT !.len = @ + 2]

\* The first visible character of a line sets the indent of the lines that
\* continue it.
SeeVisible(st) ==
    [st EXCEPT !.seen = TRUE,
               !.indent = IF st.ptr > st.p THEN Min({MaxIndent, st.ptr - st.p}) ELSE @]

\* A line break in the text ends the line; one that has nothing visible is
\* emptied. CR LF counts as one.
HardBreak(s, st, delim, width) ==
    [st EXCEPT !.out = (IF st.seen THEN @ \o SubSeq(s, st.p, st.ptr - 1) ELSE @) \o delim,
               !.ptr = IF s[@] = "r" /\ @ < Len(s) /\ s[@ + 1] = "n" THEN @ + 1 ELSE @,
               !.indent = 0, !.len = width, !.soft = FALSE]

\* One turn of the inner loop.
SeeChar(s, st, delim, width) ==
    LET c == s[st.ptr]
        last == st.len = width
    IN  CASE c = " " -> IF st.seen THEN [st EXCEPT !.wrap = st.ptr] ELSE st
          [] c \in Breaks -> HardBreak(s, st, delim, width)
          [] c \notin {" "} \cup Breaks /\ last -> [st EXCEPT !.ptr = @ - 1]
          [] c = "-" /\ ~last /\ st.seen -> find_best_hyphen_wrap(s, st, width)
          [] OTHER -> IF st.seen THEN st ELSE SeeVisible(st)

RECURSIVE ScanLine(_, _, _, _)
ScanLine(s, st, delim, width) ==
    IF st.len > width \/ st.ptr > Len(s) THEN st
    ELSE LET seen == SeeChar(s, st, delim, width)
         IN  ScanLine(s, [seen EXCEPT !.ptr = next_utf8_char(s, @), !.len = @ + 1], delim, width)

\* The first place from i on that is no blank.
SkipBlanks(s, i) == Min({j \in i .. Len(s) + 1 : j = Len(s) + 1 \/ s[j] # " "})

\* The line is broken at the best place that was found or, for want of one,
\* where the scan stopped; the next line is indented like this one.
insert_soft_wrap(s, st, delim) ==
    LET at == IF st.wrap = NoWrap THEN st.ptr ELSE st.wrap
    IN  [st EXCEPT !.out = @ \o SubSeq(s, st.p, at - 1) \o delim \o [i \in 1 .. st.indent |-> " "],
                   !.len = st.indent + 1,
                   !.ptr = SkipBlanks(s, at)]

\* The outer loop, one line of the output at a time; fuel bounds the number of
\* lines, and the result says whether it sufficed.
RECURSIVE WrapFrom(_, _, _, _, _)
WrapFrom(s, st, delim, width, fuel) ==
    LET rest == Len(s) + 1 - st.p
        line == ScanLine(s, [st EXCEPT !.ptr = st.p, !.wrap = NoWrap, !.seen = FALSE,
                                       !.soft = TRUE], delim, width)
        done == IF line.ptr = Len(s) + 1 /\ line.len < width
                  THEN [line EXCEPT !.out = @ \o SubSeq(s, line.p, line.ptr - 1)]
                ELSE IF line.soft THEN insert_soft_wrap(s, line, delim)
                ELSE [line EXCEPT !.len = 1]
    IN  IF rest <= 0 THEN [out |-> st.out, ended |-> TRUE]
        ELSE IF rest + st.len - 1 < width
               THEN [out |-> st.out \o SubSeq(s, st.p, Len(s)), ended |-> TRUE]
        ELSE IF fuel = 0 THEN [out |-> st.out, ended |-> FALSE]
        ELSE WrapFrom(s, [done EXCEPT !.p = done.ptr], delim, width, fuel - 1)

wrap_lines(s, width, delim) ==
    WrapFrom(s, [p |-> 1, ptr |-> 1, len |-> 1, wrap |-> NoWrap, seen |-> FALSE,
                 soft |-> TRUE, indent |-> 0, out |-> <<>>], delim, width, Len(s) + 1)

-----------------------------------------------------------------------------
(* What wrap_lines() promises of one text *)

\* Wrapping ends, after no more lines than the text has characters; it keeps
\* every visible character, in order; and no glyph is put beyond the column
\* before the last ("guarantees we never exceed the specified line length",
\* wrap_lines.cpp:58).
WrapsWell(s, width) ==
    LET w == wrap_lines(s, width, <<"n">>)
        Visible(t) == SelectSeq(t, LAMBDA c : c \notin {" "} \cup Breaks)
        Column(i) == LET from == Max({0} \cup {j \in 1 .. i - 1 : w.out[j] \in Breaks})
                     IN  Cardinality({j \in from + 1 .. i : w.out[j] # "c"})
    IN  /\ w.ended
        /\ Visible(w.out) = Visible(s)
        /\ \A i \in 1 .. Len(w.out) : w.out[i] \notin {" "} \cup Breaks => Column(i) < width

=============================================================================
