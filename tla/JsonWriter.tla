----------------------------- MODULE JsonWriter -----------------------------
(***************************************************************************)
(* core/data/json/writer.cpp: fast_writer, styled_writer,                  *)
(* styled_stream_writer and the writer of stream_writer_builder. Each is   *)
(* the function from a tree to a text that it computes. A run of blanks is *)
(* one "sp", so that an indentation is there or not; the length of a line  *)
(* is counted in lexemes. The three styled writers are copies of each      *)
(* other in the code and are translated one by one.                        *)
(***************************************************************************)
EXTENDS JsonText

CONSTANT RightMargin    \* 74: right_margin_

ASSUME RightMarginAssumption == RightMargin \in Nat

\* Array elements by index, and get_member_names(), in the order of the map.
Elements(t, p) == [i \in 1 .. Cardinality(Keys(t, p)) |-> ToString(i - 1)]
Members(t, p) == SelectSeq(NameOrder, LAMBDA name : name \in Keys(t, p))

has_comment(t, p, placement) == t[p].com[placement] # << >>
has_comment_for_value(t, p) == \E c \in DOMAIN NoComments : has_comment(t, p, c)

\* Pieces with a separator between them.
Joined(pieces, separator) ==
    FlattenSeq([i \in 1 .. Len(pieces) |->
        IF i = 1 THEN pieces[i] ELSE separator \o pieces[i]])

\* as_cstring() and c_str(), where a text ends at its first zero byte.
CString(text) == IF text = "a0" THEN "a" ELSE text

\* fast_writer::write_value(); names are quoted with their length, strings as
\* C strings.
RECURSIVE fast_write_value(_, _, _)
fast_write_value(t, p, drop) ==
    LET Below(key) == fast_write_value(t, Append(p, key), drop)
        Member(name) == <<Quoted(name), ":">> \o Below(name)
        Listed(keys, Of(_)) == Joined([i \in 1 .. Len(keys) |-> Of(keys[i])], <<",">>)
    IN  CASE t[p].kind = "n" -> IF drop THEN << >> ELSE <<"n">>
          [] t[p].kind = "array" -> <<"[">> \o Listed(Elements(t, p), Below) \o <<"]">>
          [] t[p].kind = "object" -> <<"{">> \o Listed(Members(t, p), Member) \o <<"}">>
          [] OTHER -> <<CString(t[p].kind)>>

\* fast_writer::write()
fast_write(t, drop) == fast_write_value(t, << >>, drop) \o <<"nl">>
-----------------------------------------------------------------------------
\* Writers with a style. w holds the text so far, the depth of the
\* indentation, indented_, and the settings of the built writer.

Put(w, text) == [w EXCEPT !.out = @ \o text]
indent(w) == [w EXCEPT !.level = @ + 1]
unindent(w) == [w EXCEPT !.level = @ - 1]
IndentString(w) == IF w.level > 0 /\ w.indentation THEN <<"sp">> ELSE << >>

\* A comma behind a member or an element that is not the last.
Separated(w, last) == IF last THEN w ELSE Put(w, <<",">>)

\* A comment with the indentation behind each line break that another comment
\* follows.
CommentLines(text, indentation) ==
    FlattenSeq([i \in 1 .. Len(text) |->
        IF text[i] = "nl" /\ i < Len(text) /\ text[i + 1] \in BlockComments \cup {"//"}
        THEN <<"nl">> \o indentation ELSE <<text[i]>>])

\* What push_value() gets for a value that is no container or an empty one.
Flat(t, p, null) ==
    CASE t[p].kind = "array" -> <<"[", "]">>
      [] t[p].kind = "object" -> <<"{", "}">>
      [] t[p].kind = "n" -> null
      [] OTHER -> <<t[p].kind>>

IsFlat(t, p) == t[p].kind \notin {"array", "object"} \/ Keys(t, p) = {}

\* is_multiline_array() fills child_values_ unless it sees at once that the
\* array is too long or holds a container that is not empty.
FillsChildValues(t, p) ==
    /\ Cardinality(Keys(t, p)) * 3 < RightMargin
    /\ \A k \in Keys(t, p) : IsFlat(t, Append(p, k))

\* is_multiline_array()
is_multiline_array(t, p, null) ==
    LET keys == Elements(t, p)
        line == 4 + (Len(keys) - 1) * 2
                  + Len(FlattenSeq([i \in 1 .. Len(keys) |-> Flat(t, Append(p, keys[i]), null)]))
    IN  \/ ~FillsChildValues(t, p)
        \/ \E k \in Keys(t, p) : has_comment_for_value(t, Append(p, k))
        \/ line >= RightMargin
-----------------------------------------------------------------------------
\* styled_writer

\* Faulty variant: a comment at the end of the text is not looked for.
IndentInLine(w) ==
    IF w.out # << >> /\ Last(w.out) = "sp" THEN w ELSE Put(w, IndentString(w))

\* writeIndent() looks at the last character that was written.
styled_indent(w) ==
    LET last == IF w.out = << >> THEN "nl" ELSE Last(w.out)
    IN  CASE last = "sp" -> w
          [] last = "nl" -> Put(w, IndentString(w))
          [] OTHER -> Put(w, <<"nl">> \o IndentString(w))

styled_with_indent(w, text) == Put(styled_indent(w), text)

styled_comment_before(w, t, p) ==
    IF ~has_comment(t, p, "before") THEN w
    ELSE Put(styled_indent(Put(w, <<"nl">>)),
             CommentLines(t[p].com.before, IndentString(w)) \o <<"nl">>)

styled_comment_after(w, t, p) ==
    LET v == IF has_comment(t, p, "same") THEN Put(w, <<"sp">> \o t[p].com.same) ELSE w
    IN  IF has_comment(t, p, "after") THEN Put(v, <<"nl">> \o t[p].com.after \o <<"nl">>) ELSE v

RECURSIVE styled_write_value(_, _, _), styled_write_array(_, _, _)
styled_write_value(w, t, p) ==
    LET names == Members(t, p)
        Named(v, name) == Put(styled_with_indent(v, <<Quoted(CString(name))>>), <<"sp", ":", "sp">>)
        MemberAt(v, name, q) ==
            styled_comment_after(
                Separated(styled_write_value(Named(styled_comment_before(v, t, q), name), t, q),
                          name = Last(names)), t, q)
        Member(v, name) == MemberAt(v, name, Append(p, name))
    IN  CASE IsFlat(t, p) -> Put(w, Flat(t, p, <<"n">>))
          [] ~IsFlat(t, p) /\ t[p].kind = "array" -> styled_write_array(w, t, p)
          [] OTHER -> styled_with_indent(
                        unindent(FoldLeft(Member, indent(styled_with_indent(w, <<"{">>)), names)),
                        <<"}">>)

styled_write_array(w, t, p) ==
    LET keys == Elements(t, p)
        flat == [i \in 1 .. Len(keys) |-> Flat(t, Append(p, keys[i]), <<"n">>)]
        Written(at, q) == IF FillsChildValues(t, p) THEN Put(at, Flat(t, q, <<"n">>))
                          ELSE styled_write_value(at, t, q)
        ElementAt(v, k, q) ==
            styled_comment_after(
                Separated(Written(styled_indent(styled_comment_before(v, t, q)), q), k = Last(keys)), t, q)
        Element(v, k) == ElementAt(v, k, Append(p, k))
    IN  IF is_multiline_array(t, p, <<"n">>)
        THEN styled_with_indent(
               unindent(FoldLeft(Element, indent(styled_with_indent(w, <<"[">>)), keys)), <<"]">>)
        ELSE Put(w, <<"[", "sp">> \o Joined(flat, <<",", "sp">>) \o <<"sp", "]">>)

\* styled_writer::write()
styled_write(t) ==
    LET w == [out |-> << >>, level |-> 0, indentation |-> TRUE]
    IN  styled_comment_after(styled_write_value(styled_comment_before(w, t, << >>), t, << >>),
                             t, << >>).out \o <<"nl">>
-----------------------------------------------------------------------------
\* styled_stream_writer keeps in indented_ whether it is at the place for the
\* next value.

stream_indent(w) == Put(w, <<"nl">> \o IndentString(w))

stream_with_indent(w, text) ==
    [Put(IF w.indented THEN w ELSE stream_indent(w), text) EXCEPT !.indented = FALSE]

stream_comment_before(w, t, p) ==
    IF ~has_comment(t, p, "before") THEN w
    ELSE stream_with_indent(w, CommentLines(t[p].com.before, IndentString(w)))

stream_comment_after(w, t, p) ==
    LET Same(v) == IF has_comment(t, p, "same") THEN Put(v, <<"sp">> \o t[p].com.same) ELSE v
        After(v) == IF has_comment(t, p, "after") THEN Put(stream_indent(v), t[p].com.after) ELSE v
    IN  [After(Same(w)) EXCEPT !.indented = FALSE]

\* Strings and names are quoted as C strings.
stream_flat(t, p) == [i \in DOMAIN Flat(t, p, <<"n">>) |-> CString(Flat(t, p, <<"n">>)[i])]

\* At the place for a value.
stream_in_place(w) == [IF w.indented THEN w ELSE stream_indent(w) EXCEPT !.indented = TRUE]

RECURSIVE stream_write_value(_, _, _), stream_write_array(_, _, _)
stream_write_value(w, t, p) ==
    LET names == Members(t, p)
        Named(v, name) == Put(stream_with_indent(v, <<Quoted(CString(name))>>), <<"sp", ":", "sp">>)
        MemberAt(v, name, q) ==
            stream_comment_after(
                Separated(stream_write_value(Named(stream_comment_before(v, t, q), name), t, q),
                          name = Last(names)), t, q)
        Member(v, name) == MemberAt(v, name, Append(p, name))
    IN  CASE IsFlat(t, p) -> Put(w, stream_flat(t, p))
          [] ~IsFlat(t, p) /\ t[p].kind = "array" -> stream_write_array(w, t, p)
          [] OTHER -> stream_with_indent(
                        unindent(FoldLeft(Member, indent(stream_with_indent(w, <<"{">>)), names)),
                        <<"}">>)

stream_write_array(w, t, p) ==
    LET keys == Elements(t, p)
        flat == [i \in 1 .. Len(keys) |-> stream_flat(t, Append(p, keys[i]))]
        Written(b, q) ==
            IF FillsChildValues(t, p) THEN stream_with_indent(b, stream_flat(t, q))
            ELSE [stream_write_value(stream_in_place(b), t, q) EXCEPT !.indented = FALSE]
        ElementAt(v, k, q) ==
            stream_comment_after(
                Separated(Written(stream_comment_before(v, t, q), q), k = Last(keys)), t, q)
        Element(v, k) == ElementAt(v, k, Append(p, k))
    IN  IF is_multiline_array(t, p, <<"n">>)
        THEN stream_with_indent(
               unindent(FoldLeft(Element, indent(stream_with_indent(w, <<"[">>)), keys)), <<"]">>)
        ELSE Put(w, <<"[", "sp">> \o Joined(flat, <<",", "sp">>) \o <<"sp", "]">>)

\* styled_stream_writer::write()
stream_write(t) ==
    LET w == [out |-> << >>, level |-> 0, indentation |-> TRUE, indented |-> TRUE]
        at == stream_in_place(stream_comment_before(w, t, << >>))
    IN  stream_comment_after(stream_write_value(at, t, << >>), t, << >>).out \o <<"nl">>
-----------------------------------------------------------------------------
\* built_styled_stream_writer

\* stream_writer_builder::new_stream_writer(): without an indentation the colon
\* has no blanks, and null may be nothing at all.
new_stream_writer(indentation, cs, yaml, drop) ==
    [out |-> << >>, level |-> 0, indented |-> TRUE, indentation |-> indentation, cs |-> cs,
     colon |-> CASE yaml -> <<":", "sp">>
                 [] ~yaml /\ ~indentation -> <<":">>
                 [] OTHER -> <<"sp", ":", "sp">>,
     null |-> IF drop THEN << >> ELSE <<"n">>]

\* writeIndent(): without an indentation line breaks are dropped too.
built_indent(w) == IF w.indentation THEN Put(w, <<"nl">> \o IndentString(w)) ELSE w

built_with_indent(w, text) ==
    [Put(IF w.indented THEN w ELSE built_indent(w), text) EXCEPT !.indented = FALSE]

built_comment_before(w, t, p) ==
    IF w.cs = "none" \/ ~has_comment(t, p, "before") THEN w
    ELSE built_with_indent(w, CommentLines(t[p].com.before, IndentString(w)))

\* Unlike the styled_stream_writer this leaves indented_ alone.
built_comment_after(w, t, p) ==
    LET v == IF has_comment(t, p, "same") THEN Put(w, <<"sp">> \o t[p].com.same) ELSE w
    IN  CASE w.cs = "none" -> w
          [] w.cs # "none" /\ has_comment(t, p, "after") -> Put(built_indent(v), t[p].com.after)
          [] OTHER -> v

\* At the place for a value.
built_in_place(w) == [IF w.indented THEN w ELSE built_indent(w) EXCEPT !.indented = TRUE]

RECURSIVE built_write_value(_, _, _), built_write_array(_, _, _)
built_write_value(w, t, p) ==
    LET names == Members(t, p)
        Named(v, name) == Put(built_with_indent(v, <<Quoted(name)>>), w.colon)
        MemberAt(v, name, q) ==
            built_comment_after(
                Separated(built_write_value(Named(built_comment_before(v, t, q), name), t, q),
                          name = Last(names)), t, q)
        Member(v, name) == MemberAt(v, name, Append(p, name))
    IN  CASE IsFlat(t, p) -> Put(w, Flat(t, p, w.null))
          [] ~IsFlat(t, p) /\ t[p].kind = "array" -> built_write_array(w, t, p)
          [] OTHER -> built_with_indent(
                        unindent(FoldLeft(Member, indent(built_with_indent(w, <<"{">>)), names)),
                        <<"}">>)

\* With all comments every array takes several lines, and child_values_ stays
\* empty.
built_write_array(w, t, p) ==
    LET keys == Elements(t, p)
        flat == [i \in 1 .. Len(keys) |-> Flat(t, Append(p, keys[i]), w.null)]
        blank == IF w.indentation THEN <<"sp">> ELSE << >>
        Written(b, q) ==
            IF w.cs # "all" /\ FillsChildValues(t, p) THEN built_with_indent(b, Flat(t, q, w.null))
            ELSE [built_write_value(built_in_place(b), t, q) EXCEPT !.indented = FALSE]
        ElementAt(v, k, q) ==
            built_comment_after(
                Separated(Written(built_comment_before(v, t, q), q), k = Last(keys)), t, q)
        Element(v, k) == ElementAt(v, k, Append(p, k))
    IN  IF w.cs = "all" \/ is_multiline_array(t, p, w.null)
        THEN built_with_indent(
               unindent(FoldLeft(Element, indent(built_with_indent(w, <<"[">>)), keys)), <<"]">>)
        ELSE Put(w, <<"[">> \o blank \o Joined(flat, <<",", "sp">>) \o blank \o <<"]">>)

\* built_styled_stream_writer::write()
built_write(w, t) ==
    built_comment_after(
        built_write_value(built_in_place(built_comment_before(w, t, << >>)), t, << >>), t, << >>).out

\* write_string() and operator<<, with what set_defaults() sets.
write_string(t) == built_write(new_stream_writer(TRUE, "all", FALSE, FALSE), t)
=============================================================================
