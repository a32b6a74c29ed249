--------------------------- MODULE JsonOurReader ---------------------------
(***************************************************************************)
(* core/data/json/reader.cpp: our_reader, the copy of json::reader behind  *)
(* char_reader_builder. It is single-threaded and keeps its own            *)
(* stack_depth_, so that it is written as the function from a text to a    *)
(* result that it computes: an operator per function of the class, which   *)
(* takes the reader s and the path p of current_value() and yields the     *)
(* reader afterwards; s.ok is what the function returned, s.t the token it *)
(* read, and s.thrown is set for good once stack_limit_ was exceeded.      *)
(***************************************************************************)
EXTENDS JsonText

\* our_features, as char_reader_builder::set_defaults() has them, with a small
\* stack limit in the place of 1000.
set_defaults(limit) ==
    [collect |-> TRUE, comments |-> TRUE, strict_root |-> FALSE, dropped |-> FALSE,
     numeric |-> FALSE, single |-> FALSE, extra |-> FALSE, dup |-> FALSE, limit |-> limit]

\* char_reader_builder::strict_mode() on top of the defaults; comments are not
\* collected when they are not allowed.
strict_mode(limit) ==
    [set_defaults(limit) EXCEPT !.comments = FALSE, !.strict_root = TRUE,
                                !.extra = TRUE, !.dup = TRUE]

\* read_token(), by the lexeme at i. Texts have a string in single quotes only
\* where the settings allow one; elsewhere the quote would be read like the
\* slash of a comment.
OurTokenType(lexeme, set) ==
    CASE lexeme = "eof" -> "end"
      [] lexeme \in Punctuation -> lexeme
      [] lexeme \in Strings -> "string"
      [] lexeme \in SingleQuoted /\ set.single -> "string"
      [] lexeme \in Numbers -> "number"
      [] lexeme \in Literals -> "literal"
      [] lexeme \in BlockComments \cup {"//"} -> "comment"
      [] OTHER -> "error"

OurToken(s, i) ==
    LET Of(lexeme) ==
            [type |-> OurTokenType(lexeme, s.set), lexeme |-> lexeme, start |-> i,
             end |-> CASE lexeme = "//" -> EndOfLine(s.doc, i + 1)
                       [] lexeme = "eof" -> i
                       [] OTHER -> i + 1]
    IN  Of(IF i <= Len(s.doc) THEN s.doc[i] ELSE "eof")

\* read_comment() and add_comment(): one in the line where the last value
\* ended is set there at once, any other is kept for the next value.
our_read_comment(s, t) ==
    LET text == SubSeq(s.doc, t.start, t.end - 1)
        same == /\ s.end # 0
                /\ ~contains_new_line(s.doc, s.end, t.start)
                /\ t.lexeme = "//" \/ ~contains_new_line(s.doc, t.start, t.end)
    IN  IF same THEN [s EXCEPT !.tree = set_comment(s.tree, s.last, text, "same")]
        ELSE [s EXCEPT !.before = @ \o text]

our_read_token(s) ==
    LET Taken(t, u) == IF t.type = "comment" /\ s.set.collect THEN our_read_comment(u, t) ELSE u
        Next(t) == Taken(t, [s EXCEPT !.cur = t.end, !.t = t])
    IN  Next(OurToken(s, skip_spaces(s.doc, s.cur)))

\* skip_comment_tokens() in a setting that allows comments, and the loops of
\* read_object() and read_array() in any setting.
RECURSIVE PastComments(_)
PastComments(s) ==
    LET Past(u) == IF u.t.type = "comment" THEN PastComments(u) ELSE u
    IN  Past(our_read_token(s))

our_skip_comment_tokens(s) == IF s.set.comments THEN PastComments(s) ELSE our_read_token(s)

our_add_error(s, t) ==
    [s EXCEPT !.errors = Append(@, <<t.start - 1, t.end - 1>>), !.ok = FALSE]

\* recover_from_error()
RECURSIVE our_recover(_, _)
our_recover(s, until) ==
    LET Skip(u) == IF u.t.type \in {until, "end"} THEN [u EXCEPT !.ok = FALSE] ELSE our_recover(u, until)
    IN  Skip(our_read_token(s))

our_add_error_and_recover(s, t, until) == our_recover(our_add_error(s, t), until)
-----------------------------------------------------------------------------
\* The payload and the offsets of a number, a string or a literal.
Stored(s, p) ==
    [s EXCEPT !.ok = TRUE, !.tree = set_offsets(swap_payload(s.tree, p, KindOf(s.t.lexeme)),
                                                p, s.t.start - 1, s.t.end - 1)]

\* A wrong number or string leaves the value as it was. The escapes are those
\* of double quotes, so that an escaped single quote is wrong.
our_decode_number(s, p) == IF s.t.lexeme = "#" THEN our_add_error(s, s.t) ELSE Stored(s, p)
our_decode_string(s, p) == IF s.t.lexeme \in {"bad", "'e"} THEN our_add_error(s, s.t) ELSE Stored(s, p)

\* A null placeholder that was dropped; its token is put back.
our_dropped(s, p) ==
    [s EXCEPT !.ok = TRUE, !.cur = @ - 1,
              !.tree = set_offsets(swap_payload(s.tree, p, "n"), p, s.cur - 3, s.cur - 2)]

\* The default case of read_value(): stack_depth_ is not counted down.
our_unexpected(s, p) ==
    our_add_error([s EXCEPT !.tree = set_offsets(s.tree, p, s.t.start - 1, s.t.end - 1)], s.t)

\* swap_payload() and set_offset_start() at the head of read_object() and
\* read_array()
Begin(s, p, kind) ==
    [s EXCEPT !.tree = [swap_payload(s.tree, p, kind) EXCEPT ![p].start = s.t.start - 1],
              !.ok = TRUE]

\* The end of read_value().
Finish(s, p) ==
    [s EXCEPT !.depth = @ - 1,
              !.end = IF s.set.collect THEN s.cur ELSE @,
              !.last = IF s.set.collect THEN p ELSE @]

\* Faulty variant: only the names of the outermost object are looked up.
IsDuplicateAtRoot(s, p, name) == s.set.dup /\ p = << >> /\ <<name>> \in DOMAIN s.tree

\* reject_dup_keys_: is_member(name)
IsDuplicate(s, p, name) == s.set.dup /\ Append(p, name) \in DOMAIN s.tree

\* The comments that were kept belong to the value at p.
WithComments(s, p, placement) ==
    IF s.set.collect /\ s.before # << >>
      THEN [s EXCEPT !.tree = set_comment(s.tree, p, s.before, placement)] ELSE s

RECURSIVE our_read_value(_, _), our_read_members(_, _, _), our_read_elements(_, _, _)

our_read_value(s, p) ==
    LET Limited(w) == IF w.thrown THEN w ELSE Finish([w EXCEPT !.tree[p].limit = w.cur - 1], p)
        Value(v) ==
            CASE v.t.type = "{" -> Limited(our_read_members(Begin(v, p, "object"), p, ""))
              [] v.t.type = "[" -> Limited(our_read_elements(Begin(v, p, "array"), p, 0))
              [] v.t.type = "number" -> Finish(our_decode_number(v, p), p)
              [] v.t.type = "string" -> Finish(our_decode_string(v, p), p)
              [] v.t.type = "literal" -> Finish(Stored(v, p), p)
              [] v.t.type \in {",", "}", "]"} /\ v.set.dropped -> Finish(our_dropped(v, p), p)
              [] OTHER -> our_unexpected(v, p)
    IN  IF s.depth >= s.set.limit THEN [s EXCEPT !.thrown = TRUE, !.ok = FALSE]
        ELSE Value([WithComments(our_skip_comment_tokens([s EXCEPT !.depth = @ + 1]), p, "before")
                      EXCEPT !.before = << >>])

\* The loop of read_object(), where before is the name of the member before: the
\* name, the colon, the value, and a comma, which any token passes for behind a
\* comment. A name of 2^30 bytes or more, for which the code throws, is beyond
\* the texts of the model.
our_read_members(s, p, before) ==
    LET Comma(u, name) == IF u.t.type = "}" THEN [u EXCEPT !.ok = TRUE] ELSE our_read_members(u, p, name)
        Behind(u, name) ==
            IF u.t.type \notin {"}", ",", "comment"} THEN our_add_error_and_recover(u, u.t, "}")
            ELSE Comma(IF u.t.type = "comment" THEN PastComments(u) ELSE u, name)
        Value(u, name) ==
            CASE u.thrown -> u
              [] ~u.thrown /\ ~u.ok -> our_recover(u, "}")
              [] OTHER -> Behind(our_read_token(u), name)
        Colon(u, n, name) ==
            CASE u.t.type # ":" -> our_add_error_and_recover(u, u.t, "}")
              [] u.t.type = ":" /\ IsDuplicate(u, p, name) -> our_add_error_and_recover(u, n, "}")
              [] OTHER -> Value(our_read_value([u EXCEPT !.tree = WithChild(u.tree, p, name)],
                                               Append(p, name)), name)
        IsMember(t, set) == t.type = "string" \/ (t.type = "number" /\ set.numeric)
        Name(u) ==
            CASE u.t.type = "}" /\ before = "" -> [u EXCEPT !.ok = TRUE]
              [] ~IsMember(u.t, u.set) \/ u.t.lexeme \in {"bad", "'e", "#"} ->
                   our_add_error_and_recover(u, u.t, "}")
              [] OTHER -> Colon(our_read_token(u), u.t, NameOf(u.t.lexeme))
    IN  Name(PastComments(s))

\* read_array() behind its first token; an empty array is looked for only once.
our_read_elements(s, p, index) ==
    LET Separator(u) ==
            CASE u.t.type = "]" -> [u EXCEPT !.ok = TRUE]
              [] u.t.type = "," -> our_read_elements(u, p, index + 1)
              [] OTHER -> our_add_error_and_recover(u, u.t, "]")
        Value(u) ==
            CASE u.thrown -> u
              [] ~u.thrown /\ ~u.ok -> our_recover(u, "]")
              [] OTHER -> Separator(PastComments(u))
        Element(key) == Value(our_read_value([s EXCEPT !.tree = WithChild(s.tree, p, key)], Append(p, key)))
    IN  IF index = 0 /\ OurToken(s, skip_spaces(s.doc, s.cur)).type = "]"
          THEN [our_read_token(s) EXCEPT !.ok = TRUE] ELSE Element(ToString(index))
-----------------------------------------------------------------------------
\* fail_if_extra_: a token that is wrong in itself does not count.
HasExtra(s) == s.set.extra /\ s.t.type \notin {"error", "end"}

\* The rest of parse(): comments at the end, and strict_root_.
our_end_parse(s, ok) ==
    IF s.set.strict_root /\ s.tree[<< >>].kind \notin {"array", "object"}
      THEN our_add_error(s, [start |-> 1, end |-> Len(s.doc) + 1])
      ELSE [s EXCEPT !.ok = ok]

\* parse()
our_parse(doc, set) ==
    LET Extra(u, ok) == IF HasExtra(u) THEN our_add_error(u, u.t)
                        ELSE our_end_parse(WithComments(u, << >>, "after"), ok)
        Root(u) == IF u.thrown THEN u ELSE Extra(our_skip_comment_tokens(u), u.ok)
    IN  Root(our_read_value(
               [doc |-> doc, set |-> [set EXCEPT !.collect = @ /\ set.comments],
                cur |-> 1, tree |-> Leaf("n"), errors |-> << >>, before |-> << >>, end |-> 0,
                last |-> << >>, depth |-> 0, thrown |-> FALSE, ok |-> TRUE,
                t |-> [type |-> "error", lexeme |-> "eof", start |-> 1, end |-> 1]], << >>))

\* our_char_reader::parse(), of which new_char_reader() gives the settings and
\* parse_from_stream() takes the text out of a stream.
Read(doc, set) ==
    LET Result(s) == [ok |-> s.ok /\ ~s.thrown, thrown |-> s.thrown, errors |-> s.errors, tree |-> s.tree]
    IN  Result(our_parse(doc, set))
=============================================================================
