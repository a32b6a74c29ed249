--------------------------- MODULE JsonDocuments ---------------------------
(***************************************************************************)
(* core/data/json: a reader, its copy and the writers together. A reader   *)
(* reads a text step by step; what it ends with is compared with what its  *)
(* copy computes from the same text, with the grammar of JSON, and with    *)
(* what comes back when the value is written and read again.               *)
(***************************************************************************)
EXTENDS JsonReader, JsonOurReader, JsonWriter

VARIABLE steps    \* how many steps the readers have taken

allVars == <<stack_depth_g, rd, steps>>

DocInit == Init /\ steps = 0

\* The readers have returned, and the program goes on without them.
Finished ==
    /\ \A r \in Readers : rd[r].pc \in {"done", "thrown", "pushed"}
    /\ UNCHANGED allVars

DocNext == (Next /\ steps' = steps + 1) \/ Finished

DocSpec == DocInit /\ [][DocNext]_allVars
-----------------------------------------------------------------------------
\* The grammar of JSON over the tokens of a text, with the liberties g that a
\* reader takes with it: comments before a value and elsewhere, any token for a
\* comma behind a comment, a comma behind a member with an empty name, numbers
\* for names, and nothing for a null.
Strictly == [before |-> FALSE, between |-> FALSE, loose |-> FALSE, trailing |-> FALSE,
             numeric |-> FALSE, dropped |-> FALSE]
Liberties(set) == [before |-> set.comments, between |-> TRUE, loose |-> TRUE, trailing |-> TRUE,
                   numeric |-> set.numeric, dropped |-> set.dropped]

JsonScalars == (Strings \cup Numbers \cup Literals) \ {"bad", "#"}
JsonNames(g) == (Strings \ {"bad"}) \cup {x \in {"1"} : g.numeric}

\* The tokens, of which none stands in the line of a comment.
Tokens(doc) ==
    LET InLine(i) == \E j \in 1 .. i - 1 : doc[j] = "//" /\ \A k \in j .. i - 1 : doc[k] # "nl"
        Seen == SelectSeq([i \in DOMAIN doc |-> i], LAMBDA i : doc[i] \notin Blanks /\ ~InLine(i))
    IN  [n \in DOMAIN Seen |-> doc[Seen[n]]]

IsComment(x) == x \in BlockComments \cup {"//"}
At(d, i) == IF i <= Len(d) THEN d[i] ELSE "eof"

\* The first token from i on, or the first that is no comment.
Past(d, i, comments) ==
    CHOOSE j \in i .. Len(d) + 1 :
        /\ comments => ~IsComment(At(d, j))
        /\ \A k \in i .. j - 1 : comments /\ IsComment(d[k])

\* The places behind the value, the elements or the members that begin at i;
\* members may be at an end there or not.
RECURSIVE ValueEnds(_, _, _), ElementsEnd(_, _, _), MembersEnd(_, _, _, _)
ValueEnds(d, i, g) ==
    LET j == Past(d, i, g.before)
    IN  CASE At(d, j) \in JsonScalars -> {j + 1}
          [] At(d, j) = "[" -> IF At(d, j + 1) = "]" THEN {j + 2} ELSE ElementsEnd(d, j + 1, g)
          [] At(d, j) = "{" -> MembersEnd(d, j + 1, TRUE, g)
          [] At(d, j) \in {",", "]", "}"} /\ g.dropped -> {j}
          [] OTHER -> {}
ElementsEnd(d, i, g) ==
    LET Behind(j) == CASE At(d, j) = "]" -> {j + 1}
                       [] At(d, j) = "," -> ElementsEnd(d, j + 1, g)
                       [] OTHER -> {}
    IN  UNION {Behind(Past(d, j, g.between)) : j \in ValueEnds(d, i, g)}
MembersEnd(d, i, mayEnd, g) ==
    LET n == Past(d, i, g.between)
        Behind(j, k) ==
            CASE At(d, k) = "}" -> {k + 1}
              [] At(d, k) = "," \/ (g.loose /\ k > j /\ k <= Len(d)) ->
                   MembersEnd(d, k + 1, g.trailing /\ d[n] = "e", g)
              [] OTHER -> {}
    IN  CASE At(d, n) = "}" /\ mayEnd -> {n + 1}
          [] At(d, n) \in JsonNames(g) /\ At(d, n + 1) = ":" ->
               UNION {Behind(j, Past(d, j, g.between)) : j \in ValueEnds(d, n + 2, g)}
          [] OTHER -> {}

-----------------------------------------------------------------------------
\* reader and our_reader are copies: with the settings both have they accept
\* the same texts, report the same errors and build the same tree, offsets and
\* comments included. Where our_reader allows single quotes, a string in them
\* reads like one in double quotes, but is cut at a double quote within it and
\* refused, like a wrong escape, if it holds an escaped single quote.
CopiesAgree ==
    LET Same(set) == [set EXCEPT !.extra = FALSE, !.dup = FALSE, !.limit = StackLimit]
        Single(set) == [Same(set) EXCEPT !.single = TRUE]
        Instead(doc, x, y) == [i \in DOMAIN doc |-> IF doc[i] = x THEN y ELSE doc[i]]
        Agree(s, u) == u.ok = s.ok /\ u.errors = s.errors /\ u.tree = s.tree /\ ~u.thrown
        Alike(s, u) == u.ok = s.ok /\ u.errors = s.errors /\ SamePayload(s.tree, u.tree)
    IN  \A r \in Readers :
          /\ Done(r) =>
               /\ Agree(rd[r], Read(rd[r].doc, Same(rd[r].set)))
               /\ \A quoted \in {<<"a", "'">>, <<"a", "'q">>, <<"bad", "'e">>} :
                    Alike(rd[r], Read(Instead(rd[r].doc, quoted[1], quoted[2]), Single(rd[r].set)))
          /\ rd[r].pc = "thrown" => Read(rd[r].doc, Same(rd[r].set)).thrown

\* read_value(), read_object() and read_array() accept a text that begins with
\* a JSON value, in any setting, and besides only what the liberties allow. What
\* follows the value does not matter, unless fail_if_extra_ is set: then the
\* next token is the end of the text or one that is wrong in itself.
AcceptsJson ==
    \A r \in Readers : Done(r) =>
        LET s == rd[r]
            d == Tokens(s.doc)
            ends == ValueEnds(d, 1, Liberties(s.set))
            Rooted == s.set.strict_root => d[1] \in {"[", "{"}
            Alone == [s.set EXCEPT !.extra = TRUE, !.dup = FALSE]
        IN  /\ ValueEnds(d, 1, Strictly) # {} /\ Rooted => s.ok
            /\ s.ok <=> ends # {} /\ Rooted
            /\ s.ok => (Read(s.doc, Alone).ok <=>
                          \E j \in ends : At(d, Past(d, j, s.set.comments)) \in {"eof", "?", "'"})

\* reject_dup_keys_ refuses exactly the texts that name a member twice.
RejectsDuplicates ==
    \A r \in Readers : Accepted(r) =>
        (rd[r].dup <=> ~Read(rd[r].doc, [rd[r].set EXCEPT !.dup = TRUE, !.extra = FALSE]).ok)

Lenient == [set_defaults(100) EXCEPT !.dropped = TRUE]

\* A comment that a styled writer, which looks for a blank at the end of its
\* text, takes for an indentation.
EndsInBlank(t) ==
    \E p \in DOMAIN t : \E c \in {"same", "after"} :
        t[p].com[c] # << >> /\ Last(t[p].com[c]) = "sp"

\* A comment that goes to the end of its line, and a text in which one has
\* swallowed a part of the value.
LineComment(t) == \E p \in DOMAIN t : \E c \in DOMAIN NoComments : Contains(t[p].com[c], "//")
Swallows(text) ==
    \E i, j \in DOMAIN text :
        /\ i < j /\ text[i] = "//" /\ text[j] \notin Blanks /\ ~IsComment(text[j])
        /\ \A k \in i .. j : text[k] # "nl"

\* What is nothing if nulls are dropped: a null, and an array of one.
NullAlone(t) ==
    \/ t[<< >>].kind = "n"
    \/ \E p \in DOMAIN t : t[p].kind = "array" /\ Keys(t, p) = {"0"} /\ t[Append(p, "0")].kind = "n"

\* The value with its strings, or its names, cut at a zero byte. Of two names
\* that become the same the latter stays.
CutStrings(t) == [p \in DOMAIN t |-> [t[p] EXCEPT !.kind = CString(@)]]
CutNames(t) ==
    LET CutPath(p) == [i \in DOMAIN p |-> CString(p[i])]
        Stays(p) == \A i \in DOMAIN p : p[i] = "a" => Append(SubSeq(p, 1, i - 1), "a0") \notin DOMAIN t
        Kept == {p \in DOMAIN t : Stays(p)}
    IN  [q \in {CutPath(p) : p \in Kept} |-> t[CHOOSE p \in Kept : CutPath(p) = q]]
NamesCollide(t) == Cardinality(DOMAIN CutNames(t)) < Cardinality(DOMAIN t)

\* A value that was read can be written by any writer, and reading that text
\* gives the same value again; the writers with a style keep the comments too,
\* each at its value and in its place, unless they are told to leave them out.
\* Where that does not hold, this is what comes back: fast_writer and
\* styled_stream_writer cut strings at a zero byte, styled_writer and
\* styled_stream_writer cut names; the value is lost exactly if a comment
\* swallows a part of it, which happens to styled_writer behind a comment that
\* ends in a blank and to the built writer without an indentation behind any
\* comment that goes to the end of its line. That writer does not keep the place
\* of comments, and null dropped on its own is not written at all.
RoundTrip ==
    \A r \in Readers : Accepted(r) =>
        LET t == rd[r].tree
            Again(text) == Read(text, Lenient)
            Back(u, text) == Again(text).ok /\ SamePayload(u, Again(text).tree)
            BackWithComments(u, text) ==
                Back(u, text) /\ (SameText(u, Again(text).tree) \/ NamesCollide(t))
            Built(indentation, cs, drop) ==
                {built_write(new_stream_writer(indentation, cs, yaml, drop), t) : yaml \in BOOLEAN}
        IN  /\ \A drop \in {d \in BOOLEAN : d => ~NullAlone(t)} :
                 /\ Back(CutStrings(t), fast_write(t, drop))
                 /\ \A text \in Built(TRUE, "none", drop) \cup Built(FALSE, "none", drop) : Back(t, text)
            /\ BackWithComments(CutNames(CutStrings(t)), stream_write(t))
            /\ \A text \in {write_string(t)} \cup Built(TRUE, "all", FALSE) :
                 Back(t, text) /\ SameText(t, Again(text).tree)
            /\ \A text \in Built(FALSE, "all", FALSE) :
                 /\ Back(t, text) <=> ~Swallows(text)
                 /\ Swallows(text) => LineComment(t)
            /\ \A text \in {styled_write(t)} :
                 /\ Swallows(text) => EndsInBlank(t) /\ ~Back(CutNames(t), text)
                 /\ ~Swallows(text) => BackWithComments(CutNames(t), text)

\* Every parse() ends, also in recovery from an error at the end of the text:
\* the steps of all readers are bounded by the length of their texts.
ParseIsLinear ==
    steps <= FoldSet(LAMBDA r, n : n + 4 * Len(rd[r].doc) + 6, 0, Readers)

\* parse() comes to a verdict, and the verdict is right: it accepts a text that
\* begins with a JSON value, beyond that only what the named liberties allow,
\* and refuses what trails and names that come twice if asked to.
VerdictIsRight == AcceptsJson /\ RejectsDuplicates /\ ParseIsLinear
-----------------------------------------------------------------------------
\* Refuted statements

\* A text that is accepted is JSON. It need not be: text may trail the value,
\* comments are allowed by default, behind one any token passes for a comma, as
\* in {"a":1/**/?"b":2}, and {"":1,} is accepted.
AcceptsNothingElse ==
    \A r \in Readers : Accepted(r) =>
        LET d == Tokens(rd[r].doc) IN Len(d) + 1 \in ValueEnds(d, 1, Strictly)

\* "If true, parse() returns false when extra non-whitespace trails the JSON
\* value in the input string": with fail_if_extra nothing follows the value.
\* A token that is wrong in itself may.
NothingTrails ==
    \A r \in Readers : Accepted(r) =>
        LET d == Tokens(rd[r].doc)
        IN  Read(rd[r].doc, [rd[r].set EXCEPT !.extra = TRUE]).ok =>
              \A j \in ValueEnds(d, 1, Strictly) : j = Len(d) + 1

\* Whatever the writer and its settings, the value comes back. It does not if a
\* string holds a zero byte (as_cstring() in fast_writer), if a null is dropped
\* on its own, behind a comment that ends in a blank (writeIndent() of
\* styled_writer), or behind a // comment that is written without an indentation.
WritersKeepAll ==
    \A r \in Readers : Accepted(r) =>
        \A text \in {fast_write(rd[r].tree, drop) : drop \in BOOLEAN}
                      \cup {built_write(new_stream_writer(FALSE, "all", FALSE, FALSE), rd[r].tree)}
                      \cup {styled_write(rd[r].tree), stream_write(rd[r].tree)} :
            Read(text, Lenient).ok /\ SamePayload(rd[r].tree, Read(text, Lenient).tree)

\* An error is about a part of the text. One that push_error() adds is not.
ErrorsPointIntoText ==
    \A r \in Readers : \A i \in DOMAIN rd[r].errors :
        rd[r].errors[i][1] <= rd[r].errors[i][2] /\ rd[r].errors[i][2] <= Len(rd[r].doc)
=============================================================================
