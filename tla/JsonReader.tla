----------------------------- MODULE JsonReader -----------------------------
(***************************************************************************)
(* core/data/json/reader.cpp: json::reader, the deprecated reader. Each    *)
(* step reads at most one token. The recursion of read_value(),            *)
(* read_object() and read_array() is the stack nodes_; a frame of it holds *)
(* the value that is being read and, when that is a container, the name or *)
(* the index it has come to. stack_depth_g is a static variable of the     *)
(* file that all readers count in.                                         *)
(***************************************************************************)
EXTENDS JsonText

CONSTANTS
    Readers,     \* reader objects, each used by a thread of its own
    Cases,       \* pairs of a text and the settings to read it with
    StackLimit   \* 1000: stack_limit_g

\* The features of a reader and, in one record with them, those that only
\* our_reader has.
Settings == [collect : BOOLEAN, comments : BOOLEAN, strict_root : BOOLEAN, dropped : BOOLEAN,
             numeric : BOOLEAN, single : BOOLEAN, extra : BOOLEAN, dup : BOOLEAN, limit : Nat]

ASSUME StackLimitAssumption == StackLimit \in Nat \ {0}
ASSUME CasesAssumption == Cases \subseteq Seq(STRING) \X Settings

VARIABLES
    stack_depth_g,
    rd           \* the state of each reader

vars == <<stack_depth_g, rd>>

Fresh(case) ==
    [pc |-> "idle", doc |-> case[1], set |-> case[2], cur |-> 1, tree |-> Leaf("n"),
     nodes |-> << >>, errors |-> << >>, before |-> << >>, end |-> 0,
     last |-> << >>, ok |-> TRUE, until |-> "}", dup |-> FALSE]

Init ==
    /\ stack_depth_g = 0
    /\ \E case \in [Readers -> Cases] : rd = [r \in Readers |-> Fresh(case[r])]
-----------------------------------------------------------------------------
\* Tokens

\* The type of a token by its first character. A lexeme that is no token has
\* the type "error".
TokenType(lexeme) ==
    CASE lexeme = "eof" -> "end"
      [] lexeme \in Punctuation -> lexeme
      [] lexeme \in Strings -> "string"
      [] lexeme \in Numbers -> "number"
      [] lexeme \in Literals -> "literal"
      [] lexeme \in BlockComments \cup {"//"} -> "comment"
      [] OTHER -> "error"

\* read_token(): the token at cur and the place behind it.
Token(doc, cur) ==
    LET from == skip_spaces(doc, cur)
        lexeme == IF from <= Len(doc) THEN doc[from] ELSE "eof"
    IN  [type |-> TokenType(lexeme), lexeme |-> lexeme, start |-> from,
         end |-> CASE lexeme = "//" -> EndOfLine(doc, from + 1)
                   [] lexeme = "eof" -> from
                   [] OTHER -> from + 1]

\* Faulty variant: a comment goes to the last value wherever it stands.
AlwaysSameLine(s, t) == IF s.end # 0 THEN "same" ELSE "before"

\* read_comment(): a comment belongs to the value that ends in its line,
\* unless it is a block of several lines.
Placement(s, t) ==
    IF /\ s.end # 0
       /\ ~contains_new_line(s.doc, s.end, t.start)
       /\ t.lexeme = "//" \/ ~contains_new_line(s.doc, t.start, t.end)
    THEN "same" ELSE "before"

\* add_comment()
add_comment(s, t) ==
    LET text == SubSeq(s.doc, t.start, t.end - 1)
    IN  IF Placement(s, t) = "same"
        THEN [s EXCEPT !.tree = set_comment(s.tree, s.last, text, "same")]
        ELSE [s EXCEPT !.before = @ \o text]

\* Faulty variant: get_next_char() does not look for the end of the text.
TakeBeyondEnd(s, t) ==
    [s EXCEPT !.cur = IF t.type = "end" THEN t.end + 1 ELSE t.end]

\* What reading the token t does to the reader.
Take(s, t) ==
    LET moved == [s EXCEPT !.cur = t.end]
    IN  IF t.type = "comment" /\ s.set.collect THEN add_comment(moved, t) ELSE moved

\* add_error(): get_structured_errors() reports where the token is.
add_error(s, t) == [s EXCEPT !.errors = Append(@, <<t.start - 1, t.end - 1>>)]

\* current_value()
Here(s) == Last(s.nodes).path
-----------------------------------------------------------------------------
\* Returning from read_value()

\* Back in the caller: parse(), read_object() or read_array().
Return(s, ok) ==
    LET nodes == Front(s.nodes)
        kind == s.tree[Last(nodes).path].kind
    IN  IF nodes = << >> THEN [s EXCEPT !.pc = "end", !.ok = ok]
        ELSE IF ok THEN [s EXCEPT !.nodes = nodes,
                                  !.pc = IF kind = "object" THEN "comma" ELSE "separator"]
        ELSE [s EXCEPT !.nodes = nodes, !.pc = "recover",
                       !.until = IF kind = "object" THEN "}" ELSE "]"]

\* Faulty variant: only a value without elements becomes the last value.
CompleteInnermost(s, ok) ==
    Return(IF s.set.collect /\ Keys(s.tree, Here(s)) = {}
           THEN [s EXCEPT !.end = s.cur, !.last = Here(s)] ELSE s, ok)

\* The value is complete: it becomes the last value, for comments that follow.
Complete(s, ok) ==
    Return(IF s.set.collect THEN [s EXCEPT !.end = s.cur, !.last = Here(s)] ELSE s, ok)

\* Faulty variant: the container ends where its last value does.
CloseAtLastValue(s, ok) ==
    Complete([s EXCEPT !.tree[Here(s)].limit = s.end - 1], ok)

\* The end of read_object() and read_array().
CloseContainer(s, ok) ==
    Complete([s EXCEPT !.tree[Here(s)].limit = s.cur - 1], ok)

\* Faulty variant: recovery discards the error it was called for.
RecoverOnly(s, t, until) == [s EXCEPT !.pc = "recover", !.until = until]

\* add_error_and_recover()
FailContainer(s, t, until) == [add_error(s, t) EXCEPT !.pc = "recover", !.until = until]

\* decode_number(), decode_string() and the literals: payload and offsets.
CompleteScalar(s, t, kind) ==
    LET p == Here(s)
    IN  Complete([s EXCEPT !.tree = set_offsets(swap_payload(s.tree, p, kind),
                                                p, t.start - 1, t.end - 1)], TRUE)

\* read_value() is called for a child of the current container.
Descend(s, key) ==
    LET p == Append(Here(s), key)
    IN  [s EXCEPT !.tree = WithChild(s.tree, Here(s), key), !.pc = "value",
                  !.nodes = Append(@, [path |-> p, name |-> "", index |-> 0])]
-----------------------------------------------------------------------------
\* parse()

parse(r) ==
    /\ rd[r].pc = "idle"
    /\ rd' = [rd EXCEPT ![r].pc = "value", ![r].cur = 1, ![r].end = 0,
                        ![r].before = << >>, ![r].errors = << >>,
                        ![r].set.collect = @ /\ rd[r].set.comments,
                        ![r].nodes = <<[path |-> << >>, name |-> "", index |-> 0]>>]
    /\ stack_depth_g' = 0

\* Faulty variant: the limit is looked at after the step down.
EnterOneTooDeep(r) == stack_depth_g <= StackLimit

MayEnter(r) == stack_depth_g < StackLimit

\* read_value(), up to skip_comment_tokens(); too deep a text throws.
read_value(r) ==
    /\ rd[r].pc = "value"
    /\ \/ /\ MayEnter(r)
          /\ stack_depth_g' = stack_depth_g + 1
          /\ rd' = [rd EXCEPT ![r].pc = "first"]
       \/ /\ ~MayEnter(r)
          /\ rd' = [rd EXCEPT ![r].pc = "thrown"]
          /\ UNCHANGED stack_depth_g

\* skip_comment_tokens() in read_value()
SkipComment(r) ==
    LET s == rd[r]  t == Token(s.doc, s.cur)
    IN  /\ s.pc \in {"first", "end"}
        /\ t.type = "comment" /\ s.set.comments
        /\ rd' = [rd EXCEPT ![r] = Take(s, t)]
        /\ UNCHANGED stack_depth_g

\* The reader when it has taken the first token of a value, and the comments
\* read before belong to that value.
Started(s, t) ==
    LET u == Take(s, t)
    IN  IF u.set.collect /\ u.before # << >>
        THEN [u EXCEPT !.tree = set_comment(u.tree, Here(u), u.before, "before"),
                       !.before = << >>]
        ELSE u

\* The first token of a value.
First(r, type) ==
    /\ rd[r].pc = "first"
    /\ Token(rd[r].doc, rd[r].cur).type = type

\* read_object(), up to its loop
OpenObject(r) ==
    LET t == Token(rd[r].doc, rd[r].cur)
        s == Started(rd[r], t)
    IN  /\ First(r, "{")
        /\ rd' = [rd EXCEPT ![r] =
             [s EXCEPT !.tree = [swap_payload(s.tree, Here(s), "object")
                                   EXCEPT ![Here(s)].start = t.start - 1],
                       !.pc = "member"]]
        /\ UNCHANGED stack_depth_g

\* read_array(), up to the first call of read_value() or the end of an empty
\* array
OpenArray(r) ==
    LET t == Token(rd[r].doc, rd[r].cur)
        s == Started(rd[r], t)
        u == [s EXCEPT !.tree = [swap_payload(s.tree, Here(s), "array")
                                   EXCEPT ![Here(s)].start = t.start - 1]]
        next == Token(s.doc, s.cur)
    IN  /\ First(r, "[")
        /\ \/ /\ next.type = "]"
              /\ rd' = [rd EXCEPT ![r] = CloseContainer(Take(u, next), TRUE)]
              /\ stack_depth_g' = stack_depth_g - 1
           \/ /\ next.type # "]"
              /\ rd' = [rd EXCEPT ![r] = Descend(u, ToString(0))]
              /\ UNCHANGED stack_depth_g

\* Numbers, strings and literals; the value ends here.
ReadScalar(r) ==
    LET t == Token(rd[r].doc, rd[r].cur)
        s == Started(rd[r], t)
    IN  /\ \E type \in {"number", "string", "literal"} : First(r, type)
        /\ rd' = [rd EXCEPT ![r] = IF t.lexeme \in {"bad", "#"}
                                   THEN Complete(add_error(s, t), FALSE)
                                   ELSE CompleteScalar(s, t, KindOf(t.lexeme))]
        /\ stack_depth_g' = stack_depth_g - 1

\* allow_dropped_null_placeholders_: the token is put back, and the value is a
\* null that lays claim to the character before it. Before the first character
\* of a text there is none: the -1 that a root then starts at is the greatest
\* size_t, which is no place in a text either.
ReadDropped(r) ==
    LET t == Token(rd[r].doc, rd[r].cur)
        s == [Started(rd[r], t) EXCEPT !.cur = @ - 1]
        p == Here(s)
    IN  /\ \E type \in {",", "}", "]"} : First(r, type)
        /\ s.set.dropped
        /\ rd' = [rd EXCEPT ![r] =
             Complete([s EXCEPT !.tree = set_offsets(swap_payload(s.tree, p, "n"),
                                                     p, s.cur - 2, s.cur - 1)], TRUE)]
        /\ stack_depth_g' = stack_depth_g - 1

\* The default case: an error, and a return that forgets the decrement.
ReadUnexpected(r) ==
    LET t == Token(rd[r].doc, rd[r].cur)
        s == Started(rd[r], t)
    IN  /\ \/ \E type \in {":", "error", "end"} : First(r, type)
           \/ (\E type \in {",", "}", "]"} : First(r, type)) /\ ~rd[r].set.dropped
           \/ First(r, "comment") /\ ~rd[r].set.comments
        /\ rd' = [rd EXCEPT ![r] =
             Return(add_error([s EXCEPT !.tree = set_offsets(s.tree, Here(s),
                                            t.start - 1, t.end - 1)], t), FALSE)]
        /\ UNCHANGED stack_depth_g
-----------------------------------------------------------------------------
\* The loop of read_object(), a token at a time

\* Faulty variant: the name of the member before does not count.
EndsAnywhere(s, t) == t.type = "}"

\* "}" in the place of a name ends an object only if no name came before, or
\* if that name was empty.
EndsObject(s, t) == t.type = "}" /\ Last(s.nodes).name = ""

IsName(s, t) == t.type = "string" \/ (t.type = "number" /\ s.set.numeric)

\* A member name, or the end of the object; comments are taken in any setting.
read_object(r) ==
    LET s == rd[r]
        t == Token(s.doc, s.cur)
        u == Take(s, t)
        named == [u EXCEPT !.nodes[Len(u.nodes)].name =
                     IF IsName(s, t) THEN NameOf(t.lexeme) ELSE ""]
    IN  /\ s.pc = "member"
        /\ rd' = [rd EXCEPT ![r] =
             CASE t.type = "comment" -> u
               [] EndsObject(s, t) -> CloseContainer(u, TRUE)
               [] IsName(s, t) /\ t.lexeme \in {"bad", "#"} ->
                    FailContainer(named, t, "}")
               [] IsName(s, t) /\ t.lexeme \notin {"bad", "#"} ->
                    [named EXCEPT !.pc = "colon"]
               [] OTHER -> FailContainer(named, t, "}")]
        /\ stack_depth_g' = stack_depth_g - (IF EndsObject(s, t) THEN 1 ELSE 0)

\* The colon, and the call of read_value().
ReadColon(r) ==
    LET s == rd[r]
        t == Token(s.doc, s.cur)
        name == Last(s.nodes).name
    IN  /\ s.pc = "colon"
        /\ rd' = [rd EXCEPT ![r] =
             IF t.type = ":"
             THEN [Descend(Take(s, t), name) EXCEPT
                     !.dup = @ \/ Append(Here(s), name) \in DOMAIN s.tree]
             ELSE FailContainer(Take(s, t), t, "}")]
        /\ UNCHANGED stack_depth_g

\* Behind a member. Once a comment was read, any token passes for a comma.
ReadComma(r) ==
    LET s == rd[r]
        t == Token(s.doc, s.cur)
        u == Take(s, t)
    IN  /\ s.pc \in {"comma", "comma after comment"}
        /\ rd' = [rd EXCEPT ![r] =
             CASE t.type = "comment" -> [u EXCEPT !.pc = "comma after comment"]
               [] t.type = "}" -> CloseContainer(u, TRUE)
               [] t.type = "," -> [u EXCEPT !.pc = "member"]
               [] OTHER -> IF s.pc = "comma" THEN FailContainer(u, t, "}")
                           ELSE [u EXCEPT !.pc = "member"]]
        /\ stack_depth_g' = stack_depth_g - (IF t.type = "}" THEN 1 ELSE 0)

\* The loop of read_array(), behind an element.
read_array(r) ==
    LET s == rd[r]
        t == Token(s.doc, s.cur)
        u == Take(s, t)
        next == Last(u.nodes).index + 1
    IN  /\ s.pc = "separator"
        /\ rd' = [rd EXCEPT ![r] =
             CASE t.type = "comment" -> u
               [] t.type = "]" -> CloseContainer(u, TRUE)
               [] t.type = "," -> Descend([u EXCEPT !.nodes[Len(u.nodes)].index = next],
                                          ToString(next))
               [] OTHER -> FailContainer(u, t, "]")]
        /\ stack_depth_g' = stack_depth_g - (IF t.type = "]" THEN 1 ELSE 0)

\* Faulty variant: the end of the text is not recognised.
RecoversAtTokenOnly(s, t) == t.type = s.until

Recovered(s, t) == t.type \in {s.until, "end"}

\* recover_from_error(): tokens are skipped, and their comments collected,
\* until one could end the container or the text ends.
recover_from_error(r) ==
    LET s == rd[r]
        t == Token(s.doc, s.cur)
        u == Take(s, t)
    IN  /\ s.pc = "recover"
        /\ rd' = [rd EXCEPT ![r] = IF Recovered(s, t) THEN CloseContainer(u, FALSE) ELSE u]
        /\ stack_depth_g' = stack_depth_g - (IF Recovered(s, t) THEN 1 ELSE 0)

\* The rest of parse(): comments at the end, and strict_root_.
EndParse(r) ==
    LET s == rd[r]
        t == Token(s.doc, s.cur)
        u == Take(s, t)
        v == IF u.set.collect /\ u.before # << >>
             THEN [u EXCEPT !.tree = set_comment(u.tree, << >>, u.before, "after")] ELSE u
        bad == v.set.strict_root /\ v.tree[<< >>].kind \notin {"array", "object"}
    IN  /\ s.pc = "end"
        /\ t.type # "comment" \/ ~s.set.comments
        /\ rd' = [rd EXCEPT ![r] = IF bad
                  THEN [add_error(v, [start |-> 1, end |-> Len(v.doc) + 1])
                          EXCEPT !.ok = FALSE, !.pc = "done"]
                  ELSE [v EXCEPT !.pc = "done"]]
        /\ UNCHANGED stack_depth_g

\* push_error(): the application adds an error about the value at p. Without
\* an extra value the offset of its end is counted from the end of the text.
push_error(r, p) ==
    LET s == rd[r]
        v == s.tree[p]
    IN  /\ s.pc = "done" /\ s.ok /\ p \in DOMAIN s.tree
        /\ {v.start, v.limit} \subseteq 0 .. Len(s.doc)
        /\ rd' = [rd EXCEPT ![r].errors = Append(@, <<v.start, Len(s.doc) + v.limit>>),
                            ![r].pc = "pushed"]
        /\ UNCHANGED stack_depth_g

\* push_error() with an extra value
PushErrorExtra(r, p, q) ==
    LET s == rd[r]
        v == s.tree[p]
    IN  /\ s.pc = "done" /\ s.ok /\ {p, q} \subseteq DOMAIN s.tree
        /\ {v.start, v.limit, s.tree[q].limit} \subseteq 0 .. Len(s.doc)
        /\ rd' = [rd EXCEPT ![r].errors = Append(@, <<v.start, v.limit>>), ![r].pc = "pushed"]
        /\ UNCHANGED stack_depth_g

ReaderStep(r) ==
    \/ parse(r) \/ read_value(r) \/ SkipComment(r)
    \/ OpenObject(r) \/ OpenArray(r) \/ ReadScalar(r) \/ ReadDropped(r) \/ ReadUnexpected(r)
    \/ read_object(r) \/ ReadColon(r) \/ ReadComma(r) \/ read_array(r)
    \/ recover_from_error(r) \/ EndParse(r)

PushError(r) == \E p \in DOMAIN rd[r].tree :
    push_error(r, p) \/ \E q \in DOMAIN rd[r].tree : PushErrorExtra(r, p, q)

Next == \E r \in Readers : ReaderStep(r) \/ PushError(r)

Spec == Init /\ [][Next]_vars
-----------------------------------------------------------------------------
\* parse() has returned.
Done(r) == rd[r].pc = "done"
Accepted(r) == Done(r) /\ rd[r].ok

\* Each part of a reader holds what the code can put there.
TypeOK ==
    /\ stack_depth_g \in Nat
    /\ \A r \in Readers :
         /\ rd[r].pc \in {"idle", "value", "first", "member", "colon", "comma", "separator",
                          "comma after comment", "recover", "end", "done", "thrown", "pushed"}
         /\ rd[r].cur \in 1 .. Len(rd[r].doc) + 1
         /\ rd[r].errors \in Seq(Nat \X Nat)

\* read_value() never nests deeper than stack_limit_g, whatever errors the
\* text has.
StackIsBounded == \A r \in Readers : Len(rd[r].nodes) <= StackLimit + 1

\* The value that add_comment() writes to through last_value_ is one that the
\* tree still holds, also when a name comes twice or an error was met.
LastValueIsAlive == \A r \in Readers : rd[r].end # 0 => rd[r].last \in DOMAIN rd[r].tree

\* parse() returns false exactly if there is an error to report.
ErrorsTellTheTruth == \A r \in Readers : Done(r) => (rd[r].ok <=> rd[r].errors = << >>)

\* Values that may share their first character with their container.
Slack(set) == IF set.dropped THEN 1 ELSE 0

\* The offsets of an accepted value: it ends behind its start, a value lies
\* within its container and ends before it, and two elements or members do not
\* overlap. A value also begins behind its container, unless dropped
\* placeholders are allowed: the first element of "[,1]" begins at the bracket.
OffsetsNest ==
    \A r \in Readers : Accepted(r) =>
        LET t == rd[r].tree
        IN  \A p, q \in DOMAIN t :
              /\ t[p].start < t[p].limit
              /\ IsStrictPrefix(p, q) => /\ t[p].start < t[q].start + Slack(rd[r].set)
                                         /\ t[q].limit < t[p].limit
              /\ ~IsPrefix(p, q) /\ ~IsPrefix(q, p) =>
                   t[p].limit <= t[q].start \/ t[q].limit <= t[p].start

\* The reader keeps within the text and the tree that it builds, through errors
\* and recovery from them: its depth is bounded, its pointer for comments is to
\* a living value, an error is reported exactly if there is one, and the offsets
\* of what it accepts nest.
ReaderIsSound == StackIsBounded /\ LastValueIsAlive /\ ErrorsTellTheTruth /\ OffsetsNest
=============================================================================
