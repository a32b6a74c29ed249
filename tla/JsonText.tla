------------------------------ MODULE JsonText ------------------------------
(***************************************************************************)
(* core/data/json: the texts that readers take and writers make, and the   *)
(* trees of values in between.                                             *)
(*                                                                         *)
(* A text is a sequence of lexemes. Punctuation stands for itself; "sp"    *)
(* and "nl" are blanks and a line break; "1" is a number, "#" one that     *)
(* cannot be decoded; "a", "e", "s1", "a0" and "bad" are the strings "a",  *)
(* "", "1", one that begins with a and a zero byte, and one with a wrong   *)
(* escape; "'" is 'a' in single quotes, "'q" is 'a"b' and "'e" is 'a\'b';  *)
(* "n" and "t" are null and true; "/*" and "/*nl*/" are comments without   *)
(* and with a line break in them, "//" begins a comment that goes to the   *)
(* end of the line; "?" is a character that begins no token.               *)
(*                                                                         *)
(* A tree maps the paths of its values to their payload, comments and      *)
(* offsets. A path is the sequence of names and indices that lead to a     *)
(* value, so that a pointer to a value is a path and destroying a payload  *)
(* takes all longer paths away.                                            *)
(***************************************************************************)
EXTENDS Integers, Sequences, FiniteSets, SequencesExt, TLC

Blanks == {"sp", "nl"}
Strings == {"a", "e", "s1", "a0", "bad"}
SingleQuoted == {"'", "'q", "'e"}
Numbers == {"1", "#"}
Literals == {"n", "t"}
BlockComments == {"/*", "/*nl*/"}
Punctuation == {"{", "}", "[", "]", ",", ":"}

\* contains_new_line()
contains_new_line(doc, from, to) ==
    \E i \in from .. to - 1 : doc[i] \in {"nl", "/*nl*/"}

\* skip_spaces(): the place of the next lexeme that is not blank.
skip_spaces(doc, cur) ==
    CHOOSE i \in cur .. Len(doc) + 1 :
        /\ \A j \in cur .. i - 1 : doc[j] \in Blanks
        /\ i <= Len(doc) => doc[i] \notin Blanks

\* read_cpp_style_comment(): the first place at or after cur that follows a line break, or the end.
EndOfLine(doc, cur) ==
    CHOOSE i \in cur .. Len(doc) + 1 :
        /\ \A j \in cur .. i - 2 : doc[j] # "nl"
        /\ i > Len(doc) \/ (i > cur /\ doc[i - 1] = "nl")
        /\ i > Len(doc) => \A j \in cur .. Len(doc) - 1 : doc[j] # "nl"

\* What a string or number decodes to, as a value and as a name. A double quote
\* ends what is decoded, also within single quotes.
KindOf(lexeme) == IF lexeme \in SingleQuoted THEN "a" ELSE lexeme
NameOf(lexeme) ==
    CASE lexeme = "e" -> ""
      [] lexeme = "s1" -> "1"
      [] OTHER -> KindOf(lexeme)

\* All names in the order of czstring::operator<, and their quoted text.
NameOrder == <<"", "1", "a", "a0">>
Quoted(name) ==
    CASE name = "" -> "e"
      [] name = "1" -> "s1"
      [] OTHER -> name

-----------------------------------------------------------------------------
\* value.cpp: the parts of a value that readers and writers use

NoComments == [before |-> << >>, same |-> << >>, after |-> << >>]
Plain(kind) == [kind |-> kind, com |-> NoComments, start |-> 0, limit |-> 0]

\* A single value, as value() makes it.
Leaf(kind) == [p \in {<< >>} |-> Plain(kind)]

\* swap_payload() with a fresh value that then goes out of scope: what was
\* below is destroyed, comments and offsets stay.
swap_payload(tree, p, kind) ==
    [q \in {q \in DOMAIN tree : ~IsStrictPrefix(p, q)} |->
        IF q = p THEN [tree[p] EXCEPT !.kind = kind] ELSE tree[q]]

\* set_comment(): a comment in the same place is overwritten, and one line
\* break at its end is dropped.
set_comment(tree, p, text, placement) ==
    [tree EXCEPT ![p].com[placement] =
        IF text # << >> /\ Last(text) = "nl" THEN Front(text) ELSE text]

\* set_offset_start() and set_offset_limit()
set_offsets(tree, p, start, limit) ==
    [tree EXCEPT ![p].start = start, ![p].limit = limit]

\* resolve_reference() and operator[](array_index): the value is created as
\* null unless it exists.
WithChild(tree, p, key) ==
    [q \in DOMAIN tree \cup {Append(p, key)} |-> IF q \in DOMAIN tree THEN tree[q] ELSE Plain("n")]

\* The keys below a value. A map keeps them in order.
Keys(tree, p) == {Last(q) : q \in {q \in DOMAIN tree :
                                    Len(q) = Len(p) + 1 /\ IsPrefix(p, q)}}

\* The same payload everywhere: what operator== compares.
SamePayload(t, u) ==
    /\ DOMAIN t = DOMAIN u
    /\ \A p \in DOMAIN t : t[p].kind = u[p].kind

\* The same payload and the same comments.
SameText(t, u) ==
    /\ SamePayload(t, u)
    /\ \A p \in DOMAIN t : t[p].com = u[p].com
=============================================================================
