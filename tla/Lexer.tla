-------------------------------- MODULE Lexer --------------------------------
(***************************************************************************)
(* lang/lexer.cpp: how the lexer turns the layout of a text into indent    *)
(* and dedent tokens.                                                      *)
(*                                                                         *)
(* The text is read line by line and once, so each line is chosen when the *)
(* lexer comes to it. Of a line it matters how far it is indented, whether *)
(* it begins with the continuation "...", whether it ends with a line      *)
(* break, and what its last token is: phrases, comments and open strings   *)
(* look for a continuation at the beginning of the next line, other tokens *)
(* leave the line break to advance(). The other tokens of a line change    *)
(* nothing here and are left out.                                          *)
(***************************************************************************)
EXTENDS Integers, Sequences

CONSTANTS
    Widths,     \* indent widths that occur, in columns
    Byte,       \* 256: indent_stack holds uint8_t
    StackSize,  \* 64: its length, with the indent character in front
    MaxLines    \* bound: lines of text that are not empty

ASSUME WidthsAssumption == Widths \subseteq Nat
ASSUME ByteAssumption == Byte \in Nat \ {0}
ASSUME StackAssumption == StackSize \in Nat \ {0}
ASSUME LinesAssumption == MaxLines \in Nat

VARIABLES
    at,                     \* where p is
    line,                   \* the line that p is in
    lines,                  \* lines read
    total_indent_width,
    indent_dedent_delta,
    indent_stack,           \* widths, without the indent character
    cut,                    \* history: a width did not fit its byte
    pending_error,          \* 0 or 1
    depth                   \* indent tokens minus dedent tokens; see Dedented

layout == <<total_indent_width, indent_dedent_delta, indent_stack, cut>>
vars == <<at, line, lines, layout, pending_error, depth>>

\* p is before the first line, at the first token of a line, within a comment
\* or string that goes on in a new line, at a line break or at the end;
\* "done" is after an advance() that returned false, "overflow" after a write
\* past the end of indent_stack.
Places == {"start", "content", "inside", "break", "end", "done", "overflow"}
Kinds == {"token", "phrase", "comment", "string"}
Lines == [width : Widths, dots : BOOLEAN, kind : Kinds, ends : BOOLEAN]
NoLine == [width |-> 0, dots |-> FALSE, kind |-> "token", ends |-> FALSE]

Init ==
    /\ at = "start"
    /\ line = NoLine
    /\ lines = 0
    /\ total_indent_width = 0
    /\ indent_dedent_delta = 0
    /\ indent_stack = << >>
    /\ cut = FALSE
    /\ pending_error = 0
    /\ depth = 0
-----------------------------------------------------------------------------
\* scan_beginning_of_line()

\* Faulty variant: an indent is not announced.
PushUnannounced(width) ==
    /\ indent_stack' = Append(indent_stack, width % Byte)
    /\ cut' = (cut \/ width >= Byte)
    /\ total_indent_width' = total_indent_width + width
    /\ UNCHANGED indent_dedent_delta

\* push_indent(): the width is cut down to a byte on the stack, but not in the
\* total.
push_indent(width) ==
    /\ indent_stack' = Append(indent_stack, width % Byte)
    /\ cut' = (cut \/ width >= Byte)
    /\ total_indent_width' = total_indent_width + width
    /\ indent_dedent_delta' = 1

\* What the indent of a line that is not empty does.
Indented(width) ==
    \/ /\ width > total_indent_width
       /\ push_indent(width - total_indent_width)
    \/ /\ width < total_indent_width
       /\ indent_dedent_delta' = width - total_indent_width
       /\ UNCHANGED <<indent_stack, cut, total_indent_width>>
    \/ /\ width = total_indent_width
       /\ UNCHANGED layout

\* Whether the stack has room for the indent of a line.
Room(width) == width > total_indent_width => Len(indent_stack) + 1 < StackSize

\* The next line with something in it is l; no text follows a line that does
\* not end with a line break.
Another(l) == lines < MaxLines /\ lines' = lines + 1 /\ line' = l

\* Beginning of line l: indents are taken care of and p goes to `place'.
BeginLine(l, place) ==
    /\ Another(l)
    /\ \/ /\ Room(l.width)
          /\ Indented(l.width)
          /\ at' = place
       \/ /\ ~Room(l.width)
          /\ at' = "overflow"
          /\ UNCHANGED layout

\* No more text, or only empty lines.
NoMoreText == at' = "end" /\ UNCHANGED <<line, lines, layout>>

\* The constructor treats the beginning of the text like a line break.
Start ==
    /\ at = "start"
    /\ NoMoreText \/ \E l \in Lines : BeginLine(l, "content")
    /\ UNCHANGED <<pending_error, depth>>
-----------------------------------------------------------------------------
\* advance(): what is left over from earlier text

EmitError ==
    /\ at \in {"content", "break", "end"} /\ pending_error = 1
    /\ pending_error' = 0
    /\ UNCHANGED <<at, line, lines, layout, depth>>

EmitIndent ==
    /\ at \in {"content", "break", "end"} /\ pending_error = 0
    /\ indent_dedent_delta > 0
    /\ indent_dedent_delta' = 0
    /\ depth' = depth + 1
    /\ UNCHANGED <<at, line, lines, total_indent_width, indent_stack, cut, pending_error>>

\* Faulty variant: the top of the stack is looked at but not taken off.
pop_nothing ==
    IF indent_stack = << >>
    THEN [width |-> 0, stack |-> << >>]
    ELSE [width |-> indent_stack[Len(indent_stack)], stack |-> indent_stack]

\* Faulty variant: the indent is taken off but its width is not returned.
pop_silently ==
    IF indent_stack = << >>
    THEN [width |-> 0, stack |-> << >>]
    ELSE [width |-> 0, stack |-> SubSeq(indent_stack, 1, Len(indent_stack) - 1)]

\* pop_indent(): 0 if the stack is empty.
pop_indent ==
    IF indent_stack = << >>
    THEN [width |-> 0, stack |-> << >>]
    ELSE [width |-> indent_stack[Len(indent_stack)],
          stack |-> SubSeq(indent_stack, 1, Len(indent_stack) - 1)]

\* Faulty variant: one dedent per line.
OneDedent(delta) == 0

\* A pop that goes too far ends the series of dedents.
Remaining(delta) == IF delta > 0 THEN 0 ELSE delta

\* One more dedent token. Below zero only the parity is kept, so that a series
\* of dedents without end has finitely many states.
Dedented(d) == IF d = -2 THEN -1 ELSE d - 1

EmitDedent ==
    /\ at \in {"content", "break", "end"} /\ pending_error = 0
    /\ indent_dedent_delta < 0
    /\ indent_dedent_delta' = Remaining(indent_dedent_delta + pop_indent.width)
    /\ total_indent_width' = total_indent_width - pop_indent.width
    /\ indent_stack' = pop_indent.stack
    /\ depth' = Dedented(depth)
    /\ UNCHANGED <<at, line, lines, cut, pending_error>>
-----------------------------------------------------------------------------
\* advance(): the text itself

Clear == pending_error = 0 /\ indent_dedent_delta = 0

\* A token that does not look past the end of its line.
PlainToken ==
    /\ at = "content" /\ Clear /\ line.kind = "token"
    /\ at' = IF line.ends THEN "break" ELSE "end"
    /\ UNCHANGED <<line, lines, layout, pending_error, depth>>

\* A line break: final dedents are forced if nothing at all follows it.
LineBreak ==
    /\ at = "break" /\ Clear
    /\ \/ NoMoreText
       \/ /\ at' = "end"
          /\ indent_dedent_delta' = -total_indent_width
          /\ UNCHANGED <<line, lines, total_indent_width, indent_stack, cut>>
       \/ \E l \in Lines : BeginLine(l, "content")
    /\ UNCHANGED <<pending_error, depth>>

\* A phrase, comment or string is at the end of its line: at the start of the
\* token, or later if the token has gone on in a new line already.
AtLineEnd ==
    /\ line.kind # "token"
    /\ at = "inside" \/ (at = "content" /\ Clear)

\* No line break: the text is over. A string that is still open just ends.
TokenEndsText ==
    /\ AtLineEnd /\ ~line.ends
    /\ at' = "end"
    /\ UNCHANGED <<line, lines, layout, pending_error, depth>>

\* An open string is an error when no continuation follows.
Unterminated == pending_error' = IF line.kind = "string" THEN 1 ELSE pending_error

\* next_line_continues() is false because the text is over.
TokenEndsLastLine ==
    /\ AtLineEnd /\ line.ends
    /\ NoMoreText
    /\ Unterminated
    /\ UNCHANGED depth

\* next_line_continues() is false for a line that is indented further, has no
\* dots, or comes after an empty line.
TokenEndsLine ==
    /\ AtLineEnd /\ line.ends
    /\ \E l \in Lines : BeginLine(l, "content")
    /\ Unterminated
    /\ UNCHANGED depth

\* next_line_continues() is true, whether or not the new line is indented less.
\* The rest of the new line belongs to the comment. A string goes on and is
\* closed in the new line, or not. A phrase ends all the same.
TokenContinues ==
    /\ AtLineEnd /\ line.ends
    /\ \E l \in Lines :
          /\ l.dots /\ l.width <= total_indent_width
          /\ LET rest == [l EXCEPT !.dots = FALSE,
                                   !.kind = IF line.kind = "comment" THEN "comment" ELSE @]
             IN  /\ Another(rest)
                 /\ Indented(l.width)
                 /\ at' = IF line.kind = "comment" \/ (line.kind = "string" /\ l.kind = "string")
                          THEN "inside" ELSE "content"
    /\ UNCHANGED <<pending_error, depth>>

\* advance() returns false.
Finish ==
    /\ at = "end" /\ Clear
    /\ at' = "done"
    /\ UNCHANGED <<line, lines, layout, pending_error, depth>>

Next ==
    \/ Start \/ EmitError \/ EmitIndent \/ EmitDedent
    \/ PlainToken \/ LineBreak
    \/ TokenEndsText \/ TokenEndsLastLine \/ TokenEndsLine \/ TokenContinues
    \/ Finish

Spec == Init /\ [][Next]_vars

\* The caller goes on to ask for the next token until there is none.
Fairness == WF_vars(Next)
-----------------------------------------------------------------------------
TypeOK ==
    /\ at \in Places
    /\ line \in Lines \cup {NoLine}
    /\ lines \in 0 .. MaxLines
    /\ total_indent_width \in Nat
    /\ indent_dedent_delta \in Int
    /\ indent_stack \in Seq(0 .. Byte - 1)
    /\ cut \in BOOLEAN
    /\ pending_error \in {0, 1}
    /\ depth \in Nat \cup {-1, -2}

\* The indent and dedent tokens that the caller has seen are those of the
\* stack, but for an indent that is still to be reported: no dedent without
\* its indent, and no indent that is forgotten, also where a continuation
\* line is indented less and its dedent is overtaken by the next line. Up to
\* the first line that is indented by 256 columns or more against the block
\* around it: the width on the stack is then too small, and dedents go on
\* after the stack has run empty.
TokensMatchStack ==
    ~cut => depth + (IF indent_dedent_delta > 0 THEN 1 ELSE 0) = Len(indent_stack)

\* When the first token of a line is reported, enough blocks are closed: none
\* is open that is indented further than the line.
NoBlockTooMany ==
    at = "content" /\ Clear => total_indent_width <= line.width

\* "Tokens can be accessed by iterating from begin() to end()." (lexer.h): the
\* iteration over a text comes to an end and dedents are not reported for ever,
\* unless the text has an indent of 256 columns or more. For such a text it
\* need not end (EveryIterationEnds, below, is refuted).
EveryTextEnds == at # "start" ~> at \in {"done", "overflow"} \/ cut

-----------------------------------------------------------------------------
\* What comments, documents and tests say and the code does not keep

\* "Tokens can be accessed by iterating from begin() to end()." (lexer.h): also
\* for a text with an indent that does not fit the byte it is kept in.
EveryIterationEnds == at # "start" ~> at \in {"done", "overflow"}

\* "Force final dedents." (comment in advance()): when the text is over, every
\* block is closed.
EveryBlockIsClosed == at = "done" => depth = 0

\* "line_number and indents have been updated appropriately" (comment on
\* scan_beginning_of_line): the open blocks add up to the indent of the line.
IndentIsThatOfLine ==
    at = "content" /\ Clear => total_indent_width = line.width
=============================================================================
