----------------------------- MODULE LexerProofs -----------------------------
(***************************************************************************)
(* The indents and dedents of Lexer, for texts of any length, any set of   *)
(* indent widths and any size of the stack.                                *)
(*                                                                         *)
(* The total indent width is what push_indent() added and pop_indent()     *)
(* took away. How it relates to the widths on the stack is said with the   *)
(* offsets of the open blocks, the columns at which they begin and end:    *)
(* there are offsets that start at 0 and grow by the widths. A push        *)
(* extends them and a pop drops the last one, so no sum over the stack has *)
(* to be computed.                                                         *)
(***************************************************************************)
EXTENDS Lexer, SequenceTheorems, TLAPS

\* The blocks of the stack s end at column e.
EndsAt(s, e) ==
    \E f \in [0 .. Len(s) -> Nat] :
        /\ f[0] = 0
        /\ \A i \in 1 .. Len(s) : f[i] = f[i - 1] + s[i]
        /\ f[Len(s)] = e

\* Without blocks, that is column 0.
LEMMA EmptyEndsAt ==
    ASSUME NEW e
    PROVE  EndsAt(<< >>, e) <=> e = 0
<1>1. EndsAt(<< >>, e) => e = 0
  BY DEF EndsAt
<1>2. EndsAt(<< >>, 0)
  <2> DEFINE f == [i \in 0 .. 0 |-> 0]
  <2>1. f \in [0 .. 0 -> Nat] /\ f[0] = 0
    OBVIOUS
  <2> HIDE DEF f
  <2>2. Len(<< >>) = 0 /\ 1 .. 0 = {}
    OBVIOUS
  <2> QED BY <2>1, <2>2 DEF EndsAt
<1> QED BY <1>1, <1>2

\* One more block ends that much further on.
LEMMA AppendEndsAt ==
    ASSUME NEW s \in Seq(Nat), NEW e \in Nat, NEW w \in Nat, EndsAt(s, e)
    PROVE  EndsAt(Append(s, w), e + w)
<1> DEFINE n == Len(s)
           t == Append(s, w)
<1>1. n \in Nat /\ Len(t) = n + 1 /\ t[n + 1] = w /\ \A i \in 1 .. n : t[i] = s[i]
  OBVIOUS
<1>2. PICK f \in [0 .. n -> Nat] :
         f[0] = 0 /\ (\A i \in 1 .. n : f[i] = f[i - 1] + s[i]) /\ f[n] = e
  BY DEF EndsAt
<1> DEFINE g == [i \in 0 .. n + 1 |-> IF i = n + 1 THEN e + w ELSE f[i]]
<1> HIDE DEF n, t
<1>3. /\ g \in [0 .. n + 1 -> Nat] /\ g[0] = 0 /\ g[n + 1] = e + w
      /\ \A i \in 0 .. n : g[i] = f[i]
  BY <1>1, <1>2
<1> HIDE DEF g
<1>4. ASSUME NEW i \in 1 .. n + 1 PROVE g[i] = g[i - 1] + t[i]
  <2>1. CASE i = n + 1
    BY <1>1, <1>2, <1>3, <2>1
  <2>2. CASE i \in 1 .. n
    <3>1. i - 1 \in 0 .. n /\ i \in 0 .. n
      BY <1>1, <2>2
    <3> QED BY <1>1, <1>2, <1>3, <2>2, <3>1
  <2> QED BY <1>1, <2>1, <2>2
<1> QED BY <1>1, <1>3, <1>4 DEF EndsAt, t

\* What pop_indent() leaves of a stack that is not empty.
LEMMA FrontOfStack ==
    ASSUME NEW S, NEW s \in Seq(S), s # << >>
    PROVE  /\ Len(s) \in Nat \ {0}
           /\ s[Len(s)] \in S
           /\ SubSeq(s, 1, Len(s) - 1) \in Seq(S)
           /\ Len(SubSeq(s, 1, Len(s) - 1)) = Len(s) - 1
           /\ \A i \in 1 .. Len(s) - 1 : SubSeq(s, 1, Len(s) - 1)[i] = s[i]
<1> DEFINE n == Len(s)
<1>1. n \in Nat \ {0} /\ \A i \in 1 .. n : s[i] \in S
  OBVIOUS
<1>2. s[n] \in S /\ n - 1 \in Int /\ \A i \in 1 .. n - 1 : s[i] \in S
  BY <1>1
<1>3. /\ SubSeq(s, 1, n - 1) \in Seq(S)
      /\ Len(SubSeq(s, 1, n - 1)) = IF 1 <= n - 1 THEN n - 1 - 1 + 1 ELSE 0
      /\ \A i \in 1 .. n - 1 - 1 + 1 : SubSeq(s, 1, n - 1)[i] = s[1 + i - 1]
  BY <1>2, SubSeqProperties
<1> HIDE DEF n
<1>4. n - 1 - 1 + 1 = n - 1 /\ \A i \in Int : 1 + i - 1 = i
  BY <1>1
<1> QED BY <1>1, <1>2, <1>3, <1>4 DEF n

\* Without the last block, they end where it began.
LEMMA FrontEndsAt ==
    ASSUME NEW s \in Seq(Nat), NEW e \in Nat, s # << >>, EndsAt(s, e)
    PROVE  /\ e - s[Len(s)] \in Nat
           /\ EndsAt(SubSeq(s, 1, Len(s) - 1), e - s[Len(s)])
<1> DEFINE n == Len(s)
           t == SubSeq(s, 1, n - 1)
<1>1. n \in Nat /\ n > 0
  OBVIOUS
<1>2. Len(t) = n - 1 /\ s[n] \in Nat /\ \A i \in 1 .. n - 1 : t[i] = s[i]
  BY FrontOfStack
<1>3. PICK f \in [0 .. n -> Nat] :
         f[0] = 0 /\ (\A i \in 1 .. n : f[i] = f[i - 1] + s[i]) /\ f[n] = e
  BY DEF EndsAt
<1> DEFINE g == [i \in 0 .. n - 1 |-> f[i]]
<1> HIDE DEF n, t
<1>4. /\ g \in [0 .. n - 1 -> Nat] /\ g[0] = 0
      /\ \A i \in 0 .. n - 1 : g[i] = f[i]
  BY <1>1, <1>3
<1> HIDE DEF g
<1>5. n - 1 \in 0 .. n - 1 /\ n - 1 \in 0 .. n /\ n \in 1 .. n
  BY <1>1
<1>6. f[n] = f[n - 1] + s[n] /\ f[n - 1] \in Nat
  BY <1>3, <1>5
<1>7. e - s[n] = f[n - 1] /\ g[n - 1] = e - s[n]
  BY <1>2, <1>3, <1>4, <1>5, <1>6
<1>8. ASSUME NEW i \in 1 .. n - 1 PROVE g[i] = g[i - 1] + t[i]
  <2>1. i \in 1 .. n /\ i - 1 \in 0 .. n - 1 /\ i \in 0 .. n - 1
    BY <1>1
  <2> QED BY <1>2, <1>3, <1>4, <2>1
<1> QED BY <1>2, <1>4, <1>6, <1>7, <1>8 DEF EndsAt, n, t
-----------------------------------------------------------------------------
\* The blocks on the stack lie within the total width; they may take up less,
\* because push_indent() cuts a width down to a byte.
StackWithinTotal == \E e \in 0 .. total_indent_width : EndsAt(indent_stack, e)

\* push_indent() leaves a stack of bytes that lies within the new total.
LEMMA PushKeepsStack ==
    ASSUME TypeOK, StackWithinTotal, NEW width \in Nat, push_indent(width)
    PROVE  /\ total_indent_width' \in Nat
           /\ indent_stack' \in Seq(0 .. Byte - 1)
           /\ Len(indent_stack') = Len(indent_stack) + 1
           /\ StackWithinTotal'
<1> DEFINE w == width % Byte
<1>1. w \in 0 .. Byte - 1 /\ w <= width /\ w \in Nat
  BY ByteAssumption
<1>2. indent_stack' = Append(indent_stack, w) /\ total_indent_width' = total_indent_width + width
  BY DEF push_indent
<1> HIDE DEF w
<1>3. indent_stack \in Seq(0 .. Byte - 1) /\ total_indent_width \in Nat /\ indent_stack \in Seq(Nat)
  BY ByteAssumption DEF TypeOK
<1>4. PICK e \in 0 .. total_indent_width : EndsAt(indent_stack, e)
  BY DEF StackWithinTotal
<1>5. EndsAt(indent_stack', e + w)
  BY <1>1, <1>2, <1>3, <1>4, AppendEndsAt
<1>6. e + w \in 0 .. total_indent_width'
  BY <1>1, <1>2, <1>3, <1>4
<1> QED BY <1>1, <1>2, <1>3, <1>5, <1>6 DEF StackWithinTotal

\* pop_indent() returns a width that the total covers and leaves a stack that
\* lies within the rest of it.
LEMMA PopKeepsStack ==
    ASSUME TypeOK, StackWithinTotal,
           total_indent_width' = total_indent_width - pop_indent.width,
           indent_stack' = pop_indent.stack
    PROVE  /\ pop_indent.width \in Nat
           /\ total_indent_width' \in Nat
           /\ indent_stack' \in Seq(0 .. Byte - 1)
           /\ StackWithinTotal'
<1> DEFINE n == Len(indent_stack)
<1>1. n \in Nat /\ indent_stack \in Seq(0 .. Byte - 1) /\ total_indent_width \in Nat
      /\ indent_stack \in Seq(Nat)
  BY ByteAssumption DEF TypeOK
<1>2. CASE indent_stack = << >>
  <2>1. pop_indent.width = 0 /\ pop_indent.stack = << >>
    BY <1>2 DEF pop_indent
  <2> QED BY <1>1, <1>2, <2>1 DEF StackWithinTotal
<1>3. CASE indent_stack # << >>
  <2>1. pop_indent.width = indent_stack[n] /\ pop_indent.stack = SubSeq(indent_stack, 1, n - 1)
    BY <1>3 DEF pop_indent
  <2>2. n > 0 /\ indent_stack[n] \in Nat /\ indent_stack' \in Seq(0 .. Byte - 1)
    <3> DEFINE S == 0 .. Byte - 1
    <3>1. indent_stack \in Seq(S)
      BY <1>1
    <3> HIDE DEF S
    <3>2. n \in Nat \ {0} /\ indent_stack[n] \in S /\ indent_stack' \in Seq(S)
      BY <1>3, <2>1, <3>1, FrontOfStack
    <3> QED BY <3>2, ByteAssumption DEF S
  <2>3. PICK e \in 0 .. total_indent_width : EndsAt(indent_stack, e)
    BY DEF StackWithinTotal
  <2>4. e - indent_stack[n] \in Nat /\ EndsAt(indent_stack', e - indent_stack[n])
    BY <1>1, <1>3, <2>1, <2>3, FrontEndsAt
  <2>5. total_indent_width' \in Nat /\ e - indent_stack[n] \in 0 .. total_indent_width'
    BY <1>1, <2>1, <2>2, <2>3, <2>4
  <2> QED BY <2>1, <2>2, <2>4, <2>5 DEF StackWithinTotal
<1> QED BY <1>2, <1>3
-----------------------------------------------------------------------------
\* The inductive invariant

\* The pending change of the layout is one indent, or the columns that are
\* still to be closed; a comment or string that goes on in a new line never
\* leaves an indent pending.
PendingIsSane ==
    /\ indent_dedent_delta <= 1
    /\ at \in {"start", "inside"} => indent_dedent_delta <= 0

\* The blocks that are left when the pending dedents have been reported are
\* not indented further than the line.
ContentIsCovered ==
    at = "content" =>
        total_indent_width + (IF indent_dedent_delta < 0 THEN indent_dedent_delta ELSE 0)
            <= line.width

LexerInv == TypeOK /\ StackWithinTotal /\ PendingIsSane /\ ContentIsCovered

\* What the indent of a new line leaves behind when no indent was pending.
LEMMA IndentedKeepsStack ==
    ASSUME TypeOK, StackWithinTotal, PendingIsSane, NEW width \in Nat, Indented(width),
           indent_dedent_delta <= 0
    PROVE  /\ total_indent_width' \in Nat
           /\ indent_dedent_delta' \in Int
           /\ indent_stack' \in Seq(0 .. Byte - 1)
           /\ cut' \in BOOLEAN
           /\ StackWithinTotal'
           /\ indent_dedent_delta' <= 1
           /\ width <= total_indent_width => indent_dedent_delta' <= 0
           /\ total_indent_width' + (IF indent_dedent_delta' < 0 THEN indent_dedent_delta' ELSE 0)
                 <= width
<1>0. /\ total_indent_width \in Nat /\ indent_dedent_delta \in Int
      /\ indent_stack \in Seq(0 .. Byte - 1) /\ cut \in BOOLEAN
  BY DEF TypeOK
<1>1. CASE width > total_indent_width /\ push_indent(width - total_indent_width)
  <2>1. width - total_indent_width \in Nat
    BY <1>0, <1>1
  <2>2. total_indent_width' = width /\ indent_dedent_delta' = 1 /\ cut' \in BOOLEAN
    BY <1>0, <1>1 DEF push_indent
  <2> QED BY <1>0, <1>1, <2>1, <2>2, PushKeepsStack
<1>2. CASE /\ width < total_indent_width
           /\ indent_dedent_delta' = width - total_indent_width
           /\ UNCHANGED <<indent_stack, cut, total_indent_width>>
  BY <1>0, <1>2 DEF StackWithinTotal
<1>3. CASE width = total_indent_width /\ UNCHANGED layout
  BY <1>0, <1>3 DEF StackWithinTotal, layout
<1> QED BY <1>1, <1>2, <1>3 DEF Indented

\* Lines are indented by a number of columns, and what a continuation leaves
\* of a line is a line with the same indent.
LEMMA LineWidth ==
    ASSUME NEW l \in Lines \cup {NoLine}
    PROVE  l.width \in Nat
<1>1. CASE l \in Lines
  <2>1. l.width \in Widths
    BY <1>1 DEF Lines
  <2> QED BY <2>1, WidthsAssumption
<1>2. CASE l = NoLine
  BY <1>2 DEF NoLine
<1> QED BY <1>1, <1>2

LEMMA RestOfLine ==
    ASSUME NEW l \in Lines, NEW k \in Kinds
    PROVE  /\ [l EXCEPT !.dots = FALSE, !.kind = k] \in Lines
           /\ [l EXCEPT !.dots = FALSE, !.kind = k].width = l.width
BY DEF Lines

\* So does the beginning of a line as a whole, also where the stack is full.
LEMMA BeginLineKeepsInv ==
    ASSUME LexerInv, NEW l \in Lines, BeginLine(l, "content"), indent_dedent_delta <= 0,
           pending_error' \in {0, 1}, depth' \in Nat \cup {-1, -2}
    PROVE  LexerInv'
<1>0. l.width \in Nat /\ lines' \in 0 .. MaxLines /\ line' \in Lines \cup {NoLine} /\ line' = l
  BY LineWidth, LinesAssumption DEF LexerInv, TypeOK, BeginLine, Another
<1>1. CASE Indented(l.width) /\ at' = "content"
  <2>1. /\ total_indent_width' \in Nat
        /\ indent_dedent_delta' \in Int
        /\ indent_stack' \in Seq(0 .. Byte - 1)
        /\ cut' \in BOOLEAN
        /\ StackWithinTotal'
        /\ indent_dedent_delta' <= 1
        /\ total_indent_width' + (IF indent_dedent_delta' < 0 THEN indent_dedent_delta' ELSE 0)
              <= l.width
    BY <1>0, <1>1, IndentedKeepsStack DEF LexerInv
  <2>2. TypeOK'
    BY <1>0, <1>1, <2>1 DEF TypeOK, Places
  <2>3. PendingIsSane' /\ ContentIsCovered'
    BY <1>0, <1>1, <2>1 DEF PendingIsSane, ContentIsCovered
  <2> QED BY <2>1, <2>2, <2>3 DEF LexerInv
<1>2. CASE at' = "overflow" /\ UNCHANGED layout
  BY <1>0, <1>2 DEF LexerInv, TypeOK, StackWithinTotal, PendingIsSane, ContentIsCovered, layout, Places
<1> QED BY <1>1, <1>2 DEF BeginLine

\* The steps that leave the layout alone and do not begin a line.
LEMMA LayoutStaysKeepsInv ==
    ASSUME LexerInv, UNCHANGED <<line, lines, layout>>,
           at' \in Places, at' = "content" => at = "content",
           at' \in {"start", "inside"} => at' = at,
           pending_error' \in {0, 1}, depth' \in Nat \cup {-1, -2}
    PROVE  LexerInv'
BY DEF LexerInv, TypeOK, StackWithinTotal, PendingIsSane, ContentIsCovered, layout

\* Every step of the lexer keeps the invariant.
LEMMA NextKeepsInv == LexerInv /\ [Next]_vars => LexerInv'
<1> SUFFICES ASSUME LexerInv, [Next]_vars PROVE LexerInv'
  OBVIOUS
<1>0. /\ at \in Places /\ pending_error \in {0, 1} /\ depth \in Nat \cup {-1, -2}
      /\ total_indent_width \in Nat /\ indent_dedent_delta \in Int
      /\ indent_stack \in Seq(0 .. Byte - 1) /\ cut \in BOOLEAN
      /\ lines \in 0 .. MaxLines /\ line \in Lines \cup {NoLine}
  BY DEF LexerInv, TypeOK
<1>1. CASE Start
  <2>1. indent_dedent_delta <= 0
    BY <1>1 DEF LexerInv, PendingIsSane, Start
  <2>2. CASE NoMoreText
    BY <1>0, <1>1, <2>2, LayoutStaysKeepsInv DEF Start, NoMoreText, Places
  <2>3. ASSUME NEW l \in Lines, BeginLine(l, "content") PROVE LexerInv'
    BY <1>0, <1>1, <2>1, <2>3, BeginLineKeepsInv DEF Start
  <2> QED BY <1>1, <2>2, <2>3 DEF Start
<1>2. CASE EmitError
  BY <1>0, <1>2, LayoutStaysKeepsInv DEF EmitError
<1>3. CASE EmitIndent
  BY <1>0, <1>3 DEF EmitIndent, LexerInv, TypeOK, StackWithinTotal, PendingIsSane, ContentIsCovered
<1>4. CASE EmitDedent
  <2>1. /\ pop_indent.width \in Nat
        /\ total_indent_width' \in Nat
        /\ indent_stack' \in Seq(0 .. Byte - 1)
        /\ StackWithinTotal'
    BY <1>4, PopKeepsStack DEF EmitDedent, LexerInv
  <2>2. /\ indent_dedent_delta < 0
        /\ indent_dedent_delta' = Remaining(indent_dedent_delta + pop_indent.width)
        /\ total_indent_width' = total_indent_width - pop_indent.width
        /\ depth' = Dedented(depth)
        /\ UNCHANGED <<at, line, lines, cut, pending_error>>
    BY <1>4 DEF EmitDedent
  <2>3. depth' \in Nat \cup {-1, -2}
    BY <1>0, <2>2 DEF Dedented
  <2>4. TypeOK' /\ PendingIsSane'
    BY <1>0, <2>1, <2>2, <2>3 DEF TypeOK, PendingIsSane, Remaining
  <2>5. ContentIsCovered'
    <3> SUFFICES ASSUME at = "content"
                 PROVE  total_indent_width'
                          + (IF indent_dedent_delta' < 0 THEN indent_dedent_delta' ELSE 0)
                            <= line.width
      BY <2>2 DEF ContentIsCovered
    <3>1. total_indent_width + indent_dedent_delta <= line.width /\ line.width \in Int
      BY <1>0, <2>2, LineWidth DEF LexerInv, ContentIsCovered
    <3>2. pop_indent.width \in Int /\ indent_dedent_delta + pop_indent.width \in Int
      BY <1>0, <2>1
    <3>3. CASE indent_dedent_delta + pop_indent.width > 0
      BY <1>0, <2>2, <3>1, <3>2, <3>3 DEF Remaining
    <3>4. CASE ~(indent_dedent_delta + pop_indent.width > 0)
      BY <1>0, <2>2, <3>1, <3>2, <3>4 DEF Remaining
    <3> QED BY <3>3, <3>4
  <2> QED BY <2>1, <2>4, <2>5 DEF LexerInv
<1>5. CASE PlainToken
  BY <1>0, <1>5, LayoutStaysKeepsInv DEF PlainToken, Places
<1>6. CASE LineBreak
  <2>1. indent_dedent_delta = 0
    BY <1>6 DEF LineBreak, Clear
  <2>2. CASE NoMoreText
    BY <1>0, <1>6, <2>2, LayoutStaysKeepsInv DEF LineBreak, NoMoreText, Places
  <2>3. CASE /\ at' = "end"
             /\ indent_dedent_delta' = -total_indent_width
             /\ UNCHANGED <<line, lines, total_indent_width, indent_stack, cut>>
    BY <1>0, <1>6, <2>3
       DEF LineBreak, LexerInv, TypeOK, StackWithinTotal, PendingIsSane, ContentIsCovered, Places
  <2>4. ASSUME NEW l \in Lines, BeginLine(l, "content") PROVE LexerInv'
    BY <1>0, <1>6, <2>1, <2>4, BeginLineKeepsInv DEF LineBreak
  <2> QED BY <1>6, <2>2, <2>3, <2>4 DEF LineBreak
<1>7. CASE TokenEndsText
  BY <1>0, <1>7, LayoutStaysKeepsInv DEF TokenEndsText, Places
<1>8. CASE TokenEndsLastLine
  BY <1>0, <1>8, LayoutStaysKeepsInv DEF TokenEndsLastLine, NoMoreText, Unterminated, Places
<1>a. AtLineEnd => indent_dedent_delta <= 0
  BY <1>0 DEF AtLineEnd, Clear, LexerInv, PendingIsSane
<1>9. CASE TokenEndsLine
  <2>1. PICK l \in Lines : BeginLine(l, "content")
    BY <1>9 DEF TokenEndsLine
  <2> QED BY <1>0, <1>9, <1>a, <2>1, BeginLineKeepsInv DEF TokenEndsLine, Unterminated
<1>10. CASE TokenContinues
  <2>1. PICK l \in Lines :
           /\ l.width <= total_indent_width
           /\ Indented(l.width)
           /\ Another([l EXCEPT !.dots = FALSE,
                                !.kind = IF line.kind = "comment" THEN "comment" ELSE @])
           /\ at' \in {"inside", "content"}
    BY <1>10 DEF TokenContinues
  <2>2. l.width \in Nat
    BY LineWidth
  <2>3. lines' \in 0 .. MaxLines /\ line' \in Lines /\ line'.width = l.width
    <3> DEFINE k == IF line.kind = "comment" THEN "comment" ELSE l.kind
    <3>1. k \in Kinds
      BY DEF Lines, Kinds
    <3>2. line' = [l EXCEPT !.dots = FALSE, !.kind = k]
      BY <2>1 DEF Another, Lines
    <3>3. lines' \in 0 .. MaxLines
      BY <1>0, <2>1, LinesAssumption DEF Another
    <3> HIDE DEF k
    <3> QED BY <3>1, <3>2, <3>3, RestOfLine
  <2>4. /\ total_indent_width' \in Nat
        /\ indent_dedent_delta' \in Int
        /\ indent_stack' \in Seq(0 .. Byte - 1)
        /\ cut' \in BOOLEAN
        /\ StackWithinTotal'
        /\ indent_dedent_delta' <= 0
        /\ total_indent_width' + (IF indent_dedent_delta' < 0 THEN indent_dedent_delta' ELSE 0)
              <= l.width
    BY <1>10, <1>a, <2>1, <2>2, IndentedKeepsStack DEF LexerInv, TokenContinues
  <2>5. pending_error' = pending_error /\ depth' = depth
    BY <1>10 DEF TokenContinues
  <2>6. TypeOK'
    BY <1>0, <2>1, <2>3, <2>4, <2>5 DEF TypeOK, Places
  <2>7. PendingIsSane' /\ ContentIsCovered'
    BY <2>3, <2>4 DEF PendingIsSane, ContentIsCovered
  <2> QED BY <2>4, <2>6, <2>7 DEF LexerInv
<1>11. CASE Finish
  BY <1>0, <1>11, LayoutStaysKeepsInv DEF Finish, Places
<1>12. CASE UNCHANGED vars
  BY <1>0, <1>12, LayoutStaysKeepsInv DEF vars
<1> QED BY <1>1, <1>2, <1>3, <1>4, <1>5, <1>6, <1>7, <1>8, <1>9, <1>10, <1>11, <1>12 DEF Next

\* The invariant holds of every text.
LEMMA LexerInvariant == Spec => []LexerInv
<1>1. Init => LexerInv
  <2> SUFFICES ASSUME Init PROVE LexerInv
    OBVIOUS
  <2>1. TypeOK
    <3>1. cut \in BOOLEAN
      BY DEF Init
    <3> QED BY <3>1, LinesAssumption DEF Init, TypeOK, Places
  <2>2. StackWithinTotal
    BY EmptyEndsAt DEF Init, StackWithinTotal
  <2> QED BY <2>1, <2>2 DEF Init, LexerInv, PendingIsSane, ContentIsCovered
<1> QED BY <1>1, NextKeepsInv, PTL DEF Spec

\* Type correctness of the lexer, whatever the text: the stack holds bytes and
\* popping never takes the total width below zero, although push_indent() cuts
\* the widths on the stack down to a byte and the total it does not.
THEOREM LexerTypeOK == Spec => []TypeOK
<1>1. LexerInv => TypeOK
  BY DEF LexerInv
<1> QED BY <1>1, LexerInvariant, PTL

\* When the first token of a line is reported no block is open that is indented
\* further than the line, in texts of any length and with indents of any
\* width, those included that do not fit a byte or overtake a dedent that a
\* continuation line left pending.
THEOREM LexerNoBlockTooMany == Spec => []NoBlockTooMany
<1>1. LexerInv => NoBlockTooMany
  BY DEF LexerInv, TypeOK, ContentIsCovered, NoBlockTooMany, Clear
<1> QED BY <1>1, LexerInvariant, PTL
-----------------------------------------------------------------------------
\* Tokens and the stack. push_indent() cuts a width down to a byte, and a block
\* whose width was cut cannot be closed again: pop_indent() returns too little
\* and dedents are reported after the stack has run empty. Up to the first such
\* width the stack takes up the whole of the total width, the columns to be
\* closed are within it, and the tokens are those of the stack.
Reported ==
    ~cut => /\ EndsAt(indent_stack, total_indent_width)
            /\ indent_dedent_delta >= -total_indent_width
            /\ depth + (IF indent_dedent_delta > 0 THEN 1 ELSE 0) = Len(indent_stack)

\* The indent of a new line keeps the reports exact.
LEMMA IndentedKeepsReports ==
    ASSUME TypeOK, Reported, indent_dedent_delta <= 0,
           NEW width \in Nat, Indented(width), UNCHANGED depth
    PROVE  Reported'
<1> SUFFICES ASSUME ~cut' PROVE Reported'
  BY DEF Reported
<1>a. cut \in BOOLEAN /\ ~cut
  BY DEF TypeOK, Indented, push_indent, layout
<1>0. /\ total_indent_width \in Nat /\ indent_dedent_delta \in Int
      /\ indent_stack \in Seq(0 .. Byte - 1) /\ indent_stack \in Seq(Nat)
      /\ depth \in Int
  BY ByteAssumption DEF TypeOK
<1>1. depth = Len(indent_stack)
  BY <1>0, <1>a DEF Reported
<1>2. CASE width > total_indent_width /\ push_indent(width - total_indent_width)
  <2> DEFINE w == width - total_indent_width
  <2>1. w \in Nat /\ w % Byte = w /\ total_indent_width + w = width
    <3>0. ~(w >= Byte)
      BY <1>2 DEF push_indent
    <3>1. w \in Nat /\ w < Byte /\ total_indent_width + w = width
      BY <1>0, <1>2, <3>0, ByteAssumption
    <3> HIDE DEF w
    <3>2. w % Byte = w
      BY <3>1, ByteAssumption
    <3> QED BY <3>1, <3>2
  <2>2. /\ indent_stack' = Append(indent_stack, w)
        /\ total_indent_width' = total_indent_width + w
        /\ indent_dedent_delta' = 1
    BY <1>2, <2>1 DEF push_indent
  <2> HIDE DEF w
  <2>3. EndsAt(indent_stack', total_indent_width')
    BY <1>0, <1>a, <2>1, <2>2, AppendEndsAt DEF Reported
  <2>4. Len(indent_stack') = Len(indent_stack) + 1
    BY <1>0, <2>1, <2>2
  <2> QED BY <1>0, <1>1, <2>1, <2>2, <2>3, <2>4 DEF Reported
<1>3. CASE /\ width < total_indent_width
           /\ indent_dedent_delta' = width - total_indent_width
           /\ UNCHANGED <<indent_stack, cut, total_indent_width>>
  BY <1>0, <1>1, <1>a, <1>3 DEF Reported
<1>4. CASE width = total_indent_width /\ UNCHANGED layout
  BY <1>0, <1>4 DEF Reported, layout
<1> QED BY <1>2, <1>3, <1>4 DEF Indented

\* In any text, up to the first line that is indented by 256 columns or more
\* against its block, the indent and dedent tokens that the caller has seen are
\* exactly the blocks on the stack, but for an indent that is still to be
\* reported: there is no dedent without its indent.
THEOREM LexerTokensMatchStack == Spec => []TokensMatchStack
<1>1. Init => Reported
  BY EmptyEndsAt DEF Init, Reported
<1>2. LexerInv /\ Reported /\ [Next]_vars => Reported'
  <2> SUFFICES ASSUME LexerInv, Reported, [Next]_vars PROVE Reported'
    OBVIOUS
  <2>0. /\ TypeOK /\ PendingIsSane
        /\ total_indent_width \in Nat /\ indent_dedent_delta \in Int
        /\ indent_stack \in Seq(0 .. Byte - 1) /\ indent_stack \in Seq(Nat)
        /\ depth \in Int
    BY ByteAssumption DEF LexerInv, TypeOK
  <2>1. ASSUME UNCHANGED <<layout, depth>> PROVE Reported'
    BY <2>1 DEF Reported, layout
  <2>2. ASSUME NEW l \in Lines, BeginLine(l, "content"), indent_dedent_delta <= 0,
               UNCHANGED depth
        PROVE  Reported'
    <3>1. l.width \in Nat
      BY LineWidth
    <3> QED BY <2>0, <2>1, <2>2, <3>1, IndentedKeepsReports DEF BeginLine
  <2>3. CASE EmitIndent
    BY <2>0, <2>3 DEF EmitIndent, LexerInv, PendingIsSane, Reported
  <2>4. CASE EmitDedent
    <3> SUFFICES ASSUME ~cut' PROVE Reported'
      BY DEF Reported
    <3>0. ~cut
      BY <2>4 DEF EmitDedent
    <3>1. /\ indent_dedent_delta < 0
          /\ indent_dedent_delta' = Remaining(indent_dedent_delta + pop_indent.width)
          /\ total_indent_width' = total_indent_width - pop_indent.width
          /\ indent_stack' = pop_indent.stack
          /\ depth' = Dedented(depth)
      BY <2>4 DEF EmitDedent
    <3>2. indent_stack # << >>
      <4> SUFFICES ASSUME indent_stack = << >> PROVE FALSE
        OBVIOUS
      <4>1. total_indent_width = 0
        BY <3>0, EmptyEndsAt DEF Reported
      <4> QED BY <2>0, <3>0, <3>1, <4>1 DEF Reported
    <3> DEFINE n == Len(indent_stack)
               w == indent_stack[n]
    <3>3. pop_indent.width = w /\ pop_indent.stack = SubSeq(indent_stack, 1, n - 1)
      BY <3>2 DEF pop_indent
    <3>4. n \in Nat \ {0} /\ w \in Nat /\ Len(pop_indent.stack) = n - 1
      BY <2>0, <3>2, <3>3, FrontOfStack
    <3>5. EndsAt(indent_stack', total_indent_width') /\ total_indent_width' \in Nat
      BY <2>0, <3>0, <3>1, <3>2, <3>3, FrontEndsAt DEF Reported
    <3> HIDE DEF n, w
    <3>6. depth = n /\ depth' = n - 1
      BY <2>0, <3>0, <3>1, <3>4 DEF Reported, Dedented, n
    <3>7. indent_dedent_delta' <= 0 /\ indent_dedent_delta' >= -total_indent_width'
      <4>1. /\ indent_dedent_delta' = Remaining(indent_dedent_delta + w)
            /\ total_indent_width' = total_indent_width - w
            /\ indent_dedent_delta + w >= -total_indent_width'
        BY <2>0, <3>0, <3>1, <3>3, <3>4 DEF Reported
      <4>2. CASE indent_dedent_delta + w > 0
        BY <3>5, <4>1, <4>2 DEF Remaining
      <4>3. CASE ~(indent_dedent_delta + w > 0)
        BY <2>0, <3>4, <4>1, <4>3 DEF Remaining
      <4> QED BY <4>2, <4>3
    <3>8. indent_dedent_delta' \in Int
      BY <2>0, <3>1, <3>3, <3>4 DEF Remaining
    <3>9. depth' + (IF indent_dedent_delta' > 0 THEN 1 ELSE 0) = Len(indent_stack')
      BY <3>1, <3>4, <3>6, <3>7, <3>8
    <3> QED BY <3>5, <3>7, <3>9 DEF Reported
  <2>5. CASE Start
    <3>1. indent_dedent_delta <= 0
      BY <2>0, <2>5 DEF Start, PendingIsSane
    <3> QED BY <2>1, <2>2, <2>5, <3>1 DEF Start, NoMoreText
  <2>6. CASE LineBreak
    <3>1. indent_dedent_delta <= 0
      BY <2>6 DEF LineBreak, Clear
    <3>2. CASE /\ indent_dedent_delta' = -total_indent_width
               /\ UNCHANGED <<total_indent_width, indent_stack, cut, depth>>
      BY <2>0, <3>1, <3>2 DEF Reported
    <3> QED BY <2>1, <2>2, <2>6, <3>1, <3>2 DEF LineBreak, NoMoreText
  <2>7. AtLineEnd => indent_dedent_delta <= 0
    BY <2>0 DEF AtLineEnd, Clear, PendingIsSane
  <2>8. CASE TokenEndsLine
    BY <2>2, <2>7, <2>8 DEF TokenEndsLine
  <2>9. CASE TokenContinues
    <3>1. PICK l \in Lines : Indented(l.width)
      BY <2>9 DEF TokenContinues
    <3>2. l.width \in Nat
      BY LineWidth
    <3> QED BY <2>0, <2>7, <2>9, <3>1, <3>2, IndentedKeepsReports DEF TokenContinues
  <2> QED BY <2>1, <2>3, <2>4, <2>5, <2>6, <2>8, <2>9
         DEF Next, vars, EmitError, PlainToken, TokenEndsText, TokenEndsLastLine, NoMoreText, Finish
<1>3. Reported => TokensMatchStack
  BY DEF Reported, TokensMatchStack
<1> QED BY <1>1, <1>2, <1>3, LexerInvariant, PTL DEF Spec
=============================================================================
