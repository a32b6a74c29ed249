--------------------------- MODULE JsonReaderProofs ---------------------------
(***************************************************************************)
(* json::reader, for texts of any length and any settings: it stays within *)
(* its text, last_value_ points to a living value, parse() tells the truth *)
(* about errors and the offsets of an accepted value nest, for any number  *)
(* of readers; and the depth of the stack is bounded, for one reader.      *)
(*                                                                         *)
(* Steps are put together from a few moves: taking a token, beginning to   *)
(* read a value, going down to a child, completing a value, failing. There *)
(* is a lemma for each, about the tree and then about the reader, and one  *)
(* for each step.                                                          *)
(***************************************************************************)
EXTENDS JsonReader, WellFoundedInduction, TLAPS

\* Strings, with the literals that readers make. (To the provers a literal is
\* not a member of STRING, and neither is what ToString() returns.)
Text == STRING \cup {"eof", "", "1", "a", "n", "object", "array"} \cup {ToString(n) : n \in Nat}
Path == Seq(Text)
Lexemes == Seq(Text)

Pcs == {"idle", "value", "first", "member", "colon", "comma", "separator",
        "comma after comment", "recover", "end", "done", "thrown", "pushed"}
Before == {"value", "first"}
Inside == {"member", "colon", "comma", "comma after comment", "separator"}

\* Where a value p stands when the reader is at the value h, which it has not
\* begun to read if b: it is being read, or it was read to its end, or what is
\* there is left from a member of the same name and will be overwritten.
Unread(h, b, p) == b /\ IsPrefix(h, p)
Open(h, b, p) == IsPrefix(p, h) /\ ~Unread(h, b, p)
Closed(h, b, p) == ~IsPrefix(p, h) /\ ~Unread(h, b, p)
Apart(p, q) == ~IsPrefix(p, q) /\ ~IsPrefix(q, p)

\* The offsets of the values that were read so far, up to the offset at; e is 1
\* where a value may begin with its container, and 0 elsewhere.
Laid(t, h, b, at, e) ==
    /\ \A p \in DOMAIN t : Open(h, b, p) => t[p].start < at + e
    /\ \A p \in DOMAIN t : Closed(h, b, p) => t[p].start < t[p].limit /\ t[p].limit <= at
    /\ \A p, q \in DOMAIN t : IsStrictPrefix(p, q) /\ Open(h, b, p) /\ ~Unread(h, b, q) =>
          t[p].start < t[q].start + e
    /\ \A p, q \in DOMAIN t : IsStrictPrefix(p, q) /\ Closed(h, b, p) /\ Closed(h, b, q) =>
          t[p].start < t[q].start + e /\ t[q].limit < t[p].limit
    /\ \A p, q \in DOMAIN t : Apart(p, q) /\ Closed(h, b, p) /\ Closed(h, b, q) =>
          t[p].limit <= t[q].start \/ t[q].limit <= t[p].start
    /\ \A p, q \in DOMAIN t : Apart(p, q) /\ Closed(h, b, p) /\ Open(h, b, q) =>
          t[p].limit <= t[q].start

\* What OffsetsNest says of one tree.
Nested(t, e) ==
    \A p, q \in DOMAIN t :
      /\ t[p].start < t[p].limit
      /\ IsStrictPrefix(p, q) => t[p].start < t[q].start + e /\ t[q].limit < t[p].limit
      /\ Apart(p, q) => t[p].limit <= t[q].start \/ t[q].limit <= t[p].start

\* The stack is the way from the root to the current value.
StackIsPath(nodes, tree) ==
    \A i \in 1 .. Len(nodes) :
      /\ nodes[i].path \in DOMAIN tree /\ Len(nodes[i].path) = i - 1
      /\ i > 1 => Front(nodes[i].path) = nodes[i - 1].path

\* last_value_ is the current value, one above it, or a child of one of these,
\* and so is never below a value that is about to be overwritten.
LastIsNear(s, b) ==
    /\ s.last = << >> \/ IsPrefix(Front(s.last), Here(s))
    /\ b => ~IsStrictPrefix(Here(s), s.last)

-----------------------------------------------------------------------------
\* Paths

LEMMA PrefixDef ==
    ASSUME NEW p \in Path, NEW q \in Path
    PROVE  IsPrefix(p, q) <=> Len(p) <= Len(q) /\ \A i \in 1 .. Len(p) : p[i] = q[i]
BY DEF IsPrefix, Path

LEMMA PathsAgree ==
    ASSUME NEW p \in Path, NEW q \in Path, Len(p) = Len(q), \A i \in 1 .. Len(p) : p[i] = q[i]
    PROVE  p = q
BY DEF Path

LEMMA LenFacts == \A p \in Path : Len(p) \in Nat /\ (Len(p) = 0 <=> p = << >>)
BY DEF Path

LEMMA FrontFacts ==
    ASSUME NEW q \in Path, q # << >>
    PROVE  /\ Front(q) \in Path /\ Len(Front(q)) = Len(q) - 1 /\ Len(q) > 0
           /\ \A i \in 1 .. Len(q) - 1 : Front(q)[i] = q[i]
           /\ Last(q) \in Text /\ Append(Front(q), Last(q)) = q /\ Front(q) # q
<1>1. Len(q) \in Nat /\ Len(q) > 0
  BY DEF Path
<1>2. /\ Front(q) \in Path /\ Len(Front(q)) = Len(q) - 1
      /\ \A i \in 1 .. Len(q) - 1 : Front(q)[i] = q[i]
  <2> DEFINE n == Len(q) - 1
  <2>1. n \in Nat /\ n <= Len(q)
    BY <1>1
  <2> HIDE DEF n
  <2>2. /\ SubSeq(q, 1, n) \in Seq(Text) /\ Len(SubSeq(q, 1, n)) = n
        /\ \A i \in 1 .. n : SubSeq(q, 1, n)[i] = q[i]
    BY <1>1, <2>1 DEF Path
  <2> QED BY <2>1, <2>2 DEF Front, Path, n
<1>3. Last(q) \in Text
  BY <1>1 DEF Last, Path
<1>4. Append(Front(q), Last(q)) = q
  <2>1. Append(Front(q), Last(q)) \in Path /\ Len(Append(Front(q), Last(q))) = Len(q)
    BY <1>1, <1>2, <1>3 DEF Path
  <2>2. ASSUME NEW i \in 1 .. Len(q) PROVE Append(Front(q), Last(q))[i] = q[i]
    BY <1>1, <1>2, <1>3 DEF Path, Last
  <2> QED BY <2>1, <2>2 DEF Path
<1>5. Front(q) # q
  BY <1>1, <1>2
<1> QED BY <1>1, <1>2, <1>3, <1>4, <1>5

LEMMA FrontUnder ==
    ASSUME NEW p \in Path, NEW q \in Path, q # << >>
    PROVE  IsPrefix(p, Front(q)) <=> IsPrefix(p, q) /\ p # q
<1>1. Len(p) \in Nat /\ Len(q) \in Nat
  BY DEF Path
<1>2. IsPrefix(p, Front(q)) => IsPrefix(p, q) /\ p # q
  BY <1>1, FrontFacts, PrefixDef
<1>3. ASSUME IsPrefix(p, q), p # q PROVE IsPrefix(p, Front(q))
  <2>1. Len(p) <= Len(q) /\ \A i \in 1 .. Len(p) : p[i] = q[i]
    BY <1>3, PrefixDef
  <2>2. Len(p) # Len(q)
    BY <1>3, <2>1 DEF Path
  <2>3. Len(p) <= Len(q) - 1
    BY <1>1, <2>1, <2>2
  <2> QED BY <1>1, <2>1, <2>3, FrontFacts, PrefixDef
<1> QED BY <1>2, <1>3

LEMMA PrefixFacts ==
    /\ \A p \in Path : IsPrefix(p, p) /\ IsPrefix(<< >>, p) /\ (IsPrefix(p, << >>) => p = << >>)
    /\ \A p, q \in Path : IsPrefix(p, q) /\ IsPrefix(q, p) => p = q
    /\ \A p, q, r \in Path : IsPrefix(p, q) /\ IsPrefix(q, r) => IsPrefix(p, r)
    /\ \A p, q, r \in Path : IsPrefix(p, r) /\ IsPrefix(q, r) => IsPrefix(p, q) \/ IsPrefix(q, p)
<1>1. << >> \in Path /\ Len(<< >>) = 0
  BY DEF Path
<1>2. \A p \in Path : IsPrefix(p, p) /\ IsPrefix(<< >>, p) /\ (IsPrefix(p, << >>) => p = << >>)
  BY <1>1, PrefixDef, LenFacts
<1>3. \A p, q \in Path : IsPrefix(p, q) /\ IsPrefix(q, p) => p = q
  BY PrefixDef, LenFacts, PathsAgree
<1>4. \A p, q, r \in Path : IsPrefix(p, q) /\ IsPrefix(q, r) => IsPrefix(p, r)
  BY PrefixDef, LenFacts
<1>5. \A p, q, r \in Path : IsPrefix(p, r) /\ IsPrefix(q, r) => IsPrefix(p, q) \/ IsPrefix(q, p)
  BY PrefixDef, LenFacts
<1> QED BY <1>2, <1>3, <1>4, <1>5

LEMMA AppendFacts ==
    ASSUME NEW p \in Path, NEW k \in Text, NEW a, a = Append(p, k)
    PROVE  /\ a \in Path /\ a # << >> /\ a # p /\ Len(a) = Len(p) + 1 /\ Front(a) = p
           /\ \A q \in Path : IsPrefix(q, a) <=> IsPrefix(q, p) \/ q = a
<1>1. a \in Path /\ Len(a) = Len(p) + 1 /\ \A i \in 1 .. Len(p) : a[i] = p[i]
  BY DEF Path
<1>2. a # << >> /\ a # p
  BY <1>1, LenFacts
<1>3. Front(a) = p
  <2>1. /\ Front(a) \in Path /\ Len(Front(a)) = Len(a) - 1
        /\ \A i \in 1 .. Len(a) - 1 : Front(a)[i] = a[i]
    BY <1>1, <1>2, FrontFacts
  <2>2. Len(Front(a)) = Len(p) /\ \A i \in 1 .. Len(p) : Front(a)[i] = p[i]
    BY <1>1, <2>1, LenFacts
  <2> QED BY <2>1, <2>2, PathsAgree
<1>4. ASSUME NEW q \in Path PROVE IsPrefix(q, a) <=> IsPrefix(q, p) \/ q = a
  <2>1. IsPrefix(q, Front(a)) <=> IsPrefix(q, a) /\ q # a
    BY <1>1, <1>2, FrontUnder
  <2> QED BY <1>1, <1>3, <2>1, PrefixFacts
<1> QED BY <1>1, <1>2, <1>3, <1>4
-----------------------------------------------------------------------------
\* Trees: the offsets of what was read

Comments == [before : Lexemes, same : Lexemes, after : Lexemes]
Value == [kind : Text, com : Comments, start : Int, limit : Int]
Trees == UNION {[D -> Value] : D \in SUBSET Path}

LEMMA TreesDef == \A t : t \in Trees <=> DOMAIN t \subseteq Path /\ t \in [DOMAIN t -> Value]
BY DEF Trees

LEMMA TreeFacts ==
    ASSUME NEW t \in Trees, NEW p \in DOMAIN t
    PROVE  p \in Path /\ t[p] \in Value /\ t[p].start \in Int /\ t[p].limit \in Int
<1>1. p \in Path /\ t[p] \in Value
  BY TreesDef
<1> QED BY <1>1 DEF Value

\* u is t with other comments.
SameOffsets(t, u) ==
    /\ DOMAIN u = DOMAIN t
    /\ \A p \in DOMAIN t : u[p].start = t[p].start /\ u[p].limit = t[p].limit

\* Time passes: what was read stays as it is.
LEMMA LaidLater ==
    ASSUME NEW e \in {0, 1}, NEW t \in Trees, NEW u, SameOffsets(t, u), NEW h, NEW b, NEW at \in Int,
           NEW later \in Int, at <= later, Laid(t, h, b, at, e)
    PROVE  Laid(u, h, b, later, e)
<1>1. \A p \in DOMAIN t : t[p].start \in Int /\ t[p].limit \in Int
  BY TreeFacts
<1> QED BY <1>1 DEF Laid, SameOffsets

\* A value is begun: what was left below it is gone, and it starts behind all
\* that was read.
LEMMA LaidOpened ==
    ASSUME NEW e \in {0, 1}, NEW t \in Trees, NEW u \in Trees, NEW h \in DOMAIN t, NEW at \in Int,
           Laid(t, h, TRUE, at, e), NEW start \in Int, at <= start,
           NEW later \in Int, start <= later, start < later + e,
           \A q : q \in DOMAIN u <=> q \in DOMAIN t /\ ~IsStrictPrefix(h, q),
           u[h].start = start,
           \A q \in DOMAIN u : q # h => u[q].start = t[q].start /\ u[q].limit = t[q].limit
    PROVE  Laid(u, h, FALSE, later, e)
<1>1. \A p \in DOMAIN t : p \in Path /\ t[p].start \in Int /\ t[p].limit \in Int
  BY TreeFacts
<1>2. \A q \in DOMAIN u : q \in DOMAIN t
  OBVIOUS
<1>3. \A q \in DOMAIN u : IsPrefix(h, q) => q = h
  BY DEF IsStrictPrefix
<1>4. IsPrefix(h, h)
  BY <1>1, PrefixFacts
<1>5. \A q \in DOMAIN u : q # h => /\ Open(h, TRUE, q) <=> Open(h, FALSE, q)
                                   /\ Closed(h, TRUE, q) <=> Closed(h, FALSE, q)
                                   /\ ~Unread(h, TRUE, q)
  BY <1>3 DEF Open, Closed, Unread
<1>6. Open(h, FALSE, h) /\ ~Closed(h, FALSE, h)
  BY <1>4 DEF Open, Closed, Unread
<1>7. \A q \in DOMAIN u : ~IsStrictPrefix(h, q)
  OBVIOUS
<1>8. \A q \in DOMAIN u : Open(h, FALSE, q) => IsPrefix(q, h)
  BY DEF Open
<1>9. ASSUME NEW p \in DOMAIN u, Open(h, FALSE, p) PROVE u[p].start < later + e
  <2>1. CASE p = h
    BY <2>1
  <2>2. CASE p # h
    <3>1. t[p].start < at + e /\ t[p].start \in Int
      BY <1>1, <1>2, <1>5, <1>9, <2>2 DEF Laid
    <3> QED BY <2>2, <3>1
  <2> QED BY <2>1, <2>2
<1>10. ASSUME NEW p \in DOMAIN u, Closed(h, FALSE, p)
       PROVE  u[p].start < u[p].limit /\ u[p].limit <= later
  <2>1. p # h
    BY <1>6, <1>10
  <2>2. t[p].start < t[p].limit /\ t[p].limit <= at /\ t[p].limit \in Int
    BY <1>1, <1>2, <1>5, <1>10, <2>1 DEF Laid
  <2> QED BY <2>1, <2>2
<1>11. ASSUME NEW p \in DOMAIN u, NEW q \in DOMAIN u, IsStrictPrefix(p, q), Open(h, FALSE, p)
       PROVE  u[p].start < u[q].start + e
  <2>1. p # h
    BY <1>7, <1>11
  <2>2. CASE q = h
    <3>1. t[p].start < at + e /\ t[p].start \in Int
      BY <1>1, <1>2, <1>5, <1>11, <2>1 DEF Laid
    <3> QED BY <2>1, <2>2, <3>1
  <2>3. CASE q # h
    BY <1>2, <1>5, <1>11, <2>1, <2>3 DEF Laid
  <2> QED BY <2>2, <2>3
<1>12. ASSUME NEW p \in DOMAIN u, NEW q \in DOMAIN u, Closed(h, FALSE, p), Closed(h, FALSE, q)
       PROVE  /\ IsStrictPrefix(p, q) => u[p].start < u[q].start + e /\ u[q].limit < u[p].limit
              /\ Apart(p, q) => u[p].limit <= u[q].start \/ u[q].limit <= u[p].start
  <2>1. p # h /\ q # h
    BY <1>6, <1>12
  <2> QED BY <1>2, <1>5, <1>12, <2>1 DEF Laid
<1>13. ASSUME NEW p \in DOMAIN u, NEW q \in DOMAIN u, Apart(p, q), Closed(h, FALSE, p), Open(h, FALSE, q)
       PROVE  u[p].limit <= u[q].start
  <2>1. p # h
    BY <1>6, <1>13
  <2>2. CASE q = h
    <3>1. t[p].limit <= at /\ t[p].limit \in Int
      BY <1>1, <1>2, <1>5, <1>13, <2>1 DEF Laid
    <3> QED BY <2>1, <2>2, <3>1
  <2>3. CASE q # h
    BY <1>2, <1>5, <1>13, <2>1, <2>3 DEF Laid
  <2> QED BY <2>2, <2>3
<1> QED BY <1>9, <1>10, <1>11, <1>12, <1>13 DEF Laid

\* A child is entered: it is there, or it is created, but not read yet.
LEMMA LaidBelow ==
    ASSUME NEW e \in {0, 1}, NEW t \in Trees, NEW u, NEW h \in DOMAIN t, NEW k \in Text, NEW at,
           NEW c, c = Append(h, k), Laid(t, h, FALSE, at, e),
           \A q : q \in DOMAIN u <=> q \in DOMAIN t \/ q = c, \A q \in DOMAIN t : u[q] = t[q]
    PROVE  Laid(u, c, TRUE, at, e)
<1>1. \A p \in DOMAIN t : p \in Path
  BY TreeFacts
<1>2. c \in Path /\ \A q \in Path : IsPrefix(q, c) <=> IsPrefix(q, h) \/ q = c
  BY <1>1, AppendFacts
<1>3. IsPrefix(c, c)
  BY <1>2, PrefixFacts
<1>4. \A q \in DOMAIN u : ~Unread(c, TRUE, q) => q \in DOMAIN t /\ u[q] = t[q]
  BY <1>3 DEF Unread
<1>5. \A q \in DOMAIN t : /\ Open(c, TRUE, q) => Open(h, FALSE, q)
                          /\ Closed(c, TRUE, q) => Closed(h, FALSE, q)
  BY <1>1, <1>2, <1>3 DEF Open, Closed, Unread
<1>6. \A q \in DOMAIN u : Open(c, TRUE, q) \/ Closed(c, TRUE, q) => ~Unread(c, TRUE, q)
  BY DEF Open, Closed
<1>7. \A q \in DOMAIN t : ~Unread(h, FALSE, q)
  BY DEF Unread
<1> QED BY <1>4, <1>5, <1>6, <1>7 DEF Laid

\* A value is complete: it ends behind all that was read.
LEMMA LaidClosed ==
    ASSUME NEW e \in {0, 1}, NEW t \in Trees, NEW u, NEW h \in DOMAIN t, h # << >>, NEW at \in Int,
           Laid(t, h, FALSE, at, e), DOMAIN u = DOMAIN t, u[h].start = t[h].start,
           u[h].limit \in Int, at <= u[h].limit, u[h].start < u[h].limit,
           at < u[h].limit \/ \A q \in DOMAIN t : ~IsStrictPrefix(h, q),
           \A q \in DOMAIN t : q # h => u[q].start = t[q].start /\ u[q].limit = t[q].limit
    PROVE  Laid(u, Front(h), FALSE, u[h].limit, e)
<1>1. \A p \in DOMAIN t : p \in Path /\ t[p].start \in Int /\ t[p].limit \in Int
  BY TreeFacts
<1>2. IsPrefix(h, h) /\ \A p \in DOMAIN t : IsPrefix(p, Front(h)) <=> IsPrefix(p, h) /\ p # h
  BY <1>1, FrontUnder, PrefixFacts
<1>3. \A p \in DOMAIN t : /\ Open(Front(h), FALSE, p) <=> Open(h, FALSE, p) /\ p # h
                          /\ Closed(Front(h), FALSE, p) <=> Closed(h, FALSE, p) \/ p = h
  BY <1>2 DEF Open, Closed, Unread
<1>4. Open(h, FALSE, h) /\ ~Closed(h, FALSE, h)
  BY <1>2 DEF Open, Closed, Unread
<1>5. \A p \in DOMAIN t : ~Unread(h, FALSE, p)
  BY DEF Unread
<1>6. \A p \in DOMAIN t : IsStrictPrefix(h, p) => Closed(h, FALSE, p) /\ p # h
  BY <1>1, PrefixFacts DEF IsStrictPrefix, Closed, Unread
<1>7. ASSUME NEW p \in DOMAIN u, Open(Front(h), FALSE, p) PROVE u[p].start < u[h].limit + e
  <2>1. p # h /\ t[p].start < at + e /\ t[p].start \in Int
    BY <1>1, <1>3, <1>7 DEF Laid
  <2> QED BY <2>1
<1>8. ASSUME NEW p \in DOMAIN u, Closed(Front(h), FALSE, p)
      PROVE  u[p].start < u[p].limit /\ u[p].limit <= u[h].limit
  <2>1. CASE p = h
    <3>1. t[h].start \in Int
      BY <1>1, <1>4 DEF Laid
    <3> QED BY <2>1, <3>1
  <2>2. CASE p # h
    <3>1. t[p].start < t[p].limit /\ t[p].limit <= at /\ t[p].limit \in Int
      BY <1>1, <1>3, <1>8, <2>2 DEF Laid
    <3> QED BY <2>2, <3>1
  <2> QED BY <2>1, <2>2
<1>9. ASSUME NEW p \in DOMAIN u, NEW q \in DOMAIN u, IsStrictPrefix(p, q), Open(Front(h), FALSE, p)
      PROVE  u[p].start < u[q].start + e
  BY <1>3, <1>5, <1>9 DEF Laid
<1>10. ASSUME NEW p \in DOMAIN u, NEW q \in DOMAIN u, IsStrictPrefix(p, q),
              Closed(Front(h), FALSE, p), Closed(Front(h), FALSE, q)
       PROVE  u[p].start < u[q].start + e /\ u[q].limit < u[p].limit
  <2>1. CASE p = h
    <3>1. Closed(h, FALSE, q) /\ q # h /\ at < u[h].limit
      BY <1>6, <1>10, <2>1
    <3>2. t[h].start < t[q].start + e /\ t[q].limit <= at
      BY <1>4, <1>5, <1>10, <2>1, <3>1 DEF Laid
    <3> QED BY <1>1, <2>1, <3>1, <3>2
  <2>2. CASE p # h
    <3>1. Closed(h, FALSE, p)
      BY <1>3, <1>10, <2>2
    <3>2. q # h
      BY <1>10, <3>1 DEF Closed, IsStrictPrefix
    <3>3. Closed(h, FALSE, q)
      BY <1>3, <1>10, <3>2
    <3> QED BY <1>10, <2>2, <3>1, <3>2, <3>3 DEF Laid
  <2> QED BY <2>1, <2>2
<1>11. ASSUME NEW p \in DOMAIN u, NEW q \in DOMAIN u, Apart(p, q),
              Closed(Front(h), FALSE, p), Closed(Front(h), FALSE, q)
       PROVE  u[p].limit <= u[q].start \/ u[q].limit <= u[p].start
  <2>1. CASE p = h
    <3>1. q # h /\ Apart(q, p)
      BY <1>2, <1>11, <2>1 DEF Apart
    <3>2. t[q].limit <= t[h].start
      BY <1>3, <1>4, <1>11, <2>1, <3>1 DEF Laid
    <3> QED BY <2>1, <3>1, <3>2
  <2>2. CASE q = h /\ p # h
    BY <1>3, <1>4, <1>11, <2>2 DEF Laid
  <2>3. CASE p # h /\ q # h
    BY <1>3, <1>11, <2>3 DEF Laid
  <2> QED BY <2>1, <2>2, <2>3
<1>12. ASSUME NEW p \in DOMAIN u, NEW q \in DOMAIN u, Apart(p, q),
              Closed(Front(h), FALSE, p), Open(Front(h), FALSE, q)
       PROVE  u[p].limit <= u[q].start
  <2>1. q # h /\ Open(h, FALSE, q)
    BY <1>3, <1>12
  <2>2. p # h
    BY <1>12, <2>1 DEF Apart, Open
  <2> QED BY <1>3, <1>12, <2>1, <2>2 DEF Laid
<1> QED BY <1>7, <1>8, <1>9, <1>10, <1>11, <1>12 DEF Laid

\* The root is complete: everything nests.
LEMMA LaidDone ==
    ASSUME NEW e \in {0, 1}, NEW t \in Trees, NEW u, << >> \in DOMAIN t, NEW at \in Int,
           Laid(t, << >>, FALSE, at, e), DOMAIN u = DOMAIN t, u[<< >>].start = t[<< >>].start,
           u[<< >>].limit \in Int, at <= u[<< >>].limit, u[<< >>].start < u[<< >>].limit,
           at < u[<< >>].limit \/ \A q \in DOMAIN t : ~IsStrictPrefix(<< >>, q),
           \A q \in DOMAIN t : q # << >> => u[q].start = t[q].start /\ u[q].limit = t[q].limit
    PROVE  Nested(u, e)
<1>1. \A p \in DOMAIN t : p \in Path /\ t[p].start \in Int /\ t[p].limit \in Int
  BY TreeFacts
<1>2. \A p \in DOMAIN t : /\ IsPrefix(<< >>, p) /\ (IsPrefix(p, << >>) <=> p = << >>)
                          /\ Open(<< >>, FALSE, p) <=> p = << >>
                          /\ Closed(<< >>, FALSE, p) <=> p # << >>
                          /\ ~Unread(<< >>, FALSE, p)
  BY <1>1, PrefixFacts DEF Open, Closed, Unread
<1>3. t[<< >>].start \in Int
  BY <1>1, <1>2 DEF Laid
<1>4. ASSUME NEW p \in DOMAIN u PROVE u[p].start < u[p].limit
  <2>1. CASE p = << >>
    BY <1>3, <2>1
  <2>2. CASE p # << >>
    BY <1>2, <2>2 DEF Laid
  <2> QED BY <2>1, <2>2
<1>5. ASSUME NEW p \in DOMAIN u, NEW q \in DOMAIN u, IsStrictPrefix(p, q)
      PROVE  u[p].start < u[q].start + e /\ u[q].limit < u[p].limit
  <2>1. q # << >>
    BY <1>2, <1>5 DEF IsStrictPrefix
  <2>2. CASE p = << >>
    <3>1. at < u[<< >>].limit
      BY <1>5, <2>2
    <3>2. Open(<< >>, FALSE, p) /\ Closed(<< >>, FALSE, q) /\ ~Unread(<< >>, FALSE, q)
      <4>1. p \in DOMAIN t /\ q \in DOMAIN t
        OBVIOUS
      <4>2. Closed(<< >>, FALSE, q) /\ ~Unread(<< >>, FALSE, q)
        BY <1>2, <2>1, <4>1
      <4>3. Open(<< >>, FALSE, p)
        BY <1>2, <2>2, <4>1
      <4> QED BY <4>2, <4>3
    <3>3. t[p].start < t[q].start + e /\ t[q].limit <= at
      BY <1>5, <3>2 DEF Laid
    <3>4. t[p].limit \in Int /\ t[q].limit \in Int
      BY <1>1
    <3> QED BY <2>1, <2>2, <3>1, <3>3, <3>4
  <2>3. CASE p # << >>
    BY <1>2, <1>5, <2>1, <2>3 DEF Laid
  <2> QED BY <2>2, <2>3
<1>6. ASSUME NEW p \in DOMAIN u, NEW q \in DOMAIN u, Apart(p, q)
      PROVE  u[p].limit <= u[q].start \/ u[q].limit <= u[p].start
  <2>1. p # << >> /\ q # << >>
    BY <1>2, <1>6 DEF Apart
  <2> QED BY <1>2, <1>6, <2>1 DEF Laid
<1> QED BY <1>4, <1>5, <1>6 DEF Nested

\* A value without children that ends where reading has come to.
LEMMA LaidScalar ==
    ASSUME NEW e \in {0, 1}, NEW t \in Trees, NEW h \in DOMAIN t, NEW at \in Int, at = t[h].limit, t[h].start < t[h].limit,
           Laid(t, h, FALSE, at, e), \A q \in DOMAIN t : ~IsStrictPrefix(h, q)
    PROVE  /\ h = << >> => Nested(t, e)
           /\ h # << >> => Laid(t, Front(h), FALSE, at, e)
<1>1. DOMAIN t = DOMAIN t /\ t[h].start = t[h].start /\ t[h].limit \in Int /\ at <= t[h].limit
  OBVIOUS
<1>2. \A q \in DOMAIN t : q # h => t[q].start = t[q].start /\ t[q].limit = t[q].limit
  OBVIOUS
<1>3. ASSUME h = << >> PROVE Nested(t, e)
  <2>1. << >> \in DOMAIN t /\ Laid(t, << >>, FALSE, at, e) /\ t[<< >>].start = t[<< >>].start
    BY <1>3
  <2>2. t[<< >>].limit \in Int /\ at <= t[<< >>].limit /\ t[<< >>].start < t[<< >>].limit
    BY <1>1, <1>3
  <2>3. \A q \in DOMAIN t : ~IsStrictPrefix(<< >>, q)
    BY <1>3
  <2>4. \A q \in DOMAIN t : q # << >> => t[q].start = t[q].start /\ t[q].limit = t[q].limit
    OBVIOUS
  <2> QED BY <1>1, <2>1, <2>2, <2>3, <2>4, LaidDone
<1>4. ASSUME h # << >> PROVE Laid(t, Front(h), FALSE, at, e)
  <2>1. Laid(t, Front(h), FALSE, t[h].limit, e)
    BY <1>1, <1>2, <1>4, LaidClosed
  <2> QED BY <2>1
<1> QED BY <1>3, <1>4
-----------------------------------------------------------------------------
\* Tokens

LEMMA LeastElement ==
    ASSUME NEW X \in SUBSET Nat, X # {}
    PROVE  \E m \in X : \A k \in X : m <= k
<1> DEFINE R == OpToRel(<, Nat)
<1>1. \A x, y \in Nat : x < y => <<x, y>> \in R
  BY DEF OpToRel
<1>2. IsWellFoundedOn(R, Nat)
  BY NatLessThanWellFounded
<1> HIDE DEF R
<1>3. PICK m \in X : \A k \in X : ~(<<k, m>> \in R)
  BY <1>2, WFMin
<1>4. \A k \in X : ~(k < m)
  BY <1>1, <1>3
<1> QED BY <1>4

LEMMA SkipFacts ==
    ASSUME NEW doc \in Lexemes, NEW cur \in 1 .. Len(doc) + 1
    PROVE  skip_spaces(doc, cur) \in cur .. Len(doc) + 1
<1> DEFINE P(i) == /\ \A j \in cur .. i - 1 : doc[j] \in Blanks
                   /\ i <= Len(doc) => doc[i] \notin Blanks
           X == {i \in cur .. Len(doc) + 1 : i <= Len(doc) => doc[i] \notin Blanks}
<1>1. Len(doc) \in Nat
  BY DEF Lexemes
<1>2. X \in SUBSET Nat /\ Len(doc) + 1 \in X
  BY <1>1
<1>3. PICK m \in X : \A k \in X : m <= k
  BY <1>2, LeastElement
<1>4. m \in cur .. Len(doc) + 1 /\ P(m)
  <2>1. ASSUME NEW j \in cur .. m - 1 PROVE doc[j] \in Blanks
    BY <1>1, <1>3, <2>1
  <2> QED BY <2>1, <1>3
<1> HIDE DEF P
<1>5. (CHOOSE i \in cur .. Len(doc) + 1 : P(i)) \in cur .. Len(doc) + 1
  BY <1>4
<1> QED BY <1>5 DEF skip_spaces, P

LEMMA LineFacts ==
    ASSUME NEW doc \in Lexemes, NEW cur \in 1 .. Len(doc) + 1
    PROVE  EndOfLine(doc, cur) \in cur .. Len(doc) + 1
<1> DEFINE P(i) == /\ \A j \in cur .. i - 2 : doc[j] # "nl"
                   /\ i > Len(doc) \/ (i > cur /\ doc[i - 1] = "nl")
                   /\ i > Len(doc) => \A j \in cur .. Len(doc) - 1 : doc[j] # "nl"
           X == {i \in cur .. Len(doc) + 1 : i <= Len(doc) => i > cur /\ doc[i - 1] = "nl"}
<1>1. Len(doc) \in Nat
  BY DEF Lexemes
<1>2. X \in SUBSET Nat /\ Len(doc) + 1 \in X
  BY <1>1
<1>3. PICK m \in X : \A k \in X : m <= k
  BY <1>2, LeastElement
<1>4. m \in cur .. Len(doc) + 1 /\ P(m)
  <2>1. ASSUME NEW j \in cur .. m - 2 PROVE doc[j] # "nl"
    <3>1. j + 1 \in cur .. Len(doc) + 1 /\ j + 1 < m /\ j + 1 > cur /\ (j + 1) - 1 = j
      BY <1>1, <1>3
    <3>2. ASSUME doc[j] = "nl" PROVE FALSE
      <4>1. j + 1 \in X
        BY <3>1, <3>2
      <4>2. m <= j + 1
        BY <1>3, <4>1
      <4> QED BY <3>1, <4>2
    <3> QED BY <3>2
  <2>2. m > Len(doc) \/ (m > cur /\ doc[m - 1] = "nl")
    BY <1>1, <1>3
  <2>3. m > Len(doc) => \A j \in cur .. Len(doc) - 1 : doc[j] # "nl"
    BY <1>1, <1>3, <2>1
  <2> QED BY <1>3, <2>1, <2>2, <2>3
<1> HIDE DEF P
<1>5. (CHOOSE i \in cur .. Len(doc) + 1 : P(i)) \in cur .. Len(doc) + 1
  BY <1>4
<1> QED BY <1>5 DEF EndOfLine, P

\* A token is within the text, at or behind the place where reading begins, and
\* is not empty unless the text is at its end.
IsToken(doc, cur, t) ==
    /\ t.lexeme \in Text
    /\ t.start \in cur .. Len(doc) + 1 /\ t.end \in t.start .. Len(doc) + 1
    /\ t.type # "end" => t.start < t.end

LEMMA TokenFacts ==
    ASSUME NEW doc \in Lexemes, NEW cur \in 1 .. Len(doc) + 1, NEW t, t = Token(doc, cur)
    PROVE  IsToken(doc, cur, t)
<1> DEFINE from == skip_spaces(doc, cur)
           lexeme == IF from <= Len(doc) THEN doc[from] ELSE "eof"
           to == CASE lexeme = "//" -> EndOfLine(doc, from + 1)
                   [] lexeme = "eof" -> from
                   [] OTHER -> from + 1
<1>1. t = [type |-> TokenType(lexeme), lexeme |-> lexeme, start |-> from, end |-> to]
  BY DEF Token
<1>2. Len(doc) \in Nat /\ from \in cur .. Len(doc) + 1
  BY SkipFacts DEF Lexemes
<1> HIDE DEF from
<1>3. lexeme \in Text /\ (lexeme # "eof" => from <= Len(doc))
  <2>1. from <= Len(doc) => doc[from] \in Text
    BY <1>2 DEF Lexemes
  <2>2. "eof" \in Text
    BY DEF Text
  <2> QED BY <2>1, <2>2
<1>4. from <= Len(doc) => EndOfLine(doc, from + 1) \in from + 1 .. Len(doc) + 1
  BY <1>2, LineFacts
<1> HIDE DEF lexeme
<1>5. to \in from .. Len(doc) + 1 /\ (lexeme # "eof" => from < to)
  BY <1>2, <1>3, <1>4
<1>6. lexeme = "eof" => TokenType(lexeme) = "end"
  BY DEF TokenType, Punctuation, Strings, Numbers, Literals, BlockComments
<1> HIDE DEF to
<1> QED BY <1>1, <1>2, <1>3, <1>5, <1>6 DEF IsToken
-----------------------------------------------------------------------------
\* What the parts of value.cpp do to a tree

LEMMA TreesIf ==
    ASSUME NEW t \in Trees, NEW u, NEW D, u = [q \in D |-> u[q]], D \subseteq Path,
           \A q \in D : u[q] \in Value
    PROVE  u \in Trees /\ DOMAIN u = D
<1>1. DOMAIN u = D /\ u \in [D -> Value]
  OBVIOUS
<1> QED BY <1>1, TreesDef

LEMMA CommentFacts ==
    ASSUME NEW t \in Trees, NEW p, NEW text \in Lexemes, NEW c \in {"before", "same", "after"},
           NEW u, u = set_comment(t, p, text, c)
    PROVE  u \in Trees /\ SameOffsets(t, u)
<1> DEFINE x == IF text # << >> /\ Last(text) = "nl" THEN Front(text) ELSE text
<1>1. x \in Lexemes
  <2>1. text # << >> => Front(text) \in Lexemes
    BY FrontFacts DEF Path, Lexemes
  <2> QED BY <2>1
<1>2. u = [t EXCEPT ![p].com[c] = x]
  BY DEF set_comment
<1> HIDE DEF x
<1>3. ASSUME NEW v \in Value, NEW w, w = [v EXCEPT !.com[c] = x]
      PROVE  w \in Value /\ w.start = v.start /\ w.limit = v.limit
  <2>1. v.com \in Comments
    BY DEF Value
  <2>2. [v.com EXCEPT ![c] = x] \in Comments
    BY <1>1, <2>1 DEF Comments
  <2>3. w = [v EXCEPT !.com = [v.com EXCEPT ![c] = x]]
    BY <1>3
  <2> QED BY <2>2, <2>3 DEF Value
<1>4. DOMAIN t \subseteq Path /\ \A q \in DOMAIN t : t[q] \in Value
  BY TreeFacts
<1>5. /\ u = [q \in DOMAIN t |-> u[q]]
      /\ \A q \in DOMAIN t : u[q] = IF q = p THEN [t[q] EXCEPT !.com[c] = x] ELSE t[q]
  BY <1>2, TreesDef
<1>6. ASSUME NEW q \in DOMAIN t
      PROVE  u[q] \in Value /\ u[q].start = t[q].start /\ u[q].limit = t[q].limit
  BY <1>3, <1>4, <1>5
<1> QED BY <1>4, <1>5, <1>6, TreesIf DEF SameOffsets

LEMMA PayloadFacts ==
    ASSUME NEW t \in Trees, NEW p \in DOMAIN t, NEW kind \in Text,
           NEW u, u = swap_payload(t, p, kind)
    PROVE  /\ u \in Trees /\ p \in DOMAIN u
           /\ \A q : q \in DOMAIN u <=> q \in DOMAIN t /\ ~IsStrictPrefix(p, q)
           /\ \A q \in DOMAIN u : u[q].start = t[q].start /\ u[q].limit = t[q].limit
<1> DEFINE D == {q \in DOMAIN t : ~IsStrictPrefix(p, q)}
<1>1. DOMAIN t \subseteq Path /\ \A q \in DOMAIN t : t[q] \in Value
  BY TreeFacts
<1>2. D \subseteq Path /\ p \in D /\ D \subseteq DOMAIN t
  BY <1>1 DEF IsStrictPrefix
<1>3. /\ u = [q \in D |-> u[q]]
      /\ \A q \in D : u[q] = IF q = p THEN [t[q] EXCEPT !.kind = kind] ELSE t[q]
  BY DEF swap_payload
<1> HIDE DEF D
<1>4. ASSUME NEW q \in D
      PROVE  u[q] \in Value /\ u[q].start = t[q].start /\ u[q].limit = t[q].limit
  <2>1. t[q] \in Value
    BY <1>1, <1>2
  <2>2. [t[q] EXCEPT !.kind = kind] \in Value
    BY <2>1 DEF Value
  <2>3. /\ [t[q] EXCEPT !.kind = kind].start = t[q].start
        /\ [t[q] EXCEPT !.kind = kind].limit = t[q].limit
    BY <2>1 DEF Value
  <2> QED BY <1>3, <2>1, <2>2, <2>3
<1>5. u \in Trees /\ DOMAIN u = D
  BY <1>2, <1>3, <1>4, TreesIf
<1> QED BY <1>2, <1>4, <1>5 DEF D

LEMMA OffsetsFacts ==
    ASSUME NEW t \in Trees, NEW p \in DOMAIN t, NEW start \in Int, NEW limit \in Int, NEW u,
           \/ u = set_offsets(t, p, start, limit)
           \/ start = t[p].start /\ u = [t EXCEPT ![p].limit = limit]
           \/ limit = t[p].limit /\ u = [t EXCEPT ![p].start = start]
    PROVE  /\ u \in Trees /\ DOMAIN u = DOMAIN t /\ u[p].start = start /\ u[p].limit = limit
           /\ \A q \in DOMAIN t : q # p => u[q] = t[q]
<1>1. DOMAIN t \subseteq Path /\ t \in [DOMAIN t -> Value] /\ \A q \in DOMAIN t : t[q] \in Value
  BY TreesDef
<1>2. PICK w : /\ w \in Value /\ w.start = start /\ w.limit = limit
               /\ u = [t EXCEPT ![p] = w]
  <2>1. ASSUME NEW v \in Value
        PROVE  /\ [v EXCEPT !.start = start, !.limit = limit] \in Value
               /\ [v EXCEPT !.start = start, !.limit = limit].start = start
               /\ [v EXCEPT !.start = start, !.limit = limit].limit = limit
    BY DEF Value
  <2>2. ASSUME NEW v \in Value, limit = v.limit
        PROVE  /\ [v EXCEPT !.start = start] \in Value
               /\ [v EXCEPT !.start = start].start = start
               /\ [v EXCEPT !.start = start].limit = limit
    BY <2>2 DEF Value
  <2>3. ASSUME NEW v \in Value, start = v.start
        PROVE  /\ [v EXCEPT !.limit = limit] \in Value
               /\ [v EXCEPT !.limit = limit].start = start
               /\ [v EXCEPT !.limit = limit].limit = limit
    BY <2>3 DEF Value
  <2>4. t[p] \in Value
    BY <1>1
  <2>5. CASE u = set_offsets(t, p, start, limit)
    <3>1. u = [t EXCEPT ![p] = [t[p] EXCEPT !.start = start, !.limit = limit]]
      BY <1>1, <2>5 DEF set_offsets
    <3> QED BY <2>1, <2>4, <3>1
  <2>6. CASE start = t[p].start /\ u = [t EXCEPT ![p].limit = limit]
    BY <2>3, <2>4, <2>6
  <2>7. CASE limit = t[p].limit /\ u = [t EXCEPT ![p].start = start]
    BY <2>2, <2>4, <2>7
  <2> QED BY <2>5, <2>6, <2>7
<1>3. u = [q \in DOMAIN t |-> u[q]] /\ \A q \in DOMAIN t : u[q] = IF q = p THEN w ELSE t[q]
  BY <1>1, <1>2
<1>4. u \in Trees /\ DOMAIN u = DOMAIN t
  BY <1>1, <1>2, <1>3, TreesIf
<1> QED BY <1>2, <1>3, <1>4

LEMMA ChildFacts ==
    ASSUME NEW t \in Trees, NEW p \in DOMAIN t, NEW k \in Text, NEW u, u = WithChild(t, p, k),
           NEW c, c = Append(p, k)
    PROVE  /\ u \in Trees /\ \A q : q \in DOMAIN u <=> q \in DOMAIN t \/ q = c
           /\ \A q \in DOMAIN t : u[q] = t[q]
<1>1. DOMAIN t \subseteq Path /\ \A q \in DOMAIN t : t[q] \in Value
  BY TreeFacts
<1>2. c \in Path
  BY <1>1, AppendFacts
<1>3. Plain("n") \in Value
  <2>1. << >> \in Lexemes
    BY DEF Lexemes
  <2>2. "n" \in Text
    BY DEF Text
  <2>3. NoComments \in Comments
    BY <2>1 DEF NoComments, Comments
  <2> QED BY <2>2, <2>3 DEF Plain, Value
<1>4. /\ u = [q \in DOMAIN t \cup {c} |-> u[q]]
      /\ \A q \in DOMAIN t \cup {c} : u[q] = IF q \in DOMAIN t THEN t[q] ELSE Plain("n")
  BY DEF WithChild
<1>5. u \in Trees /\ DOMAIN u = DOMAIN t \cup {c}
  <2> DEFINE D == DOMAIN t \cup {c}
  <2>1. u = [q \in D |-> u[q]] /\ D \subseteq Path /\ \A q \in D : u[q] \in Value
    BY <1>1, <1>2, <1>3, <1>4
  <2> HIDE DEF D
  <2>2. u \in Trees /\ DOMAIN u = D
    BY <2>1, TreesIf
  <2> QED BY <2>2 DEF D
<1> QED BY <1>4, <1>5
-----------------------------------------------------------------------------
\* The reader and its moves

Frame == [path : Path, name : Text, index : Nat]
Reader == [pc : Pcs, doc : Lexemes, set : Settings, cur : Nat, tree : Trees,
           nodes : Seq(Frame), errors : Seq(Nat \X Nat), before : Lexemes, end : Nat,
           last : Path, ok : BOOLEAN, until : {"}", "]"}, dup : BOOLEAN]

Within(s) ==
    /\ s \in Reader /\ s.cur \in 1 .. Len(s.doc) + 1
    /\ << >> \in DOMAIN s.tree /\ s.last \in DOMAIN s.tree
    /\ ~s.set.collect => s.last = << >>

Placed(s, b) ==
    /\ s.nodes # << >> /\ StackIsPath(s.nodes, s.tree)
    /\ LastIsNear(s, b)

\* The offsets of the values that end before at. In front of a value there is
\* room for the character that a dropped placeholder lays claim to.
OffsetsUpTo(s, b, at) == Laid(s.tree, Here(s), b, at, Slack(s.set))
Offsets(s, b) == OffsetsUpTo(s, b, IF b THEN s.cur - 1 - Slack(s.set) ELSE s.cur - 1)

Good(s) ==
    /\ Within(s)
    /\ s.pc = "idle" => s.last = << >>
    /\ s.pc \in Before => Placed(s, TRUE) /\ Offsets(s, TRUE) /\ s.errors = << >>
    /\ s.pc \in Inside => Placed(s, FALSE) /\ Offsets(s, FALSE) /\ s.errors = << >>
    /\ s.pc = "recover" => Placed(s, FALSE) /\ s.errors # << >>
    /\ s.pc \in {"end", "done"} => (s.ok <=> s.errors = << >>)
    /\ s.pc \in {"end", "done"} /\ s.ok => Nested(s.tree, Slack(s.set))

\* The calls of read_value() that are under way, behind the check of the depth.
Calls(s) ==
    CASE s.pc = "value" -> Len(s.nodes) - 1
      [] s.pc \in {"first", "recover"} \cup Inside -> Len(s.nodes)
      [] OTHER -> 0

\* A step that is not the first one of read_value(): the global counter goes
\* down only if a call returns, and the stack stays as deep as there are calls.
Counted(s, u) ==
    /\ \E k \in {0, 1} : stack_depth_g' = stack_depth_g - k /\ Calls(u) + k <= Calls(s)
    /\ Len(u.nodes) <= Calls(u) + 1 \/ Len(u.nodes) <= Len(s.nodes)

\* u is s further on in the text, perhaps with more comments.
Moved(s, u) ==
    /\ Within(u) /\ u.doc = s.doc /\ u.set = s.set /\ u.last = s.last /\ s.cur <= u.cur
    /\ SameOffsets(s.tree, u.tree)
    /\ Len(u.nodes) = Len(s.nodes) /\ \A i \in 1 .. Len(s.nodes) : u.nodes[i].path = s.nodes[i].path

LEMMA SlackFacts ==
    ASSUME NEW s
    PROVE  Slack(s.set) \in {0, 1}
BY DEF Slack

LEMMA WithinFacts ==
    ASSUME NEW s, Within(s)
    PROVE  /\ s.doc \in Lexemes /\ s.cur \in 1 .. Len(s.doc) + 1 /\ Len(s.doc) \in Nat
           /\ s.tree \in Trees /\ s.nodes \in Seq(Frame) /\ Len(s.nodes) \in Nat
           /\ s.last \in Path /\ s.before \in Lexemes /\ s.cur \in Int
<1>1. s \in Reader /\ s.cur \in 1 .. Len(s.doc) + 1
  BY DEF Within
<1>2. /\ s.doc \in Lexemes /\ s.tree \in Trees /\ s.nodes \in Seq(Frame)
      /\ s.last \in Path /\ s.before \in Lexemes
  BY <1>1 DEF Reader
<1> QED BY <1>1, <1>2 DEF Lexemes

LEMMA HereFacts ==
    ASSUME NEW s, Within(s), s.nodes # << >>
    PROVE  /\ Len(s.nodes) \in Nat \ {0} /\ Here(s) = s.nodes[Len(s.nodes)].path
           /\ Here(s) \in Path
<1>1. s.nodes \in Seq(Frame)
  BY WithinFacts
<1>2. Len(s.nodes) \in Nat \ {0} /\ Here(s) = s.nodes[Len(s.nodes)].path
  BY <1>1 DEF Here, Last
<1>3. s.nodes[Len(s.nodes)] \in Frame
  BY <1>1, <1>2
<1> QED BY <1>2, <1>3 DEF Frame

LEMMA PlacedFacts ==
    ASSUME NEW s, NEW b, Within(s), Placed(s, b), NEW h, h = Here(s)
    PROVE  /\ s.tree \in Trees /\ s.nodes \in Seq(Frame) /\ s.nodes # << >>
           /\ Len(s.nodes) \in Nat \ {0} /\ h = s.nodes[Len(s.nodes)].path /\ h \in Path
           /\ h \in DOMAIN s.tree /\ Len(h) = Len(s.nodes) - 1 /\ s \in Reader
<1>1. /\ s.tree \in Trees /\ s.nodes \in Seq(Frame) /\ s.nodes # << >> /\ Len(s.nodes) \in Nat \ {0}
      /\ h = s.nodes[Len(s.nodes)].path /\ h \in Path /\ s \in Reader
  BY WithinFacts, HereFacts DEF Placed, Within
<1>2. Len(s.nodes) \in 1 .. Len(s.nodes)
  BY <1>1
<1>3. h \in DOMAIN s.tree /\ Len(h) = Len(s.nodes) - 1
  BY <1>1, <1>2 DEF Placed, StackIsPath
<1> QED BY <1>1, <1>3

LEMMA MovedKeeps ==
    ASSUME NEW s, NEW u, NEW b, Within(s), Moved(s, u), Placed(s, b)
    PROVE  Placed(u, b) /\ Here(u) = Here(s) /\ (Offsets(s, b) => Offsets(u, b))
<1>1. Within(u) /\ s.tree \in Trees /\ s.cur \in Int /\ u.cur \in Int /\ s.cur <= u.cur
  BY WithinFacts DEF Moved
<1>2. s.nodes # << >> /\ u.nodes # << >> /\ Len(u.nodes) = Len(s.nodes)
  <2>1. s.nodes \in Seq(Frame) /\ u.nodes \in Seq(Frame) /\ s.nodes # << >>
    BY <1>1, WithinFacts DEF Placed
  <2> QED BY <2>1 DEF Moved
<1>3. Here(u) = Here(s)
  BY <1>1, <1>2, HereFacts DEF Moved
<1>4. StackIsPath(u.nodes, u.tree)
  <2>1. Len(s.nodes) \in Nat
    BY WithinFacts
  <2>2. ASSUME NEW i \in 1 .. Len(u.nodes)
        PROVE  /\ u.nodes[i].path \in DOMAIN u.tree /\ Len(u.nodes[i].path) = i - 1
               /\ i > 1 => Front(u.nodes[i].path) = u.nodes[i - 1].path
    <3>1. i \in 1 .. Len(s.nodes) /\ (i > 1 => i - 1 \in 1 .. Len(s.nodes))
      BY <1>2, <2>1
    <3>2. u.nodes[i].path = s.nodes[i].path /\ (i > 1 => u.nodes[i - 1].path = s.nodes[i - 1].path)
      BY <3>1 DEF Moved
    <3>3. /\ s.nodes[i].path \in DOMAIN s.tree /\ Len(s.nodes[i].path) = i - 1
          /\ i > 1 => Front(s.nodes[i].path) = s.nodes[i - 1].path
      BY <3>1 DEF Placed, StackIsPath
    <3> QED BY <3>2, <3>3 DEF Moved, SameOffsets
  <2> QED BY <2>2 DEF StackIsPath
<1>5. LastIsNear(u, b)
  BY <1>3 DEF Placed, Moved, LastIsNear
<1>6. Offsets(s, b) => Offsets(u, b)
  <2> DEFINE e == Slack(s.set)
             at == IF b THEN s.cur - 1 - e ELSE s.cur - 1
             later == IF b THEN u.cur - 1 - e ELSE u.cur - 1
  <2> SUFFICES ASSUME Offsets(s, b) PROVE Laid(u.tree, Here(s), b, later, e)
    BY <1>3 DEF Offsets, OffsetsUpTo, Moved
  <2>1. e \in {0, 1} /\ at \in Int /\ later \in Int /\ at <= later
    <3>1. e \in {0, 1}
      BY SlackFacts
    <3> HIDE DEF e
    <3> QED BY <1>1, <3>1
  <2>2. Laid(s.tree, Here(s), b, at, e) /\ SameOffsets(s.tree, u.tree)
    BY DEF Offsets, OffsetsUpTo, Moved
  <2> HIDE DEF e, at, later
  <2> QED BY <1>1, <2>1, <2>2, LaidLater
<1> QED BY <1>2, <1>3, <1>4, <1>5, <1>6 DEF Placed

LEMMA TakeMoves ==
    ASSUME NEW s, Within(s), NEW t, t = Token(s.doc, s.cur), NEW u, u = Take(s, t)
    PROVE  Moved(s, u) /\ u.cur = t.end /\ IsToken(s.doc, s.cur, t) /\ u.nodes = s.nodes
           /\ u.pc = s.pc /\ u.errors = s.errors /\ u.ok = s.ok
<1>1. IsToken(s.doc, s.cur, t) /\ s \in Reader /\ Len(s.doc) \in Nat /\ s.doc \in Lexemes
  BY WithinFacts, TokenFacts DEF Within
<1>2. t.end \in 1 .. Len(s.doc) + 1 /\ t.end \in Nat /\ s.cur <= t.end /\ t.start \in 1 .. Len(s.doc) + 1
  BY <1>1, WithinFacts DEF IsToken
<1> DEFINE m == [s EXCEPT !.cur = t.end]
<1>3. /\ m \in Reader /\ m.doc = s.doc /\ m.set = s.set /\ m.last = s.last /\ m.cur = t.end
      /\ m.tree = s.tree /\ m.nodes = s.nodes /\ m.pc = s.pc /\ m.errors = s.errors /\ m.ok = s.ok
      /\ m.before = s.before
  BY <1>1, <1>2 DEF Reader
<1> HIDE DEF m
<1>4. /\ u \in Reader /\ u.doc = s.doc /\ u.set = s.set /\ u.last = s.last /\ u.cur = t.end
      /\ u.nodes = s.nodes /\ u.pc = s.pc /\ u.errors = s.errors /\ u.ok = s.ok
      /\ SameOffsets(s.tree, u.tree)
  <2> DEFINE text == SubSeq(m.doc, t.start, t.end - 1)
  <2>1. text \in Lexemes
    BY <1>1, <1>2, <1>3 DEF Lexemes
  <2> HIDE DEF text
  <2>2. CASE u = m
    BY <1>3, <2>2 DEF SameOffsets
  <2>3. CASE u = [m EXCEPT !.tree = set_comment(m.tree, m.last, text, "same")]
    <3> DEFINE c == set_comment(m.tree, m.last, text, "same")
    <3>1. m.tree \in Trees
      BY <1>3 DEF Reader
    <3>2. c \in Trees /\ SameOffsets(m.tree, c)
      BY <2>1, <3>1, CommentFacts
    <3> HIDE DEF c
    <3>3. u = [m EXCEPT !.tree = c]
      BY <2>3 DEF c
    <3> QED BY <1>3, <3>2, <3>3 DEF Reader
  <2>4. CASE u = [m EXCEPT !.before = m.before \o text]
    <3>1. m.before \o text \in Lexemes
      <4>1. m.before \in Lexemes
        BY <1>3 DEF Reader
      <4> QED BY <2>1, <4>1 DEF Lexemes
    <3>2. SameOffsets(s.tree, s.tree)
      BY DEF SameOffsets
    <3> QED BY <1>3, <2>4, <3>1, <3>2 DEF Reader
  <2> QED BY <2>2, <2>3, <2>4 DEF Take, add_comment, m, text
<1> QED BY <1>1, <1>2, <1>4 DEF Moved, Within, SameOffsets

LEMMA StartedMoves ==
    ASSUME NEW s, Within(s), NEW t, t = Token(s.doc, s.cur), NEW u, u = Started(s, t)
    PROVE  Moved(s, u) /\ u.cur = t.end /\ IsToken(s.doc, s.cur, t) /\ u.nodes = s.nodes
           /\ u.pc = s.pc /\ u.errors = s.errors /\ u.ok = s.ok
<1> DEFINE m == Take(s, t)
<1>1. /\ Moved(s, m) /\ m.cur = t.end /\ IsToken(s.doc, s.cur, t) /\ m.nodes = s.nodes
      /\ m.pc = s.pc /\ m.errors = s.errors /\ m.ok = s.ok
  BY TakeMoves
<1> HIDE DEF m
<1>2. m \in Reader /\ m.tree \in Trees /\ m.before \in Lexemes
  BY <1>1, WithinFacts DEF Moved, Within
<1>3. CASE u = m
  BY <1>1, <1>3
<1>4. CASE u = [m EXCEPT !.tree = set_comment(m.tree, Here(m), m.before, "before"), !.before = << >>]
  <2> DEFINE c == set_comment(m.tree, Here(m), m.before, "before")
  <2>1. c \in Trees /\ SameOffsets(m.tree, c)
    BY <1>2, CommentFacts
  <2>2. u = [m EXCEPT !.tree = c, !.before = << >>]
    BY <1>4
  <2> HIDE DEF c
  <2>3. << >> \in Lexemes
    BY DEF Lexemes
  <2>4. /\ u \in Reader /\ u.doc = m.doc /\ u.set = m.set /\ u.last = m.last /\ u.cur = m.cur
        /\ u.nodes = m.nodes /\ u.pc = m.pc /\ u.errors = m.errors /\ u.ok = m.ok /\ u.tree = c
    BY <1>2, <2>1, <2>2, <2>3 DEF Reader
  <2> QED BY <1>1, <2>1, <2>4 DEF Moved, Within, SameOffsets
<1> QED BY <1>3, <1>4 DEF Started, m

\* set_offset_start()
StartAt(tree, p, start) == [tree EXCEPT ![p].start = start]

\* A value is begun.
Opened(t, u, h, start) ==
    \A e \in {0, 1} : \A at, later \in Int :
        at <= start /\ start <= later /\ start < later + e /\ Laid(t, h, TRUE, at, e) =>
            Laid(u, h, FALSE, later, e)

Begun(s, u, start) ==
    /\ Within(u) /\ Placed(u, FALSE) /\ Here(u) = Here(s) /\ u.tree[Here(s)].start = start
    /\ Opened(s.tree, u.tree, Here(s), start)

LEMMA Opens ==
    ASSUME NEW s, Within(s), Placed(s, TRUE), NEW u, u \in Reader,
           u.doc = s.doc, u.set = s.set, u.last = s.last, u.cur = s.cur, u.nodes = s.nodes,
           NEW start \in Int, NEW kind \in Text, NEW limit \in Int,
           \/ u.tree = StartAt(swap_payload(s.tree, Here(s), kind), Here(s), start)
           \/ u.tree = set_offsets(swap_payload(s.tree, Here(s), kind), Here(s), start, limit)
    PROVE  /\ Begun(s, u, start)
           /\ \A q \in DOMAIN u.tree : ~IsStrictPrefix(Here(s), q)
           /\ u.tree = set_offsets(swap_payload(s.tree, Here(s), kind), Here(s), start, limit) =>
                u.tree[Here(s)].limit = limit
<1> DEFINE h == Here(s)
           v == swap_payload(s.tree, h, kind)
<1>1. /\ s.tree \in Trees /\ s.nodes \in Seq(Frame) /\ s.nodes # << >> /\ Len(s.nodes) \in Nat \ {0}
      /\ h = s.nodes[Len(s.nodes)].path /\ h \in Path
  BY PlacedFacts
<1>2. h \in DOMAIN s.tree /\ Len(h) = Len(s.nodes) - 1
  BY PlacedFacts
<1>3. Here(u) = h
  BY DEF Here
<1> HIDE DEF h
<1>5. /\ v = swap_payload(s.tree, h, kind)
      /\ \/ u.tree = [v EXCEPT ![h].start = start]
         \/ u.tree = set_offsets(v, h, start, limit)
  BY DEF h, StartAt
<1> HIDE DEF v
<1>4. /\ v \in Trees /\ h \in DOMAIN v
      /\ \A q : q \in DOMAIN v <=> q \in DOMAIN s.tree /\ ~IsStrictPrefix(h, q)
      /\ \A q \in DOMAIN v : v[q].start = s.tree[q].start /\ v[q].limit = s.tree[q].limit
  BY <1>1, <1>2, <1>5, PayloadFacts
<1>6. /\ u.tree \in Trees /\ DOMAIN u.tree = DOMAIN v /\ u.tree[h].start = start
      /\ \A q \in DOMAIN v : q # h => u.tree[q] = v[q]
  <2>1. v[h].limit \in Int
    BY <1>4, TreeFacts
  <2>2. CASE u.tree = [v EXCEPT ![h].start = start]
    BY <1>4, <2>1, <2>2, OffsetsFacts
  <2>3. CASE u.tree = set_offsets(v, h, start, limit)
    BY <1>4, <2>3, OffsetsFacts
  <2> QED BY <1>5, <2>2, <2>3
<1>7. ~IsStrictPrefix(h, << >>) /\ ~IsStrictPrefix(h, s.last)
  <2>1. ~IsStrictPrefix(h, << >>)
    BY <1>1, PrefixFacts DEF IsStrictPrefix
  <2> QED BY <2>1 DEF Placed, LastIsNear, h
<1>8. Within(u)
  BY <1>4, <1>6, <1>7 DEF Within
<1>9. ASSUME NEW i \in 1 .. Len(u.nodes)
      PROVE  /\ u.nodes[i].path \in DOMAIN u.tree /\ Len(u.nodes[i].path) = i - 1
             /\ i > 1 => Front(u.nodes[i].path) = u.nodes[i - 1].path
  <2>1. /\ s.nodes[i].path \in DOMAIN s.tree /\ Len(s.nodes[i].path) = i - 1
        /\ i > 1 => Front(s.nodes[i].path) = s.nodes[i - 1].path
    BY DEF Placed, StackIsPath
  <2>2. s.nodes[i].path \in Path
    BY <1>1, <2>1, TreeFacts
  <2>3. ~IsStrictPrefix(h, s.nodes[i].path)
    <3>1. ASSUME IsPrefix(h, s.nodes[i].path) PROVE h = s.nodes[i].path
      <4>1. Len(s.nodes[i].path) <= Len(h)
        BY <1>1, <1>2, <2>1
      <4>2. /\ Len(h) <= Len(s.nodes[i].path)
            /\ \A j \in 1 .. Len(h) : h[j] = s.nodes[i].path[j]
        BY <1>1, <2>2, <3>1, PrefixDef
      <4>3. Len(h) = Len(s.nodes[i].path)
        BY <1>1, <2>2, <4>1, <4>2, LenFacts
      <4> QED BY <1>1, <2>2, <4>2, <4>3, PathsAgree
    <3> QED BY <3>1 DEF IsStrictPrefix
  <2> QED BY <1>4, <1>6, <2>1, <2>3
<1>10. Placed(u, FALSE)
  BY <1>1, <1>3, <1>9 DEF Placed, StackIsPath, LastIsNear, h
<1>11. ASSUME NEW e \in {0, 1}, NEW at \in Int, NEW later \in Int, at <= start, start <= later,
              start < later + e, Laid(s.tree, h, TRUE, at, e)
       PROVE  Laid(u.tree, h, FALSE, later, e)
  <2>1. \A q : q \in DOMAIN u.tree <=> q \in DOMAIN s.tree /\ ~IsStrictPrefix(h, q)
    BY <1>4, <1>6
  <2>2. \A q \in DOMAIN u.tree : q # h => /\ u.tree[q].start = s.tree[q].start
                                          /\ u.tree[q].limit = s.tree[q].limit
    BY <1>4, <1>6
  <2> QED BY <1>1, <1>2, <1>6, <1>11, <2>1, <2>2, LaidOpened
<1>12. \A q \in DOMAIN u.tree : ~IsStrictPrefix(h, q)
  BY <1>4, <1>6
<1>13. u.tree = set_offsets(v, h, start, limit) => u.tree[h].limit = limit
  BY <1>4, OffsetsFacts
<1>14. Opened(s.tree, u.tree, h, start)
  BY <1>11 DEF Opened
<1> QED BY <1>3, <1>5, <1>6, <1>8, <1>10, <1>12, <1>13, <1>14 DEF h, Begun

Lower(s, u) ==
    /\ Within(u) /\ Placed(u, TRUE) /\ Offsets(u, TRUE) /\ u.pc = "value"
    /\ u.errors = s.errors /\ Len(u.nodes) = Len(s.nodes) + 1

\* read_value() is called for a child.
LEMMA Descends ==
    ASSUME NEW s, Within(s), Placed(s, FALSE), OffsetsUpTo(s, FALSE, s.cur - 1 - Slack(s.set)),
           NEW k \in Text, NEW u, u = Descend(s, k)
    PROVE  Lower(s, u)
<1> DEFINE h == Here(s)
<1>1. /\ s.tree \in Trees /\ s.nodes \in Seq(Frame) /\ s.nodes # << >> /\ Len(s.nodes) \in Nat \ {0}
      /\ h = s.nodes[Len(s.nodes)].path /\ h \in Path /\ s \in Reader
  BY PlacedFacts
<1>2. h \in DOMAIN s.tree /\ Len(h) = Len(s.nodes) - 1
  BY PlacedFacts
<1> HIDE DEF h
<1> DEFINE c == Append(h, k)
           w == WithChild(s.tree, h, k)
           f == [path |-> c, name |-> "", index |-> 0]
<1>3. /\ c \in Path /\ c # << >> /\ c # h /\ Len(c) = Len(h) + 1 /\ Front(c) = h
      /\ \A q \in Path : IsPrefix(q, c) <=> IsPrefix(q, h) \/ q = c
  BY <1>1, AppendFacts
<1>4. /\ w \in Trees /\ \A q : q \in DOMAIN w <=> q \in DOMAIN s.tree \/ q = c
      /\ \A q \in DOMAIN s.tree : w[q] = s.tree[q]
  <2>1. w = WithChild(s.tree, h, k) /\ c = Append(h, k)
    OBVIOUS
  <2> HIDE DEF w, c
  <2>2. s.tree \in Trees /\ h \in DOMAIN s.tree
    BY <1>1, <1>2
  <2> QED BY <2>1, <2>2, ChildFacts
<1>5. f \in Frame
  <2>1. "" \in Text
    BY DEF Text
  <2> QED BY <1>3, <2>1 DEF Frame
<1>6. u = [s EXCEPT !.tree = w, !.pc = "value", !.nodes = Append(s.nodes, f)]
  BY DEF Descend, h
<1> HIDE DEF c, w
<1>7. f.path = c
  OBVIOUS
<1> HIDE DEF f
<1>8. /\ Append(s.nodes, f) \in Seq(Frame) /\ Len(Append(s.nodes, f)) = Len(s.nodes) + 1
      /\ Append(s.nodes, f)[Len(s.nodes) + 1] = f
      /\ \A i \in 1 .. Len(s.nodes) : Append(s.nodes, f)[i] = s.nodes[i]
  BY <1>1, <1>5
<1>9. /\ u \in Reader /\ u.tree = w /\ u.pc = "value" /\ u.nodes = Append(s.nodes, f)
      /\ u.doc = s.doc /\ u.set = s.set /\ u.last = s.last /\ u.cur = s.cur /\ u.errors = s.errors
  BY <1>1, <1>4, <1>6, <1>8 DEF Reader, Pcs
<1>10. Within(u)
  BY <1>4, <1>9 DEF Within
<1>11. u.nodes # << >> /\ Here(u) = c
  <2>1. u.nodes # << >>
    BY <1>1, <1>8, <1>9
  <2> QED BY <1>1, <1>7, <1>8, <1>9, <1>10, <2>1, HereFacts
<1>12. ASSUME NEW i \in 1 .. Len(u.nodes)
       PROVE  /\ u.nodes[i].path \in DOMAIN u.tree /\ Len(u.nodes[i].path) = i - 1
              /\ i > 1 => Front(u.nodes[i].path) = u.nodes[i - 1].path
  <2>1. CASE i \in 1 .. Len(s.nodes)
    <3>1. /\ s.nodes[i].path \in DOMAIN s.tree /\ Len(s.nodes[i].path) = i - 1
          /\ i > 1 => Front(s.nodes[i].path) = s.nodes[i - 1].path
      BY <2>1 DEF Placed, StackIsPath
    <3>2. i > 1 => i - 1 \in 1 .. Len(s.nodes)
      BY <1>1, <2>1
    <3> QED BY <1>4, <1>8, <1>9, <2>1, <3>1, <3>2
  <2>2. CASE i = Len(s.nodes) + 1
    <3>1. u.nodes[i].path = c /\ u.nodes[i - 1].path = h
      BY <1>1, <1>7, <1>8, <1>9, <2>2
    <3> QED BY <1>1, <1>2, <1>3, <1>4, <1>9, <2>2, <3>1
  <2> QED BY <1>1, <1>8, <1>9, <2>1, <2>2
<1>13. LastIsNear(u, TRUE)
  <2>1. s.last \in Path /\ (s.last = << >> \/ IsPrefix(Front(s.last), h))
    BY WithinFacts DEF Placed, LastIsNear, h
  <2>2. CASE s.last = << >>
    <3>1. ~IsStrictPrefix(c, << >>)
      BY <1>3, PrefixFacts DEF IsStrictPrefix
    <3> QED BY <1>9, <1>11, <2>2, <3>1 DEF LastIsNear
  <2>3. CASE s.last # << >> /\ IsPrefix(Front(s.last), h)
    <3>1. Front(s.last) \in Path
      BY <2>1, <2>3, FrontFacts
    <3>2. IsPrefix(Front(s.last), c)
      BY <1>3, <2>3, <3>1
    <3>3. ~IsPrefix(c, Front(s.last))
      BY <1>1, <1>3, <2>3, <3>1, PrefixDef, LenFacts
    <3>4. ~IsStrictPrefix(c, s.last)
      BY <1>3, <2>1, <2>3, <3>3, FrontUnder DEF IsStrictPrefix
    <3> QED BY <1>9, <1>11, <3>2, <3>4 DEF LastIsNear
  <2> QED BY <2>1, <2>2, <2>3
<1>14. Offsets(u, TRUE)
  <2> DEFINE e == Slack(s.set)
             at == s.cur - 1 - e
  <2> SUFFICES Laid(w, c, TRUE, at, e)
    BY <1>9, <1>11 DEF Offsets, OffsetsUpTo
  <2>1. Laid(s.tree, h, FALSE, at, e) /\ e \in {0, 1}
    BY SlackFacts DEF OffsetsUpTo, h
  <2> HIDE DEF e, at
  <2> QED BY <1>1, <1>2, <1>4, <2>1, LaidBelow DEF c
<1>15. Placed(u, TRUE)
  BY <1>8, <1>9, <1>10, <1>11, <1>12, <1>13 DEF Placed, StackIsPath
<1> QED BY <1>8, <1>9, <1>10, <1>11, <1>14, <1>15 DEF Lower

\* read_value() returns, from a value that last_value_ is not below.
Popped(s, u, ok) ==
    /\ Within(u) /\ u.set = s.set /\ u.cur = s.cur /\ u.tree = s.tree /\ u.errors = s.errors
    /\ \/ /\ Here(s) = << >> /\ Len(s.nodes) = 1
          /\ u.pc = "end" /\ u.ok = ok /\ u.nodes = s.nodes
       \/ /\ Here(s) # << >> /\ Here(u) = Front(Here(s)) /\ Len(u.nodes) = Len(s.nodes) - 1
          /\ u.pc \in (IF ok THEN {"comma", "separator"} ELSE {"recover"}) /\ Placed(u, FALSE)

LEMMA Pops ==
    ASSUME NEW s, Within(s), Placed(s, TRUE), NEW ok \in BOOLEAN, NEW u, u = Return(s, ok)
    PROVE  Popped(s, u, ok)
<1> DEFINE h == Here(s)
           nodes == Front(s.nodes)
<1>1. /\ s.tree \in Trees /\ s.nodes \in Seq(Frame) /\ s.nodes # << >>
      /\ Len(s.nodes) \in Nat \ {0} /\ h = s.nodes[Len(s.nodes)].path /\ h \in Path
      /\ h \in DOMAIN s.tree /\ Len(h) = Len(s.nodes) - 1 /\ s \in Reader
  BY PlacedFacts
<1>2. h = << >> <=> Len(s.nodes) = 1
  <2>1. h = << >> <=> Len(h) = 0
    BY <1>1, LenFacts
  <2> QED BY <1>1, <2>1
<1>3. /\ nodes \in Seq(Frame) /\ Len(nodes) = Len(s.nodes) - 1
      /\ \A i \in 1 .. Len(s.nodes) - 1 : nodes[i] = s.nodes[i]
  <2> DEFINE n == Len(s.nodes) - 1
  <2>1. n \in Nat /\ n <= Len(s.nodes)
    BY <1>1
  <2> HIDE DEF n
  <2>2. /\ SubSeq(s.nodes, 1, n) \in Seq(Frame) /\ Len(SubSeq(s.nodes, 1, n)) = n
        /\ \A i \in 1 .. n : SubSeq(s.nodes, 1, n)[i] = s.nodes[i]
    BY <1>1, <2>1
  <2> QED BY <2>1, <2>2 DEF Front, n
<1>4. nodes = << >> <=> Len(s.nodes) = 1
  <2> HIDE DEF nodes
  <2>1. nodes = << >> <=> Len(nodes) = 0
    <3>1. nodes \in Seq(Frame)
      BY <1>3
    <3> QED BY <3>1
  <2> QED BY <1>1, <1>3, <2>1
<1>5. \/ nodes = << >> /\ u = [s EXCEPT !.pc = "end", !.ok = ok]
      \/ nodes # << >> /\ ok /\ \E pc \in {"comma", "separator"} : u = [s EXCEPT !.nodes = nodes, !.pc = pc]
      \/ nodes # << >> /\ ~ok /\ \E until \in {"}", "]"} :
           u = [s EXCEPT !.nodes = nodes, !.pc = "recover", !.until = until]
  BY DEF Return
<1> HIDE DEF nodes
<1>6. CASE nodes = << >>
  <2>1. u = [s EXCEPT !.pc = "end", !.ok = ok]
    BY <1>5, <1>6
  <2>2. /\ u \in Reader /\ u.set = s.set /\ u.cur = s.cur /\ u.tree = s.tree /\ u.errors = s.errors
        /\ u.doc = s.doc /\ u.last = s.last /\ u.nodes = s.nodes /\ u.pc = "end" /\ u.ok = ok
    BY <1>1, <2>1 DEF Reader, Pcs
  <2>3. Within(u)
    BY <2>2 DEF Within
  <2> QED BY <1>2, <1>4, <1>6, <2>2, <2>3 DEF Popped
<1>7. CASE nodes # << >>
  <2>1. /\ u \in Reader /\ u.set = s.set /\ u.cur = s.cur /\ u.tree = s.tree /\ u.errors = s.errors
        /\ u.doc = s.doc /\ u.last = s.last /\ u.nodes = nodes
        /\ u.pc \in (IF ok THEN {"comma", "separator"} ELSE {"recover"})
    <3>1. CASE ok
      <4>1. PICK pc \in {"comma", "separator"} : u = [s EXCEPT !.nodes = nodes, !.pc = pc]
        BY <1>5, <1>7, <3>1
      <4> QED BY <1>1, <1>3, <3>1, <4>1 DEF Reader, Pcs
    <3>2. CASE ~ok
      <4>1. PICK until \in {"}", "]"} :
              u = [s EXCEPT !.nodes = nodes, !.pc = "recover", !.until = until]
        BY <1>5, <1>7, <3>2
      <4> QED BY <1>1, <1>3, <3>2, <4>1 DEF Reader, Pcs
    <3> QED BY <3>1, <3>2
  <2>2. Within(u)
    BY <2>1 DEF Within
  <2>3. Len(s.nodes) > 1 /\ h # << >> /\ Len(s.nodes) - 1 \in 1 .. Len(s.nodes)
    BY <1>1, <1>2, <1>4, <1>7
  <2>4. Front(h) = s.nodes[Len(s.nodes) - 1].path
    <3>1. Len(s.nodes) \in 1 .. Len(s.nodes)
      BY <1>1
    <3> QED BY <1>1, <2>3, <3>1 DEF Placed, StackIsPath
  <2>5. Here(u) = Front(h)
    <3>1. Here(u) = u.nodes[Len(u.nodes)].path
      BY <1>7, <2>1, <2>2, HereFacts
    <3>2. Len(s.nodes) - 1 \in 1 .. Len(s.nodes) - 1
      BY <1>1, <2>3
    <3> QED BY <1>3, <2>1, <2>4, <3>1, <3>2
  <2>6. ASSUME NEW i \in 1 .. Len(u.nodes)
        PROVE  /\ u.nodes[i].path \in DOMAIN u.tree /\ Len(u.nodes[i].path) = i - 1
               /\ i > 1 => Front(u.nodes[i].path) = u.nodes[i - 1].path
    <3>1. /\ i \in 1 .. Len(s.nodes) /\ i \in 1 .. Len(s.nodes) - 1
          /\ i > 1 => i - 1 \in 1 .. Len(s.nodes) - 1
      BY <1>1, <1>3, <2>1
    <3>2. /\ s.nodes[i].path \in DOMAIN s.tree /\ Len(s.nodes[i].path) = i - 1
          /\ i > 1 => Front(s.nodes[i].path) = s.nodes[i - 1].path
      BY <3>1 DEF Placed, StackIsPath
    <3>3. u.nodes[i] = s.nodes[i] /\ (i > 1 => u.nodes[i - 1] = s.nodes[i - 1])
      BY <1>3, <2>1, <3>1
    <3> QED BY <2>1, <3>2, <3>3
  <2>7. s.last = << >> \/ IsPrefix(Front(s.last), Front(h))
    <3> SUFFICES ASSUME s.last # << >> PROVE IsPrefix(Front(s.last), Front(h))
      OBVIOUS
    <3>1. s.last \in Path /\ IsPrefix(Front(s.last), h) /\ ~IsStrictPrefix(h, s.last)
      BY WithinFacts DEF Placed, LastIsNear
    <3>2. Front(s.last) \in Path /\ IsPrefix(Front(s.last), s.last) /\ Front(s.last) # s.last
      <4>1. Front(s.last) \in Path
        BY <3>1, FrontFacts
      <4>2. IsPrefix(Front(s.last), Front(s.last))
        BY <4>1, PrefixFacts
      <4> QED BY <3>1, <4>1, <4>2, FrontUnder
    <3>3. Front(s.last) # h
      BY <3>1, <3>2 DEF IsStrictPrefix
    <3> QED BY <1>1, <2>3, <3>1, <3>2, <3>3, FrontUnder
  <2>8. Placed(u, FALSE)
    BY <1>7, <2>1, <2>5, <2>6, <2>7 DEF Placed, StackIsPath, LastIsNear
  <2> QED BY <1>3, <2>1, <2>2, <2>3, <2>5, <2>8 DEF Popped
<1> QED BY <1>6, <1>7

LEMMA Completes ==
    ASSUME NEW s, Within(s), Placed(s, FALSE), NEW ok \in BOOLEAN, NEW u, u = Complete(s, ok)
    PROVE  Popped(s, u, ok)
<1> DEFINE h == Here(s)
           v == IF s.set.collect THEN [s EXCEPT !.end = s.cur, !.last = h] ELSE s
<1>1. s.nodes # << >> /\ h \in Path /\ h \in DOMAIN s.tree /\ s \in Reader /\ s.cur \in Nat
  <2>1. s.nodes # << >> /\ h \in Path /\ h \in DOMAIN s.tree /\ s \in Reader
    BY PlacedFacts
  <2> QED BY <2>1 DEF Reader
<1>2. u = Return(v, ok)
  BY DEF Complete
<1> HIDE DEF h
<1>3. /\ v \in Reader /\ v.doc = s.doc /\ v.set = s.set /\ v.cur = s.cur /\ v.tree = s.tree
      /\ v.errors = s.errors /\ v.nodes = s.nodes /\ v.last \in {h, << >>}
      /\ ~v.set.collect => v.last = << >>
  <2>1. CASE s.set.collect
    BY <1>1, <2>1 DEF Reader
  <2>2. CASE ~s.set.collect
    BY <1>1, <2>2 DEF Within
  <2> QED BY <2>1, <2>2
<1> HIDE DEF v
<1>4. Within(v) /\ Here(v) = h
  BY <1>1, <1>3 DEF Within, Here, h
<1>5. LastIsNear(v, TRUE)
  <2>1. CASE v.last = << >>
    <3>1. ~IsStrictPrefix(h, << >>)
      BY <1>1, PrefixFacts DEF IsStrictPrefix
    <3> QED BY <1>4, <2>1, <3>1 DEF LastIsNear
  <2>2. CASE v.last = h /\ h # << >>
    <3>1. Front(h) \in Path
      BY <1>1, <2>2, FrontFacts
    <3>2. IsPrefix(Front(h), h)
      BY <1>1, <2>2, <3>1, FrontUnder, PrefixFacts
    <3>3. ~IsStrictPrefix(h, h)
      BY DEF IsStrictPrefix
    <3> QED BY <1>4, <2>2, <3>2, <3>3 DEF LastIsNear
  <2> QED BY <1>3, <2>1, <2>2
<1>6. Placed(v, TRUE)
  BY <1>1, <1>3, <1>5 DEF Placed
<1>7. Popped(v, u, ok)
  BY <1>2, <1>4, <1>6, Pops
<1> QED BY <1>3, <1>4, <1>7 DEF Popped, h

\* The offsets when a value has got its limit.
ClosedOffsets(s) ==
    /\ Here(s) = << >> => Nested(s.tree, Slack(s.set))
    /\ Here(s) # << >> => Laid(s.tree, Front(Here(s)), FALSE, s.cur - 1, Slack(s.set))

\* A return leaves the reader good and takes one call away.
LEMMA PopsGood ==
    ASSUME NEW s, Within(s), NEW ok \in BOOLEAN, NEW u, Popped(s, u, ok),
           \/ ok /\ s.errors = << >> /\ ClosedOffsets(s)
           \/ ~ok /\ s.errors # << >>
    PROVE  Good(u) /\ Calls(u) + 1 <= Len(s.nodes) /\ Len(u.nodes) <= Len(s.nodes)
<1>1. Len(s.nodes) \in Nat /\ Len(u.nodes) \in Nat
  BY WithinFacts DEF Popped
<1>2. CASE Here(s) = << >>
  <2>1. /\ Len(s.nodes) = 1 /\ u.pc = "end" /\ u.ok = ok /\ u.nodes = s.nodes
        /\ Within(u) /\ u.set = s.set /\ u.tree = s.tree /\ u.errors = s.errors
    BY <1>2 DEF Popped
  <2>2. Calls(u) = 0
    BY <2>1 DEF Calls, Inside
  <2>3. Good(u)
    BY <1>2, <2>1 DEF Good, Before, Inside, ClosedOffsets
  <2>4. Calls(u) + 1 <= Len(s.nodes) /\ Len(u.nodes) <= Len(s.nodes)
    <3>1. Len(s.nodes) = 1 /\ Len(u.nodes) = 1
      BY <2>1
    <3> QED BY <2>2, <3>1
  <2> QED BY <2>3, <2>4
<1>3. CASE Here(s) # << >>
  <2>1. /\ Here(u) = Front(Here(s)) /\ Len(u.nodes) = Len(s.nodes) - 1
        /\ u.pc \in (IF ok THEN {"comma", "separator"} ELSE {"recover"}) /\ Placed(u, FALSE)
        /\ Within(u) /\ u.set = s.set /\ u.tree = s.tree /\ u.errors = s.errors /\ u.cur = s.cur
    BY <1>3 DEF Popped
  <2>2. CASE ok
    <3>1. Offsets(u, FALSE)
      BY <1>3, <2>1, <2>2 DEF Offsets, OffsetsUpTo, ClosedOffsets
    <3>2. Good(u)
      BY <2>1, <2>2, <3>1 DEF Good, Before, Inside
    <3>3. Calls(u) = Len(u.nodes)
      BY <2>1, <2>2 DEF Calls, Inside
    <3> QED BY <1>1, <2>1, <3>2, <3>3
  <2>3. CASE ~ok
    <3>1. Good(u)
      BY <2>1, <2>3 DEF Good, Before, Inside
    <3>2. Calls(u) = Len(u.nodes)
      BY <2>1, <2>3 DEF Calls, Inside
    <3> QED BY <1>1, <2>1, <3>1, <3>2
  <2> QED BY <2>2, <2>3
<1> QED BY <1>2, <1>3

\* The end of a container, behind its last token.
LEMMA ClosesGood ==
    ASSUME NEW s, Within(s), Placed(s, FALSE), NEW m, Moved(s, m), NEW ok \in BOOLEAN,
           NEW u, u = CloseContainer(m, ok),
           \/ ok /\ m.errors = << >> /\ Offsets(s, FALSE) /\ s.cur < m.cur
           \/ ~ok /\ m.errors # << >>
    PROVE  Good(u) /\ Calls(u) + 1 <= Len(s.nodes) /\ Len(u.nodes) <= Len(s.nodes)
<1> DEFINE h == Here(m)
           limit == m.cur - 1
           v == [m EXCEPT !.tree[h].limit = limit]
<1>1. Placed(m, FALSE) /\ h = Here(s) /\ Within(m) /\ Len(m.nodes) = Len(s.nodes)
  BY MovedKeeps DEF Moved
<1>2. m.tree \in Trees /\ h \in DOMAIN m.tree /\ m \in Reader /\ h \in Path
  BY <1>1, PlacedFacts
<1>3. limit \in Int /\ m.cur \in Int /\ s.cur \in Int
  BY <1>1, WithinFacts
<1>4. u = Complete(v, ok)
  BY DEF CloseContainer
<1> DEFINE w == [m.tree EXCEPT ![h].limit = limit]
<1>5. v = [m EXCEPT !.tree = w]
  BY <1>2 DEF Reader
<1> HIDE DEF h, limit, v
<1>6. /\ w \in Trees /\ DOMAIN w = DOMAIN m.tree /\ w[h].start = m.tree[h].start /\ w[h].limit = limit
      /\ \A q \in DOMAIN m.tree : q # h => w[q] = m.tree[q]
  <2>1. m.tree[h].start \in Int
    BY <1>2, TreeFacts
  <2> QED BY <1>2, <1>3, <2>1, OffsetsFacts
<1> HIDE DEF w
<1>7. /\ v \in Reader /\ v.tree = w /\ v.nodes = m.nodes /\ v.last = m.last /\ v.cur = m.cur
      /\ v.doc = m.doc /\ v.set = m.set /\ v.errors = m.errors
  BY <1>2, <1>5, <1>6 DEF Reader
<1>8. Within(v) /\ Here(v) = h
  BY <1>1, <1>6, <1>7 DEF Within, Here, h
<1>9. Placed(v, FALSE)
  BY <1>1, <1>6, <1>7, <1>8 DEF Placed, StackIsPath, LastIsNear, h
<1>10. Popped(v, u, ok)
  BY <1>4, <1>8, <1>9, Completes
<1>11. ASSUME ok PROVE ClosedOffsets(v)
  <2> DEFINE e == Slack(m.set)
             at == s.cur - 1
  <2> SUFFICES /\ h = << >> => Nested(w, e)
               /\ h # << >> => Laid(w, Front(h), FALSE, limit, e)
    BY <1>7, <1>8 DEF ClosedOffsets, limit
  <2>1. e \in {0, 1} /\ at \in Int /\ at < limit /\ at <= limit
    <3>1. e \in {0, 1}
      BY SlackFacts
    <3> HIDE DEF e
    <3> QED BY <1>3, <1>11, <3>1 DEF limit
  <2>2. Laid(s.tree, h, FALSE, at, e)
    BY <1>1, <1>11 DEF Offsets, OffsetsUpTo, Moved
  <2> HIDE DEF at, e
  <2>3. Laid(m.tree, h, FALSE, at, e)
    <3>1. s.tree \in Trees /\ SameOffsets(s.tree, m.tree) /\ at <= at
      BY <2>1, WithinFacts DEF Moved
    <3> QED BY <2>1, <2>2, <3>1, LaidLater
  <2>4. \A q \in DOMAIN m.tree : q # h => w[q].start = m.tree[q].start /\ w[q].limit = m.tree[q].limit
    BY <1>6
  <2>5. w[h].start < w[h].limit
    <3>1. Open(h, FALSE, h)
      BY <1>2, PrefixFacts DEF Open, Unread
    <3>2. m.tree[h].start < at + e /\ m.tree[h].start \in Int
      BY <1>2, <2>3, <3>1, TreeFacts DEF Laid
    <3> QED BY <1>3, <1>6, <2>1, <3>2
  <2>6. CASE h = << >>
    BY <1>2, <1>3, <1>6, <2>1, <2>3, <2>4, <2>5, <2>6, LaidDone
  <2>7. CASE h # << >>
    <3>1. Laid(w, Front(h), FALSE, w[h].limit, e)
      BY <1>2, <1>3, <1>6, <2>1, <2>3, <2>4, <2>5, <2>7, LaidClosed
    <3> QED BY <1>6, <2>7, <3>1
  <2> QED BY <2>6, <2>7
<1>12. Good(u) /\ Calls(u) + 1 <= Len(v.nodes) /\ Len(u.nodes) <= Len(v.nodes)
  BY <1>7, <1>8, <1>10, <1>11, PopsGood
<1> QED BY <1>1, <1>7, <1>12

\* A scalar: it is begun and complete in one step.
LEMMA ScalarGood ==
    ASSUME NEW s, Within(s), Placed(s, TRUE), Offsets(s, TRUE), NEW m, Moved(s, m),
           m.errors = << >>, NEW t, IsToken(s.doc, s.cur, t), t.type # "end", m.cur = t.end,
           NEW kind \in Text, NEW u, u = CompleteScalar(m, t, kind)
    PROVE  Good(u) /\ Calls(u) + 1 <= Len(s.nodes) /\ Len(u.nodes) <= Len(s.nodes)
<1> DEFINE h == Here(m)
           start == t.start - 1
           limit == t.end - 1
           w == set_offsets(swap_payload(m.tree, h, kind), h, start, limit)
           v == [m EXCEPT !.tree = w]
<1>1. /\ Placed(m, TRUE) /\ h = Here(s) /\ Within(m) /\ Len(m.nodes) = Len(s.nodes)
      /\ m.doc = s.doc /\ m.set = s.set
  BY MovedKeeps DEF Moved
<1>2. m.tree \in Trees /\ h \in DOMAIN m.tree /\ m \in Reader /\ h \in Path
  BY <1>1, PlacedFacts
<1>3. start \in Int /\ limit \in Int /\ start < limit /\ s.cur - 1 \in Int /\ s.cur - 1 <= start
  BY WithinFacts DEF IsToken
<1>4. u = Complete(v, TRUE)
  BY DEF CompleteScalar
<1>5. w \in Trees
  <2> DEFINE x == swap_payload(m.tree, h, kind)
  <2>1. x \in Trees /\ h \in DOMAIN x
    BY <1>2, PayloadFacts
  <2> HIDE DEF x
  <2>2. w = set_offsets(x, h, start, limit)
    BY DEF x
  <2> HIDE DEF w, start, limit
  <2> QED BY <1>3, <2>1, <2>2, OffsetsFacts
<1> HIDE DEF start, limit
<1>6. w = set_offsets(swap_payload(m.tree, h, kind), h, start, limit)
  OBVIOUS
<1> HIDE DEF w
<1>7. /\ v \in Reader /\ v.tree = w /\ v.nodes = m.nodes /\ v.last = m.last /\ v.cur = m.cur
      /\ v.doc = m.doc /\ v.set = m.set /\ v.errors = m.errors
  BY <1>2, <1>5 DEF Reader
<1> HIDE DEF v
<1>8. /\ Within(v) /\ Placed(v, FALSE) /\ Here(v) = h
      /\ \A q \in DOMAIN w : ~IsStrictPrefix(h, q)
      /\ w[h].start = start /\ w[h].limit = limit
      /\ Opened(m.tree, w, h, start)
  <2>1. v.tree = set_offsets(swap_payload(m.tree, Here(m), kind), Here(m), start, limit)
    BY <1>6, <1>7
  <2>2. /\ Begun(m, v, start) /\ v.tree[Here(m)].limit = limit
        /\ \A q \in DOMAIN v.tree : ~IsStrictPrefix(Here(m), q)
    BY <1>1, <1>3, <1>7, <2>1, Opens
  <2> QED BY <1>7, <2>2 DEF Begun
<1>9. Popped(v, u, TRUE)
  BY <1>4, <1>8, Completes
<1>10. ClosedOffsets(v)
  <2> DEFINE e == Slack(s.set)
             at == s.cur - 1 - e
  <2> SUFFICES /\ h = << >> => Nested(w, e)
               /\ h # << >> => Laid(w, Front(h), FALSE, limit, e)
    BY <1>1, <1>7, <1>8 DEF ClosedOffsets, limit
  <2>1. e \in {0, 1} /\ at \in Int /\ at <= at /\ at <= start /\ start <= limit /\ start < limit + e
    <3>1. e \in {0, 1}
      BY SlackFacts
    <3> HIDE DEF e
    <3> QED BY <1>3, <3>1
  <2>2. Laid(s.tree, h, TRUE, at, e)
    BY <1>1 DEF Offsets, OffsetsUpTo
  <2> HIDE DEF at, e
  <2>3. Laid(m.tree, h, TRUE, at, e)
    <3>1. s.tree \in Trees /\ SameOffsets(s.tree, m.tree)
      BY WithinFacts DEF Moved
    <3> QED BY <2>1, <2>2, <3>1, LaidLater
  <2>4. Laid(w, h, FALSE, limit, e)
    BY <1>3, <1>8, <2>1, <2>3 DEF Opened
  <2>5. h \in DOMAIN w /\ h \in Path
    <3>1. Here(v) \in DOMAIN v.tree
      BY <1>8, PlacedFacts
    <3> QED BY <1>2, <1>7, <1>8, <3>1
  <2>6. w[h].start < w[h].limit
    BY <1>3, <1>8
  <2> QED BY <1>3, <1>5, <1>8, <2>1, <2>4, <2>5, <2>6, LaidScalar
<1>11. Good(u) /\ Calls(u) + 1 <= Len(v.nodes) /\ Len(u.nodes) <= Len(v.nodes)
  BY <1>7, <1>8, <1>9, <1>10, PopsGood
<1> QED BY <1>1, <1>7, <1>11

\* Only the place in the text and comments change.
LEMMA StaysGood ==
    ASSUME NEW s, Good(s), NEW u, Moved(s, u), u.errors = s.errors,
           \/ s.pc \in Before /\ u.pc = s.pc
           \/ s.pc \in Inside /\ u.pc \in Inside
           \/ s.pc = "recover" /\ u.pc = s.pc
    PROVE  Good(u) /\ Calls(u) = Calls(s) /\ Len(u.nodes) = Len(s.nodes)
<1>1. Within(s) /\ Within(u) /\ Len(u.nodes) = Len(s.nodes)
  BY DEF Good, Moved
<1>2. CASE s.pc \in Before /\ u.pc = s.pc
  <2>1. Placed(s, TRUE) /\ Offsets(s, TRUE) /\ s.errors = << >>
    BY <1>2 DEF Good
  <2>2. Placed(u, TRUE) /\ Offsets(u, TRUE)
    BY <1>1, <2>1, MovedKeeps
  <2> QED BY <1>1, <1>2, <2>1, <2>2 DEF Good, Before, Inside, Calls
<1>3. CASE s.pc \in Inside /\ u.pc \in Inside
  <2>1. Placed(s, FALSE) /\ Offsets(s, FALSE) /\ s.errors = << >>
    BY <1>3 DEF Good
  <2>2. Placed(u, FALSE) /\ Offsets(u, FALSE)
    BY <1>1, <2>1, MovedKeeps
  <2> QED BY <1>1, <1>3, <2>1, <2>2 DEF Good, Before, Inside, Calls
<1>4. CASE s.pc = "recover" /\ u.pc = s.pc
  <2>1. Placed(s, FALSE) /\ s.errors # << >>
    BY <1>4 DEF Good
  <2>2. Placed(u, FALSE)
    BY <1>1, <2>1, MovedKeeps
  <2> QED BY <1>1, <1>4, <2>1, <2>2 DEF Good, Before, Inside, Calls
<1> QED BY <1>2, <1>3, <1>4

LEMMA MoreErrors ==
    ASSUME NEW S, NEW errors \in Seq(S), NEW x \in S
    PROVE  Append(errors, x) \in Seq(S) /\ Append(errors, x) # << >>
<1>1. Append(errors, x) \in Seq(S)
  OBVIOUS
<1>2. Len(Append(errors, x)) = Len(errors) + 1 /\ Len(errors) \in Nat
  OBVIOUS
<1>3. Len(Append(errors, x)) # 0
  BY <1>2
<1> QED BY <1>1, <1>3

\* e is s with one error more.
Erred(s, e) ==
    /\ Within(e) /\ e.errors # << >> /\ e.doc = s.doc /\ e.set = s.set /\ e.last = s.last
    /\ e.cur = s.cur /\ e.tree = s.tree /\ e.nodes = s.nodes /\ e.pc = s.pc

LEMMA ErrorFacts ==
    ASSUME NEW s, Within(s), NEW t, NEW cur \in 1 .. Len(s.doc) + 1, IsToken(s.doc, cur, t)
    PROVE  Erred(s, add_error(s, t))
<1> DEFINE e == add_error(s, t)
<1> DEFINE errors == Append(s.errors, <<t.start - 1, t.end - 1>>)
<1>1. s \in Reader /\ s.errors \in Seq(Nat \X Nat)
  BY DEF Within, Reader
<1>2. t.start - 1 \in Nat /\ t.end - 1 \in Nat
  BY WithinFacts DEF IsToken
<1>3. errors \in Seq(Nat \X Nat) /\ errors # << >>
  <2> DEFINE x == <<t.start - 1, t.end - 1>>
  <2>1. x \in Nat \X Nat
    BY <1>2
  <2> HIDE DEF x
  <2>2. Append(s.errors, x) \in Seq(Nat \X Nat) /\ Append(s.errors, x) # << >>
    BY <1>1, <2>1, MoreErrors
  <2> QED BY <2>2 DEF x
<1>4. e = [s EXCEPT !.errors = errors]
  BY DEF add_error
<1> HIDE DEF errors, e
<1>5. /\ e \in Reader /\ e.errors = errors /\ e.doc = s.doc /\ e.set = s.set /\ e.last = s.last
      /\ e.cur = s.cur /\ e.tree = s.tree /\ e.nodes = s.nodes /\ e.pc = s.pc
  BY <1>1, <1>3, <1>4 DEF Reader
<1>6. Erred(s, e)
  BY <1>3, <1>5 DEF Within, Erred
<1> QED BY <1>6 DEF e

Recovering(s, u) == Good(u) /\ Calls(u) = Len(s.nodes) /\ Len(u.nodes) = Len(s.nodes)

LEMMA FailsGood ==
    ASSUME NEW s, Within(s), Placed(s, FALSE), NEW m, Moved(s, m), NEW t,
           IsToken(s.doc, s.cur, t), NEW until \in {"}", "]"}, NEW u, u = FailContainer(m, t, until)
    PROVE  Recovering(s, u)
<1> DEFINE e == add_error(m, t)
<1>1. Placed(m, FALSE) /\ Within(m) /\ m.doc = s.doc /\ Len(m.nodes) = Len(s.nodes)
  BY MovedKeeps DEF Moved
<1>2. s.cur \in 1 .. Len(m.doc) + 1 /\ IsToken(m.doc, s.cur, t)
  BY <1>1, WithinFacts
<1>3. /\ Within(e) /\ e.errors # << >> /\ e.doc = m.doc /\ e.set = m.set /\ e.last = m.last
      /\ e.cur = m.cur /\ e.tree = m.tree /\ e.nodes = m.nodes
  <2>1. Erred(m, add_error(m, t))
    BY <1>1, <1>2, ErrorFacts
  <2>2. Erred(m, e)
    BY <2>1
  <2> HIDE DEF e
  <2> QED BY <2>2 DEF Erred
<1>4. u = [e EXCEPT !.pc = "recover", !.until = until]
  BY DEF FailContainer
<1> HIDE DEF e
<1>5. /\ u \in Reader /\ u.errors = e.errors /\ u.doc = e.doc /\ u.set = e.set /\ u.last = e.last
      /\ u.cur = e.cur /\ u.tree = e.tree /\ u.nodes = e.nodes /\ u.pc = "recover"
  BY <1>3, <1>4 DEF Reader, Within, Pcs
<1>6. Within(u)
  BY <1>3, <1>5 DEF Within
<1>7. Placed(u, FALSE)
  BY <1>1, <1>3, <1>5 DEF Placed, StackIsPath, LastIsNear, Here
<1>8. Good(u) /\ Calls(u) = Len(u.nodes)
  BY <1>3, <1>5, <1>6, <1>7 DEF Good, Before, Inside, Calls
<1> QED BY <1>1, <1>3, <1>5, <1>8 DEF Recovering
-----------------------------------------------------------------------------
\* The steps of a reader

Kept(r, u) == rd' = [rd EXCEPT ![r] = u] /\ Good(u) /\ Counted(rd[r], u)

LEMMA GoodFacts ==
    ASSUME NEW s, Good(s)
    PROVE  /\ Within(s) /\ Len(s.nodes) \in Nat /\ Calls(s) \in Int
           /\ s.pc = "value" => Calls(s) = Len(s.nodes) - 1
           /\ s.pc \in {"first", "recover"} \cup Inside => Calls(s) = Len(s.nodes)
           /\ s.pc \notin {"value", "first", "recover"} \cup Inside => Calls(s) = 0
<1>1. Within(s) /\ Len(s.nodes) \in Nat
  BY WithinFacts DEF Good
<1>2. s.pc = "value" => Calls(s) = Len(s.nodes) - 1
  BY DEF Calls, Inside
<1>3. s.pc \in {"first", "recover"} \cup Inside => Calls(s) = Len(s.nodes)
  BY DEF Calls, Inside
<1>4. s.pc \notin {"value", "first", "recover"} \cup Inside => Calls(s) = 0
  BY DEF Calls
<1> HIDE DEF Calls
<1>5. Calls(s) \in Int
  <2>1. Len(s.nodes) \in Int /\ Len(s.nodes) - 1 \in Int
    BY <1>1
  <2> QED BY <1>2, <1>3, <1>4, <2>1
<1> QED BY <1>1, <1>2, <1>3, <1>4, <1>5

\* A step without a return, and one with a return.
LEMMA StepCounts ==
    ASSUME NEW s, NEW u, Calls(s) \in Int, Calls(u) \in Int, Len(s.nodes) \in Nat,
           Len(u.nodes) \in Nat, stack_depth_g \in Int,
           Len(u.nodes) <= Calls(u) + 1 \/ Len(u.nodes) <= Len(s.nodes),
           \/ stack_depth_g' = stack_depth_g /\ Calls(u) <= Calls(s)
           \/ stack_depth_g' = stack_depth_g - 0 /\ Calls(u) <= Calls(s)
           \/ stack_depth_g' = stack_depth_g - 1 /\ Calls(u) + 1 <= Calls(s)
    PROVE  Counted(s, u)
<1>1. CASE stack_depth_g' = stack_depth_g /\ Calls(u) <= Calls(s)
  BY <1>1 DEF Counted
<1>2. CASE stack_depth_g' = stack_depth_g - 0 /\ Calls(u) <= Calls(s)
  BY <1>2 DEF Counted
<1>3. CASE stack_depth_g' = stack_depth_g - 1 /\ Calls(u) + 1 <= Calls(s)
  BY <1>3 DEF Counted
<1> QED BY <1>1, <1>2, <1>3

LEMMA SkipCommentKeeps ==
    ASSUME NEW r \in Readers, Good(rd[r]), stack_depth_g \in Int, SkipComment(r)
    PROVE  \E u : Kept(r, u)
<1> DEFINE s == rd[r]
           t == Token(s.doc, s.cur)
           u == Take(s, t)
<1>1. rd' = [rd EXCEPT ![r] = u] /\ stack_depth_g' = stack_depth_g /\ s.pc \in {"first", "end"}
  BY DEF SkipComment
<1>2. Within(s) /\ Len(s.nodes) \in Nat /\ Calls(s) \in Int
  BY GoodFacts
<1>3. Moved(s, u) /\ u.nodes = s.nodes /\ u.pc = s.pc /\ u.errors = s.errors /\ u.ok = s.ok
  BY <1>2, TakeMoves
<1> HIDE DEF s, t, u
<1>4. Good(u) /\ Calls(u) = Calls(s) /\ Len(u.nodes) = Len(s.nodes)
  <2>1. CASE s.pc = "first"
    BY <1>3, <2>1, StaysGood DEF Before, s
  <2>2. CASE s.pc = "end"
    <3>1. s.ok => Nested(u.tree, Slack(u.set))
      BY <1>3, <2>2 DEF Good, Moved, SameOffsets, Nested, s
    <3> QED BY <1>3, <2>2, <3>1 DEF Good, Before, Inside, Calls, Moved, s
  <2> QED BY <1>1, <2>1, <2>2
<1>5. Counted(s, u)
  BY <1>1, <1>2, <1>4, StepCounts
<1> QED BY <1>1, <1>4, <1>5 DEF Kept, s

\* A step that ends with a return, and one that does not.
LEMMA ReturnKept ==
    ASSUME NEW r \in Readers, Good(rd[r]), stack_depth_g \in Int, NEW u, Good(u),
           rd' = [rd EXCEPT ![r] = u], rd[r].pc \in {"first", "recover"} \cup Inside,
           Calls(u) + 1 <= Len(rd[r].nodes), Len(u.nodes) <= Len(rd[r].nodes),
           stack_depth_g' = stack_depth_g \/ stack_depth_g' = stack_depth_g - 1
    PROVE  Kept(r, u)
<1> DEFINE s == rd[r]
<1>1. Len(s.nodes) \in Nat /\ Calls(s) = Len(s.nodes) /\ Calls(s) \in Int
  BY GoodFacts
<1>2. Len(u.nodes) \in Nat /\ Calls(u) \in Int
  BY GoodFacts
<1>3. Calls(u) + 1 <= Calls(s) /\ Len(u.nodes) <= Len(s.nodes)
  BY <1>1
<1> HIDE DEF s
<1>4. Calls(u) <= Calls(s)
  BY <1>1, <1>2, <1>3
<1>5. Counted(s, u)
  BY <1>1, <1>2, <1>3, <1>4, StepCounts
<1> QED BY <1>5 DEF Kept, s

LEMMA StayKept ==
    ASSUME NEW r \in Readers, Good(rd[r]), stack_depth_g \in Int, NEW u, Good(u),
           rd' = [rd EXCEPT ![r] = u], Calls(u) <= Calls(rd[r]),
           Len(u.nodes) <= Calls(u) + 1 \/ Len(u.nodes) <= Len(rd[r].nodes),
           stack_depth_g' = stack_depth_g \/ stack_depth_g' = stack_depth_g - 0
    PROVE  Kept(r, u)
<1> DEFINE s == rd[r]
<1>1. Len(s.nodes) \in Nat /\ Calls(s) \in Int
  BY GoodFacts
<1>2. Len(u.nodes) \in Nat /\ Calls(u) \in Int
  BY GoodFacts
<1>3. Calls(u) <= Calls(s) /\ (Len(u.nodes) <= Calls(u) + 1 \/ Len(u.nodes) <= Len(s.nodes))
  OBVIOUS
<1> HIDE DEF s
<1>4. Counted(s, u)
  BY <1>1, <1>2, <1>3, StepCounts
<1> QED BY <1>4 DEF Kept, s

LEMMA OpensAt ==
    ASSUME NEW s, NEW u, NEW start \in Int, NEW kind \in Text, Within(s), Placed(s, TRUE), u \in Reader,
           u.doc = s.doc, u.set = s.set, u.last = s.last, u.cur = s.cur, u.nodes = s.nodes,
           u.tree = StartAt(swap_payload(s.tree, Here(s), kind), Here(s), start)
    PROVE  Begun(s, u, start)
<1>1. 0 \in Int
  OBVIOUS
<1> QED BY <1>1, Opens

Grown(s, tree, u) == u = [s EXCEPT !.tree = tree, !.pc = "member"] \/ u = [s EXCEPT !.tree = tree]

InContainer(s, m, u) ==
    /\ Within(u) /\ Placed(u, FALSE) /\ Offsets(u, FALSE) /\ u.errors = << >>
    /\ OffsetsUpTo(u, FALSE, u.cur - 1 - Slack(u.set))
    /\ u.nodes = s.nodes /\ u.doc = m.doc /\ u.cur = m.cur

\* A container is begun.
LEMMA OpensContainer ==
    ASSUME NEW s, Within(s), Placed(s, TRUE), Offsets(s, TRUE), s.errors = << >>,
           NEW t, t = Token(s.doc, s.cur), t.type # "end", NEW m, m = Started(s, t),
           NEW kind \in Text, NEW w,
           w = StartAt(swap_payload(m.tree, Here(m), kind), Here(m), t.start - 1),
           NEW u, Grown(m, w, u)
    PROVE  InContainer(s, m, u)
<1> DEFINE h == Here(m)
           start == t.start - 1
           limit == m.tree[h].limit
<1>1. /\ Moved(s, m) /\ m.cur = t.end /\ IsToken(s.doc, s.cur, t) /\ m.nodes = s.nodes
      /\ m.pc = s.pc /\ m.errors = s.errors
  BY StartedMoves
<1>2. Placed(m, TRUE) /\ h = Here(s) /\ Within(m) /\ m.set = s.set
  BY <1>1, MovedKeeps DEF Moved
<1>3. m.tree \in Trees /\ h \in DOMAIN m.tree /\ m \in Reader /\ h \in Path
  BY <1>2, PlacedFacts
<1>4. /\ start \in Int /\ s.cur - 1 \in Int /\ s.cur - 1 <= start
      /\ t.end - 1 \in Int /\ start < t.end - 1
  BY <1>1, WithinFacts DEF IsToken
<1>5. limit \in Int
  BY <1>3, TreeFacts
<1>6. w \in Trees
  <2> DEFINE x == swap_payload(m.tree, h, kind)
  <2>1. x \in Trees /\ h \in DOMAIN x
    BY <1>3, <1>5, PayloadFacts
  <2> HIDE DEF x
  <2>2. w = [x EXCEPT ![h].start = start] /\ x[h].limit \in Int
    BY <2>1, TreeFacts DEF x, StartAt
  <2> HIDE DEF h, start
  <2> QED BY <1>4, <2>1, <2>2, OffsetsFacts
<1>7. /\ u \in Reader /\ u.tree = w /\ u.nodes = m.nodes /\ u.last = m.last /\ u.cur = m.cur
      /\ u.doc = m.doc /\ u.set = m.set /\ u.errors = m.errors
  BY <1>3, <1>6 DEF Reader, Pcs, Grown
<1>8. /\ Within(u) /\ Placed(u, FALSE) /\ Here(u) = h
      /\ Opened(m.tree, u.tree, h, start)
  <2>1. u.tree = StartAt(swap_payload(m.tree, Here(m), kind), Here(m), start)
    BY <1>7 DEF StartAt
  <2> HIDE DEF start, limit
  <2>2. /\ Within(u) /\ Placed(u, FALSE) /\ Here(u) = Here(m)
        /\ Opened(m.tree, u.tree, Here(m), start)
    <3>1. /\ Within(m) /\ Placed(m, TRUE) /\ u \in Reader /\ start \in Int /\ kind \in Text
          /\ limit \in Int /\ u.doc = m.doc /\ u.set = m.set /\ u.last = m.last /\ u.cur = m.cur
          /\ u.nodes = m.nodes
      BY <1>2, <1>4, <1>5, <1>7
    <3> HIDE DEF h
    <3>2. Begun(m, u, start)
      BY <2>1, <3>1, OpensAt
    <3> QED BY <3>2 DEF Begun
  <2> QED BY <2>2
<1>9. Offsets(u, FALSE) /\ OffsetsUpTo(u, FALSE, u.cur - 1 - Slack(u.set))
  <2> DEFINE e == Slack(s.set)
             at == s.cur - 1 - e
             first == t.end - 1
             second == t.end - 1 - e
  <2> SUFFICES Laid(u.tree, h, FALSE, first, e) /\ Laid(u.tree, h, FALSE, second, e)
    BY <1>1, <1>2, <1>7, <1>8 DEF Offsets, OffsetsUpTo
  <2>1. s.tree \in Trees /\ SameOffsets(s.tree, m.tree) /\ Laid(s.tree, h, TRUE, at, e)
    BY <1>1, <1>2, WithinFacts DEF Moved, Offsets, OffsetsUpTo
  <2>2. /\ e \in {0, 1} /\ at \in Int /\ at <= at /\ at <= start
        /\ first \in Int /\ start <= first /\ start < first + e
        /\ second \in Int /\ start <= second /\ start < second + e
    <3>1. e \in {0, 1}
      BY SlackFacts
    <3> HIDE DEF e
    <3> QED BY <1>4, <3>1
  <2> HIDE DEF at, h, start, e, first, second
  <2>3. Laid(m.tree, h, TRUE, at, e)
    BY <2>1, <2>2, LaidLater
  <2> QED BY <1>4, <1>8, <2>2, <2>3 DEF Opened
<1> QED BY <1>1, <1>7, <1>8, <1>9 DEF InContainer

LEMMA FirstFacts ==
    ASSUME NEW s, Good(s), s.pc = "first"
    PROVE  /\ Within(s) /\ Placed(s, TRUE) /\ Offsets(s, TRUE) /\ s.errors = << >>
           /\ Len(s.nodes) \in Nat /\ Calls(s) = Len(s.nodes)
<1>1. Within(s) /\ Len(s.nodes) \in Nat /\ Calls(s) = Len(s.nodes)
  BY GoodFacts
<1> QED BY <1>1 DEF Good, Before

LEMMA InsideFacts ==
    ASSUME NEW s, Good(s), s.pc \in Inside
    PROVE  /\ Within(s) /\ Placed(s, FALSE) /\ Offsets(s, FALSE) /\ s.errors = << >>
           /\ Len(s.nodes) \in Nat /\ Calls(s) = Len(s.nodes)
<1>1. Within(s) /\ Len(s.nodes) \in Nat /\ Calls(s) = Len(s.nodes)
  BY GoodFacts
<1> QED BY <1>1 DEF Good

\* A reader that is in a container.
LEMMA InsideGood ==
    ASSUME NEW u, Within(u), Placed(u, FALSE), Offsets(u, FALSE), u.errors = << >>, u.pc \in Inside
    PROVE  Good(u) /\ Calls(u) = Len(u.nodes)
BY DEF Good, Before, Inside, Calls

LEMMA ValueGood ==
    ASSUME NEW u, Within(u), Placed(u, TRUE), Offsets(u, TRUE), u.errors = << >>, u.pc = "value"
    PROVE  Good(u) /\ Calls(u) = Len(u.nodes) - 1
BY DEF Good, Before, Inside, Calls

LEMMA OpenObjectKeeps ==
    ASSUME NEW r \in Readers, Good(rd[r]), stack_depth_g \in Int, OpenObject(r)
    PROVE  \E u : Kept(r, u)
<1> DEFINE s == rd[r]
           t == Token(s.doc, s.cur)
           m == Started(s, t)
           w == StartAt(swap_payload(m.tree, Here(m), "object"), Here(m), t.start - 1)
           u == [m EXCEPT !.tree = w, !.pc = "member"]
<1>1. /\ rd' = [rd EXCEPT ![r] = u] /\ stack_depth_g' = stack_depth_g
      /\ s.pc = "first" /\ t.type # "end"
  BY DEF OpenObject, First, StartAt
<1>2. Grown(m, w, u) /\ "object" \in Text
  BY DEF Grown, Text
<1>3. /\ Within(s) /\ Placed(s, TRUE) /\ Offsets(s, TRUE) /\ s.errors = << >>
      /\ Len(s.nodes) \in Nat /\ Calls(s) = Len(s.nodes)
  BY <1>1, FirstFacts
<1>4. t = Token(s.doc, s.cur) /\ m = Started(s, t)
      /\ w = StartAt(swap_payload(m.tree, Here(m), "object"), Here(m), t.start - 1)
  OBVIOUS
<1>5. u.pc = "member"
  <2>1. m \in Reader
    BY <1>3, StartedMoves DEF Moved, Within
  <2> HIDE DEF w, m
  <2> QED BY <2>1 DEF Reader
<1> HIDE DEF s, t, m, w, u
<1>6. /\ Within(u) /\ Placed(u, FALSE) /\ Offsets(u, FALSE) /\ u.errors = << >> /\ u.nodes = s.nodes
  <2>1. Within(s) /\ Placed(s, TRUE) /\ Offsets(s, TRUE) /\ s.errors = << >> /\ t.type # "end"
    BY <1>1, <1>3
  <2>2. InContainer(s, m, u)
    BY <1>2, <1>4, <2>1, OpensContainer
  <2> QED BY <2>2 DEF InContainer
<1>7. Good(u) /\ Calls(u) = Len(u.nodes)
  BY <1>5, <1>6, InsideGood DEF Inside
<1>8. Calls(u) <= Calls(s) /\ Len(u.nodes) <= Len(s.nodes)
  BY <1>3, <1>6, <1>7
<1>9. Kept(r, u)
  BY <1>1, <1>7, <1>8, StayKept DEF s
<1> QED BY <1>9

LEMMA OpenArrayKeeps ==
    ASSUME NEW r \in Readers, Good(rd[r]), stack_depth_g \in Int, OpenArray(r)
    PROVE  \E u : Kept(r, u)
<1> DEFINE s == rd[r]
           t == Token(s.doc, s.cur)
           m == Started(s, t)
           w == StartAt(swap_payload(m.tree, Here(m), "array"), Here(m), t.start - 1)
           v == [m EXCEPT !.tree = w]
           next == Token(m.doc, m.cur)
<1>1. /\ s.pc = "first" /\ t.type # "end"
      /\ \/ /\ next.type = "]" /\ rd' = [rd EXCEPT ![r] = CloseContainer(Take(v, next), TRUE)]
            /\ stack_depth_g' = stack_depth_g - 1
         \/ rd' = [rd EXCEPT ![r] = Descend(v, ToString(0))] /\ stack_depth_g' = stack_depth_g
  BY DEF OpenArray, First, StartAt
<1>2. Grown(m, w, v) /\ "array" \in Text /\ ToString(0) \in Text
  BY DEF Grown, Text
<1>3. /\ Within(s) /\ Placed(s, TRUE) /\ Offsets(s, TRUE) /\ s.errors = << >>
      /\ Len(s.nodes) \in Nat /\ Calls(s) = Len(s.nodes)
  BY <1>1, FirstFacts
<1>4. t = Token(s.doc, s.cur) /\ m = Started(s, t) /\ next = Token(m.doc, m.cur)
      /\ w = StartAt(swap_payload(m.tree, Here(m), "array"), Here(m), t.start - 1)
  OBVIOUS
<1> HIDE DEF s, t, m, w, v, next
<1>5. /\ Within(v) /\ Placed(v, FALSE) /\ Offsets(v, FALSE) /\ v.errors = << >>
      /\ OffsetsUpTo(v, FALSE, v.cur - 1 - Slack(v.set))
      /\ v.nodes = s.nodes /\ v.doc = m.doc /\ v.cur = m.cur
  <2>1. Within(s) /\ Placed(s, TRUE) /\ Offsets(s, TRUE) /\ s.errors = << >> /\ t.type # "end"
    BY <1>1, <1>3
  <2>2. InContainer(s, m, v)
    BY <1>2, <1>4, <2>1, OpensContainer
  <2> QED BY <2>2 DEF InContainer
<1>6. CASE /\ next.type = "]" /\ rd' = [rd EXCEPT ![r] = CloseContainer(Take(v, next), TRUE)]
           /\ stack_depth_g' = stack_depth_g - 1
  <2> DEFINE x == Take(v, next)
             u == CloseContainer(x, TRUE)
  <2>1. next = Token(v.doc, v.cur) /\ x = Take(v, next) /\ u = CloseContainer(x, TRUE)
    BY <1>4, <1>5
  <2> HIDE DEF x, u
  <2>2. Moved(v, x) /\ x.cur = next.end /\ IsToken(v.doc, v.cur, next) /\ x.errors = << >>
    BY <1>5, <2>1, TakeMoves
  <2>3. v.cur < x.cur
    BY <1>5, <1>6, <2>2, WithinFacts DEF IsToken
  <2>4. Good(u) /\ Calls(u) + 1 <= Len(v.nodes) /\ Len(u.nodes) <= Len(v.nodes)
    BY <1>5, <2>1, <2>2, <2>3, ClosesGood
  <2>5. rd' = [rd EXCEPT ![r] = u]
    BY <1>6 DEF x, u
  <2>6. Kept(r, u)
    BY <1>1, <1>5, <1>6, <2>4, <2>5, ReturnKept DEF s
  <2> QED BY <2>6
<1>7. CASE rd' = [rd EXCEPT ![r] = Descend(v, ToString(0))] /\ stack_depth_g' = stack_depth_g
  <2> DEFINE u == Descend(v, ToString(0))
  <2>1. u = Descend(v, ToString(0)) /\ rd' = [rd EXCEPT ![r] = u] /\ stack_depth_g' = stack_depth_g
    BY <1>7
  <2> HIDE DEF u
  <2>2. /\ Within(u) /\ Placed(u, TRUE) /\ Offsets(u, TRUE) /\ u.pc = "value"
        /\ u.errors = << >> /\ Len(u.nodes) = Len(v.nodes) + 1
    <3>1. Lower(v, u)
      BY <1>2, <1>5, <2>1, Descends
    <3> QED BY <1>5, <3>1 DEF Lower
  <2>3. Good(u) /\ Calls(u) = Len(u.nodes) - 1
    BY <2>2, ValueGood
  <2>4. Calls(u) <= Calls(s) /\ Len(u.nodes) <= Calls(u) + 1
    BY <1>3, <1>5, <2>2, <2>3
  <2>5. Kept(r, u)
    BY <2>1, <2>3, <2>4, StayKept DEF s
  <2> QED BY <2>5
<1> QED BY <1>1, <1>6, <1>7

LEMMA OpensWith ==
    ASSUME NEW s, NEW u, NEW start \in Int, NEW limit \in Int, NEW kind \in Text, Within(s),
           Placed(s, TRUE), u \in Reader,
           u.doc = s.doc, u.set = s.set, u.last = s.last, u.cur = s.cur, u.nodes = s.nodes,
           u.tree = set_offsets(swap_payload(s.tree, Here(s), kind), Here(s), start, limit)
    PROVE  Begun(s, u, start)
BY Opens

\* An error was added to the reader m.
Failed(m, b, e) == Within(e) /\ Placed(e, b) /\ e.errors # << >> /\ e.nodes = m.nodes

LEMMA Fails ==
    ASSUME NEW m, NEW b, Within(m), Placed(m, b), NEW cur \in 1 .. Len(m.doc) + 1, NEW t,
           IsToken(m.doc, cur, t), NEW e, e = add_error(m, t)
    PROVE  Failed(m, b, e)
<1>1. /\ Within(e) /\ e.errors # << >> /\ e.last = m.last /\ e.tree = m.tree /\ e.nodes = m.nodes
  <2>1. Erred(m, add_error(m, t))
    BY ErrorFacts
  <2>2. Erred(m, e)
    BY <2>1
  <2> QED BY <2>2 DEF Erred
<1>2. Placed(e, b)
  BY <1>1 DEF Placed, LastIsNear, Here
<1> QED BY <1>1, <1>2 DEF Failed

LEMMA PlacedWeaker ==
    ASSUME NEW s, Placed(s, TRUE)
    PROVE  Placed(s, FALSE)
BY DEF Placed, LastIsNear

LEMMA ReadScalarKeeps ==
    ASSUME NEW r \in Readers, Good(rd[r]), stack_depth_g \in Int, ReadScalar(r)
    PROVE  \E u : Kept(r, u)
<1> DEFINE s == rd[r]
           t == Token(s.doc, s.cur)
           m == Started(s, t)
           e == add_error(m, t)
           kind == KindOf(t.lexeme)
<1>1. /\ s.pc = "first" /\ t.type # "end" /\ stack_depth_g' = stack_depth_g - 1
      /\ \/ rd' = [rd EXCEPT ![r] = Complete(e, FALSE)]
         \/ rd' = [rd EXCEPT ![r] = CompleteScalar(m, t, kind)]
  BY DEF ReadScalar, First
<1>2. /\ Within(s) /\ Placed(s, TRUE) /\ Offsets(s, TRUE) /\ s.errors = << >>
      /\ Len(s.nodes) \in Nat /\ Calls(s) = Len(s.nodes)
  BY <1>1, FirstFacts
<1>3. t = Token(s.doc, s.cur) /\ m = Started(s, t) /\ e = add_error(m, t)
  OBVIOUS
<1> HIDE DEF s, t, m, e
<1>4. /\ Moved(s, m) /\ m.cur = t.end /\ IsToken(s.doc, s.cur, t) /\ m.nodes = s.nodes
      /\ m.errors = << >>
  BY <1>2, <1>3, StartedMoves
<1>5. kind \in Text
  <2>1. t.lexeme \in Text /\ "a" \in Text
    BY <1>4 DEF IsToken, Text
  <2> QED BY <2>1 DEF KindOf
<1> HIDE DEF kind
<1>6. CASE rd' = [rd EXCEPT ![r] = Complete(e, FALSE)]
  <2> DEFINE u == Complete(e, FALSE)
  <2>1. u = Complete(e, FALSE) /\ rd' = [rd EXCEPT ![r] = u]
    BY <1>6
  <2> HIDE DEF u
  <2>2. Within(m) /\ Placed(m, TRUE) /\ s.cur \in 1 .. Len(m.doc) + 1 /\ IsToken(m.doc, s.cur, t)
    BY <1>2, <1>4, MovedKeeps, WithinFacts DEF Moved
  <2>3. Failed(m, TRUE, e)
    BY <1>3, <2>2, Fails
  <2>4. Within(e) /\ Placed(e, FALSE) /\ e.errors # << >> /\ e.nodes = s.nodes
    BY <1>4, <2>3, PlacedWeaker DEF Failed
  <2>5. Popped(e, u, FALSE)
    BY <2>1, <2>4, Completes
  <2>6. Good(u) /\ Calls(u) + 1 <= Len(e.nodes) /\ Len(u.nodes) <= Len(e.nodes)
    BY <2>4, <2>5, PopsGood
  <2>7. Kept(r, u)
    BY <1>1, <2>1, <2>4, <2>6, ReturnKept DEF s
  <2> QED BY <2>7
<1>7. CASE rd' = [rd EXCEPT ![r] = CompleteScalar(m, t, kind)]
  <2> DEFINE u == CompleteScalar(m, t, kind)
  <2>1. u = CompleteScalar(m, t, kind) /\ rd' = [rd EXCEPT ![r] = u]
    BY <1>7
  <2> HIDE DEF u
  <2>2. Good(u) /\ Calls(u) + 1 <= Len(s.nodes) /\ Len(u.nodes) <= Len(s.nodes)
    BY <1>1, <1>2, <1>4, <1>5, <2>1, ScalarGood
  <2>3. Kept(r, u)
    BY <1>1, <2>1, <2>2, ReturnKept DEF s
  <2> QED BY <2>3
<1> QED BY <1>1, <1>6, <1>7

LEMMA ReadDroppedKeeps ==
    ASSUME NEW r \in Readers, Good(rd[r]), stack_depth_g \in Int, ReadDropped(r)
    PROVE  \E u : Kept(r, u)
<1> DEFINE s == rd[r]
           t == Token(s.doc, s.cur)
           m == Started(s, t)
           x == [m EXCEPT !.cur = m.cur - 1]
           h == Here(x)
           w == set_offsets(swap_payload(x.tree, h, "n"), h, x.cur - 2, x.cur - 1)
           v == [x EXCEPT !.tree = w]
           u == Complete(v, TRUE)
<1>1. /\ s.pc = "first" /\ t.type # "end" /\ stack_depth_g' = stack_depth_g - 1
      /\ rd' = [rd EXCEPT ![r] = u] /\ x.set.dropped
  BY DEF ReadDropped, First
<1>2. /\ Within(s) /\ Placed(s, TRUE) /\ Offsets(s, TRUE) /\ s.errors = << >>
      /\ Len(s.nodes) \in Nat /\ Calls(s) = Len(s.nodes)
  BY <1>1, FirstFacts
<1>3. /\ Moved(s, m) /\ m.cur = t.end /\ IsToken(s.doc, s.cur, t) /\ m.nodes = s.nodes
      /\ m.errors = << >>
  BY <1>2, StartedMoves
<1> HIDE DEF s, t, m
<1>4. Within(m) /\ Placed(m, TRUE) /\ m \in Reader
  BY <1>2, <1>3, MovedKeeps DEF Moved, Within
<1>5. m.cur - 1 \in 1 .. Len(m.doc) + 1 /\ m.cur - 1 \in Nat
  <2>1. t.start < t.end /\ t.start \in s.cur .. Len(s.doc) + 1 /\ t.end \in t.start .. Len(s.doc) + 1
    BY <1>1, <1>3 DEF IsToken
  <2>2. s.cur \in 1 .. Len(s.doc) + 1 /\ Len(s.doc) \in Nat
    BY <1>2, WithinFacts
  <2>3. m.cur = t.end /\ m.doc = s.doc
    BY <1>3 DEF Moved
  <2> QED BY <2>1, <2>2, <2>3
<1>6. /\ x \in Reader /\ x.doc = m.doc /\ x.set = m.set /\ x.last = m.last /\ x.cur = m.cur - 1
      /\ x.nodes = m.nodes /\ x.tree = m.tree /\ x.errors = m.errors
  BY <1>4, <1>5 DEF Reader
<1> HIDE DEF x
<1>7. Within(x) /\ Placed(x, TRUE)
  BY <1>4, <1>5, <1>6 DEF Within, Placed, LastIsNear, Here
<1>8. x.cur - 2 \in Int /\ x.cur - 1 \in Int /\ "n" \in Text
  <2>1. "n" \in Text
    BY DEF Text
  <2> QED BY <1>5, <1>6, <2>1
<1>9. w \in Trees
  <2> DEFINE y == swap_payload(x.tree, h, "n")
             start == x.cur - 2
             limit == x.cur - 1
  <2>1. x.tree \in Trees /\ h \in DOMAIN x.tree
    BY <1>7, PlacedFacts
  <2>2. y \in Trees /\ h \in DOMAIN y
    BY <1>8, <2>1, PayloadFacts
  <2>3. w = set_offsets(y, h, start, limit) /\ start \in Int /\ limit \in Int
    BY <1>8
  <2> HIDE DEF y, h, w, start, limit
  <2> QED BY <2>2, <2>3, OffsetsFacts
<1>10. w = set_offsets(swap_payload(x.tree, Here(x), "n"), Here(x), x.cur - 2, x.cur - 1)
  OBVIOUS
<1> HIDE DEF w, h
<1>11. /\ v \in Reader /\ v.doc = x.doc /\ v.set = x.set /\ v.last = x.last /\ v.cur = x.cur
       /\ v.nodes = x.nodes /\ v.tree = w /\ v.errors = x.errors
  BY <1>6, <1>9 DEF Reader
<1>12. u = Complete(v, TRUE) /\ rd' = [rd EXCEPT ![r] = u]
  BY <1>1
<1> HIDE DEF v, u
<1>13. Begun(x, v, x.cur - 2)
  <2> DEFINE start == x.cur - 2
             limit == x.cur - 1
  <2>1. /\ start \in Int /\ limit \in Int
        /\ v.tree = set_offsets(swap_payload(x.tree, Here(x), "n"), Here(x), start, limit)
    BY <1>8, <1>10, <1>11
  <2> HIDE DEF start, limit
  <2>2. Begun(x, v, start)
    BY <1>7, <1>8, <1>11, <2>1, OpensWith
  <2> QED BY <2>2 DEF start
<1>14. Within(v) /\ Placed(v, FALSE)
  BY <1>13 DEF Begun
<1>15. Popped(v, u, TRUE)
  BY <1>12, <1>14, Completes
<1>16. v.errors = << >> /\ v.nodes = s.nodes
  BY <1>1, <1>3, <1>6, <1>11
<1>17. ClosedOffsets(v)
  <2> DEFINE at == s.cur - 2
             start == x.cur - 2
             limit == x.cur - 1
             k == Here(s)
  <2>1. /\ at \in Int /\ start \in Int /\ limit \in Int /\ at <= at /\ at <= start
        /\ start <= limit /\ start < limit + 1 /\ start < limit
    BY <1>1, <1>2, <1>3, <1>6, <1>8, WithinFacts DEF IsToken
  <2>2. /\ Slack(s.set) = 1 /\ Slack(v.set) = 1 /\ Here(x) = k /\ Here(v) = k /\ v.cur = x.cur
        /\ v.tree = w
    <3>1. m.set = s.set /\ Here(m) = k
      BY <1>2, <1>3, MovedKeeps DEF Moved
    <3> QED BY <1>1, <1>6, <1>11, <3>1 DEF Slack, Here
  <2>3. Laid(s.tree, k, TRUE, at, 1)
    <3>1. s.cur - 1 - 1 = at
      BY <1>2, WithinFacts
    <3> QED BY <1>2, <2>2, <3>1 DEF Offsets, OffsetsUpTo
  <2>4. /\ x.tree \in Trees /\ w \in Trees /\ k \in DOMAIN x.tree /\ "n" \in Text
        /\ s.tree \in Trees /\ SameOffsets(s.tree, x.tree)
    <3>1. x.tree \in Trees /\ Here(x) \in DOMAIN x.tree
      BY <1>7, PlacedFacts
    <3>2. s.tree \in Trees /\ SameOffsets(s.tree, m.tree)
      BY <1>2, <1>3, WithinFacts DEF Moved
    <3> QED BY <1>6, <1>8, <1>9, <2>2, <3>1, <3>2
  <2>5. w = set_offsets(swap_payload(x.tree, k, "n"), k, start, limit)
    BY <1>10, <2>2
  <2> HIDE DEF at, start, limit, k
  <2>6. Laid(x.tree, k, TRUE, at, 1)
    BY <2>1, <2>3, <2>4, LaidLater
  <2>7. /\ \A q : q \in DOMAIN w <=> q \in DOMAIN x.tree /\ ~IsStrictPrefix(k, q)
        /\ k \in DOMAIN w /\ w[k].start = start /\ w[k].limit = limit
        /\ \A q \in DOMAIN w : q # k => w[q].start = x.tree[q].start /\ w[q].limit = x.tree[q].limit
    <3> DEFINE y == swap_payload(x.tree, k, "n")
    <3>1. /\ y \in Trees /\ k \in DOMAIN y
          /\ \A q : q \in DOMAIN y <=> q \in DOMAIN x.tree /\ ~IsStrictPrefix(k, q)
          /\ \A q \in DOMAIN y : y[q].start = x.tree[q].start /\ y[q].limit = x.tree[q].limit
      BY <2>4, PayloadFacts
    <3> HIDE DEF y
    <3>2. /\ DOMAIN w = DOMAIN y /\ w[k].start = start /\ w[k].limit = limit
          /\ \A q \in DOMAIN y : q # k => w[q] = y[q]
      BY <2>1, <2>5, <3>1, OffsetsFacts DEF y
    <3> QED BY <3>1, <3>2
  <2>8. Laid(w, k, FALSE, limit, 1)
    BY <2>1, <2>4, <2>6, <2>7, LaidOpened
  <2>9. \A q \in DOMAIN w : ~IsStrictPrefix(k, q)
    BY <2>7
  <2>10. /\ k = << >> => Nested(w, 1)
         /\ k # << >> => Laid(w, Front(k), FALSE, limit, 1)
    BY <2>1, <2>4, <2>7, <2>8, <2>9, LaidScalar
  <2> QED BY <2>2, <2>10 DEF ClosedOffsets, limit
<1>18. Good(u) /\ Calls(u) + 1 <= Len(v.nodes) /\ Len(u.nodes) <= Len(v.nodes)
  BY <1>14, <1>15, <1>16, <1>17, PopsGood
<1>19. Kept(r, u)
  BY <1>1, <1>12, <1>16, <1>18, ReturnKept DEF s
<1> QED BY <1>19

LEMMA ReadUnexpectedKeeps ==
    ASSUME NEW r \in Readers, Good(rd[r]), stack_depth_g \in Int, ReadUnexpected(r)
    PROVE  \E u : Kept(r, u)
<1> DEFINE s == rd[r]
           t == Token(s.doc, s.cur)
           m == Started(s, t)
           w == set_offsets(m.tree, Here(m), t.start - 1, t.end - 1)
           v == [m EXCEPT !.tree = w]
           e == add_error(v, t)
           u == Return(e, FALSE)
<1>1. /\ s.pc = "first" /\ stack_depth_g' = stack_depth_g /\ rd' = [rd EXCEPT ![r] = u]
  BY DEF ReadUnexpected, First
<1>2. /\ Within(s) /\ Placed(s, TRUE) /\ Len(s.nodes) \in Nat /\ Calls(s) = Len(s.nodes)
  BY <1>1, FirstFacts
<1>3. Moved(s, m) /\ IsToken(s.doc, s.cur, t) /\ m.nodes = s.nodes
  BY <1>2, StartedMoves
<1>4. u = Return(e, FALSE) /\ rd' = [rd EXCEPT ![r] = u] /\ e = add_error(v, t)
  BY <1>1
<1> HIDE DEF s, t, m, e, u
<1>5. /\ Within(m) /\ Placed(m, TRUE) /\ m \in Reader /\ m.doc = s.doc
      /\ m.tree \in Trees /\ Here(m) \in DOMAIN m.tree
  <2>1. Within(m) /\ Placed(m, TRUE) /\ m \in Reader /\ m.doc = s.doc
    BY <1>2, <1>3, MovedKeeps DEF Moved, Within
  <2> QED BY <2>1, PlacedFacts
<1>6. w \in Trees /\ DOMAIN w = DOMAIN m.tree
  <2> DEFINE start == t.start - 1
             limit == t.end - 1
             h == Here(m)
  <2>1. start \in Int /\ limit \in Int
    BY <1>2, <1>3, WithinFacts DEF IsToken
  <2>2. w = set_offsets(m.tree, h, start, limit) /\ h \in DOMAIN m.tree
    BY <1>5
  <2> HIDE DEF w, start, limit, h
  <2> QED BY <1>5, <2>1, <2>2, OffsetsFacts
<1> HIDE DEF w
<1>7. /\ v \in Reader /\ v.doc = m.doc /\ v.set = m.set /\ v.last = m.last /\ v.cur = m.cur
      /\ v.nodes = m.nodes /\ v.tree = w /\ v.errors = m.errors
  BY <1>5, <1>6 DEF Reader
<1> HIDE DEF v
<1>8. Within(v) /\ Placed(v, TRUE)
  BY <1>5, <1>6, <1>7 DEF Within, Placed, StackIsPath, LastIsNear, Here
<1>9. s.cur \in 1 .. Len(v.doc) + 1 /\ IsToken(v.doc, s.cur, t)
  BY <1>2, <1>3, <1>5, <1>7, WithinFacts
<1>10. Failed(v, TRUE, e)
  BY <1>4, <1>8, <1>9, Fails
<1>11. Within(e) /\ Placed(e, TRUE) /\ e.errors # << >> /\ e.nodes = s.nodes
  BY <1>3, <1>7, <1>10 DEF Failed
<1>12. Popped(e, u, FALSE)
  BY <1>4, <1>11, Pops
<1>13. Good(u) /\ Calls(u) + 1 <= Len(e.nodes) /\ Len(u.nodes) <= Len(e.nodes)
  BY <1>11, <1>12, PopsGood
<1>14. Kept(r, u)
  BY <1>1, <1>4, <1>11, <1>13, ReturnKept DEF s
<1> QED BY <1>14
-----------------------------------------------------------------------------
\* The loops of read_object() and read_array()

LEMMA CloseKept ==
    ASSUME NEW r \in Readers, NEW s, s = rd[r], Good(s), stack_depth_g \in Int, s.pc \in Inside,
           NEW t, t = Token(s.doc, s.cur), t.type # "end", NEW m, m = Take(s, t),
           rd' = [rd EXCEPT ![r] = CloseContainer(m, TRUE)], stack_depth_g' = stack_depth_g - 1
    PROVE  \E u : Kept(r, u)
<1> DEFINE u == CloseContainer(m, TRUE)
<1>1. u = CloseContainer(m, TRUE) /\ rd' = [rd EXCEPT ![r] = u]
  OBVIOUS
<1> HIDE DEF u
<1>2. Within(s) /\ Placed(s, FALSE) /\ Offsets(s, FALSE) /\ s.errors = << >>
  BY InsideFacts
<1>3. Moved(s, m) /\ m.cur = t.end /\ IsToken(s.doc, s.cur, t) /\ m.errors = << >>
  BY <1>2, TakeMoves
<1>4. s.cur < m.cur
  BY <1>2, <1>3, WithinFacts DEF IsToken
<1>5. Good(u) /\ Calls(u) + 1 <= Len(s.nodes) /\ Len(u.nodes) <= Len(s.nodes)
  BY <1>1, <1>2, <1>3, <1>4, ClosesGood
<1>6. Kept(r, u)
  BY <1>1, <1>5, ReturnKept
<1> QED BY <1>6

LEMMA SameIsLess == \A i, j : i \in Nat /\ i = j => i <= j /\ j <= i
OBVIOUS

LEMMA FailKept ==
    ASSUME NEW r \in Readers, NEW s, s = rd[r], Good(s), stack_depth_g \in Int, s.pc \in Inside,
           NEW t, IsToken(s.doc, s.cur, t), NEW m, Moved(s, m), NEW until \in {"}", "]"},
           NEW u, u = FailContainer(m, t, until), rd' = [rd EXCEPT ![r] = u],
           stack_depth_g' = stack_depth_g \/ stack_depth_g' = stack_depth_g - 0
    PROVE  \E v : Kept(r, v)
<1>1. Within(s) /\ Placed(s, FALSE) /\ Len(s.nodes) \in Nat /\ Calls(s) = Len(s.nodes)
  BY InsideFacts
<1>2. Recovering(s, u)
  BY <1>1, FailsGood
<1>3. Good(u) /\ Calls(u) = Calls(s) /\ Len(u.nodes) = Len(s.nodes)
  BY <1>1, <1>2 DEF Recovering
<1>4. Calls(u) <= Calls(s) /\ Len(u.nodes) <= Len(s.nodes)
  BY <1>1, <1>3, SameIsLess
<1>5. Kept(r, u)
  BY <1>3, <1>4, StayKept
<1> QED BY <1>5

LEMMA MoveKept ==
    ASSUME NEW r \in Readers, NEW s, s = rd[r], Good(s), stack_depth_g \in Int, NEW u, Moved(s, u),
           u.errors = s.errors,
           (s.pc \in Inside /\ u.pc \in Inside) \/ (s.pc = "recover" /\ u.pc = s.pc),
           rd' = [rd EXCEPT ![r] = u],
           stack_depth_g' = stack_depth_g \/ stack_depth_g' = stack_depth_g - 0
    PROVE  \E v : Kept(r, v)
<1>1. Good(u) /\ Calls(u) = Calls(s) /\ Len(u.nodes) = Len(s.nodes)
  BY StaysGood
<1>2. Len(s.nodes) \in Nat /\ Calls(s) \in Int
  BY GoodFacts
<1>3. Calls(u) <= Calls(s) /\ Len(u.nodes) <= Len(s.nodes)
  BY <1>1, <1>2
<1>4. Kept(r, u)
  BY <1>1, <1>3, StayKept
<1> QED BY <1>4

LEMMA DescendKept ==
    ASSUME NEW r \in Readers, NEW s, s = rd[r], Good(s), stack_depth_g \in Int, s.pc \in Inside,
           NEW m, Moved(s, m), s.cur < m.cur, m.errors = s.errors, NEW k \in Text, NEW d \in BOOLEAN,
           NEW v, v = Descend(m, k), NEW u, u = v \/ u = [v EXCEPT !.dup = d],
           rd' = [rd EXCEPT ![r] = u],
           stack_depth_g' = stack_depth_g \/ stack_depth_g' = stack_depth_g - 0
    PROVE  \E w : Kept(r, w)
<1>1. /\ Within(s) /\ Placed(s, FALSE) /\ Offsets(s, FALSE) /\ s.errors = << >>
      /\ Len(s.nodes) \in Nat /\ Calls(s) = Len(s.nodes)
  BY InsideFacts
<1>2. Within(m) /\ Placed(m, FALSE) /\ Offsets(m, FALSE) /\ Len(m.nodes) = Len(s.nodes)
  BY <1>1, MovedKeeps DEF Moved
<1>3. /\ Within(v) /\ Placed(v, TRUE) /\ Offsets(v, TRUE) /\ v.pc = "value"
      /\ v.errors = m.errors /\ Len(v.nodes) = Len(m.nodes) + 1
  <2> DEFINE e == Slack(s.set)
             at == s.cur - 1
             later == m.cur - 1 - e
  <2>1. /\ e \in {0, 1} /\ at \in Int /\ later \in Int /\ at <= later
        /\ s.tree \in Trees /\ SameOffsets(s.tree, m.tree) /\ m.set = s.set /\ Here(m) = Here(s)
    <3>1. e \in {0, 1}
      BY SlackFacts
    <3>2. s.cur \in Int /\ m.cur \in Int /\ s.tree \in Trees
      BY <1>1, <1>2, WithinFacts
    <3>3. SameOffsets(s.tree, m.tree) /\ m.set = s.set /\ Here(m) = Here(s)
      BY <1>1, MovedKeeps DEF Moved
    <3> HIDE DEF e
    <3> QED BY <3>1, <3>2, <3>3
  <2>2. Laid(s.tree, Here(s), FALSE, at, e)
    BY <1>1 DEF Offsets, OffsetsUpTo
  <2>3. OffsetsUpTo(m, FALSE, m.cur - 1 - Slack(m.set))
    <3> HIDE DEF e, at, later
    <3>1. Laid(m.tree, Here(s), FALSE, later, e)
      BY <2>1, <2>2, LaidLater
    <3> QED BY <2>1, <3>1 DEF OffsetsUpTo, e, later
  <2> HIDE DEF e, at, later
  <2>4. Lower(m, v)
    BY <1>2, <2>3, Descends
  <2> QED BY <2>4 DEF Lower
<1>4. /\ u \in Reader /\ u.doc = v.doc /\ u.set = v.set /\ u.cur = v.cur /\ u.tree = v.tree
      /\ u.nodes = v.nodes /\ u.last = v.last /\ u.pc = "value" /\ u.errors = v.errors
  <2>1. v \in Reader
    BY <1>3 DEF Within
  <2> QED BY <1>3, <2>1 DEF Reader
<1>5. Within(u) /\ Placed(u, TRUE) /\ Offsets(u, TRUE)
  BY <1>3, <1>4 DEF Within, Placed, LastIsNear, Offsets, OffsetsUpTo, Here
<1>6. Good(u) /\ Calls(u) = Len(u.nodes) - 1
  BY <1>1, <1>3, <1>4, <1>5, ValueGood
<1>7. Calls(u) <= Calls(s) /\ Len(u.nodes) <= Calls(u) + 1
  BY <1>1, <1>2, <1>3, <1>4, <1>6
<1>8. Kept(r, u)
  BY <1>6, <1>7, StayKept
<1> QED BY <1>8

LEMMA PcMoved ==
    ASSUME NEW s, NEW m, Moved(s, m), NEW pc \in Pcs, NEW u, u = [m EXCEPT !.pc = pc]
    PROVE  Moved(s, u) /\ u.errors = m.errors /\ u.pc = pc
<1>1. m \in Reader
  BY DEF Moved, Within
<1>2. /\ u \in Reader /\ u.pc = pc /\ u.doc = m.doc /\ u.set = m.set /\ u.cur = m.cur
      /\ u.tree = m.tree /\ u.nodes = m.nodes /\ u.last = m.last /\ u.errors = m.errors
  BY <1>1 DEF Reader
<1> QED BY <1>2 DEF Moved, Within

MovedFrom(s, m, u) == Moved(s, u) /\ u.errors = m.errors /\ u.pc = m.pc

\* The name or the index in the topmost frame changes.
LEMMA FrameMoved ==
    ASSUME NEW s, NEW m, Moved(s, m), m.nodes # << >>, NEW i, i = Len(m.nodes), NEW f, f = m.nodes[i],
           NEW g, \/ \E x \in Text : g = [f EXCEPT !.name = x]
                  \/ \E n \in Nat : g = [f EXCEPT !.index = n],
           NEW nodes, nodes = [m.nodes EXCEPT ![i] = g],
           NEW u, u = [m EXCEPT !.nodes = nodes]
    PROVE  MovedFrom(s, m, u)
<1>1. m \in Reader /\ m.nodes \in Seq(Frame) /\ Within(m)
  BY WithinFacts DEF Moved, Within
<1>2. i \in 1 .. Len(m.nodes) /\ f \in Frame /\ Len(m.nodes) \in Nat
  BY <1>1
<1>3. g \in Frame /\ g.path = f.path
  BY <1>2 DEF Frame
<1>4. /\ nodes \in Seq(Frame) /\ Len(nodes) = Len(m.nodes)
      /\ \A j \in 1 .. Len(m.nodes) : nodes[j] = IF j = i THEN g ELSE m.nodes[j]
  BY <1>1, <1>2, <1>3
<1>5. \A j \in 1 .. Len(m.nodes) : nodes[j].path = m.nodes[j].path
  BY <1>3, <1>4
<1>6. /\ u \in Reader /\ u.pc = m.pc /\ u.doc = m.doc /\ u.set = m.set /\ u.cur = m.cur
      /\ u.tree = m.tree /\ u.nodes = nodes /\ u.last = m.last /\ u.errors = m.errors
  BY <1>1, <1>4 DEF Reader
<1>7. Within(u)
  BY <1>1, <1>6 DEF Within
<1> QED BY <1>4, <1>5, <1>6, <1>7 DEF Moved, MovedFrom

LEMMA ReadObjectKeeps ==
    ASSUME NEW r \in Readers, Good(rd[r]), stack_depth_g \in Int, read_object(r)
    PROVE  \E u : Kept(r, u)
<1> DEFINE s == rd[r]
           t == Token(s.doc, s.cur)
           m == Take(s, t)
           x == IF IsName(s, t) THEN NameOf(t.lexeme) ELSE ""
           named == [m EXCEPT !.nodes[Len(m.nodes)].name = x]
<1>1. /\ s.pc = "member"
      /\ \/ rd' = [rd EXCEPT ![r] = m] /\ stack_depth_g' = stack_depth_g - 0
         \/ /\ t.type # "end" /\ rd' = [rd EXCEPT ![r] = CloseContainer(m, TRUE)]
            /\ stack_depth_g' = stack_depth_g - 1
         \/ /\ rd' = [rd EXCEPT ![r] = FailContainer(named, t, "}")]
            /\ stack_depth_g' = stack_depth_g - 0
         \/ /\ rd' = [rd EXCEPT ![r] = [named EXCEPT !.pc = "colon"]]
            /\ stack_depth_g' = stack_depth_g - 0
  <2>1. s.pc = "member"
    BY DEF read_object
  <2> HIDE DEF s, t, m, x, named
  <2>2. CASE t.type = "comment"
    <3>1. ~EndsObject(s, t) /\ ~IsName(s, t)
      BY <2>2 DEF EndsObject, IsName
    <3>2. rd' = [rd EXCEPT ![r] = m]
      BY <2>2, <3>1 DEF read_object, s, t, m
    <3>3. stack_depth_g' = stack_depth_g - 0
      BY <3>1 DEF read_object, s, t
    <3> QED BY <2>1, <3>2, <3>3
  <2>3. CASE EndsObject(s, t)
    <3>1. t.type # "comment" /\ t.type # "end" /\ ~IsName(s, t)
      BY <2>3 DEF EndsObject, IsName
    <3>2. rd' = [rd EXCEPT ![r] = CloseContainer(m, TRUE)]
      BY <2>3, <3>1 DEF read_object, s, t, m
    <3>3. stack_depth_g' = stack_depth_g - 1
      BY <2>3 DEF read_object, s, t
    <3> QED BY <2>1, <3>1, <3>2, <3>3
  <2>4. CASE t.type # "comment" /\ ~EndsObject(s, t)
    <3>1. IsName(s, t) => t.type # "comment"
      BY DEF IsName
    <3>2. rd' = [rd EXCEPT ![r] = FailContainer(named, t, "}")] \/
          rd' = [rd EXCEPT ![r] = [named EXCEPT !.pc = "colon"]]
      BY <2>4, <3>1 DEF read_object, s, t, m, x, named
    <3>3. stack_depth_g' = stack_depth_g - 0
      BY <2>4 DEF read_object, s, t
    <3> QED BY <2>1, <3>2, <3>3
  <2> QED BY <2>2, <2>3, <2>4
<1>2. s = rd[r] /\ t = Token(s.doc, s.cur) /\ m = Take(s, t) /\ s.pc \in Inside
  BY <1>1 DEF Inside
<1>3. Good(s)
  OBVIOUS
<1> HIDE DEF s, t, m
<1>4. Within(s) /\ Placed(s, FALSE)
  BY <1>2, <1>3, InsideFacts
<1>5. /\ Moved(s, m) /\ m.cur = t.end /\ IsToken(s.doc, s.cur, t) /\ m.nodes = s.nodes
      /\ m.pc = s.pc /\ m.errors = s.errors
  BY <1>2, <1>4, TakeMoves
<1>6. x \in Text
  <2>1. t.lexeme \in Text /\ "a" \in Text /\ "1" \in Text /\ "" \in Text
    BY <1>5 DEF IsToken, Text
  <2>2. NameOf(t.lexeme) \in Text
    BY <2>1 DEF NameOf, KindOf
  <2> QED BY <2>1, <2>2
<1> HIDE DEF x
<1>7. Moved(s, named) /\ named.errors = s.errors
  <2> DEFINE i == Len(m.nodes)
             f == m.nodes[i]
             g == [f EXCEPT !.name = x]
             nodes == [m.nodes EXCEPT ![i] = g]
  <2>1. named = [m EXCEPT !.nodes = nodes]
    OBVIOUS
  <2>2. m.nodes # << >>
    BY <1>4, <1>5 DEF Placed
  <2>3. \E y \in Text : g = [f EXCEPT !.name = y]
    BY <1>6
  <2>4. i = Len(m.nodes) /\ f = m.nodes[i] /\ nodes = [m.nodes EXCEPT ![i] = g]
    OBVIOUS
  <2> HIDE DEF named, i, f, g, nodes
  <2>5. MovedFrom(s, m, named)
    BY <1>5, <2>1, <2>2, <2>3, <2>4, FrameMoved
  <2> QED BY <1>5, <2>5 DEF MovedFrom
<1> HIDE DEF named
<1>8. CASE rd' = [rd EXCEPT ![r] = m] /\ stack_depth_g' = stack_depth_g - 0
  BY <1>2, <1>3, <1>5, <1>8, MoveKept
<1>9. CASE /\ t.type # "end" /\ rd' = [rd EXCEPT ![r] = CloseContainer(m, TRUE)]
           /\ stack_depth_g' = stack_depth_g - 1
  BY <1>2, <1>3, <1>9, CloseKept
<1>10. CASE rd' = [rd EXCEPT ![r] = FailContainer(named, t, "}")] /\ stack_depth_g' = stack_depth_g - 0
  <2> DEFINE until == "}"
             u == FailContainer(named, t, until)
  <2>1. until \in {"}", "]"}
    OBVIOUS
  <2>2. u = FailContainer(named, t, until) /\ rd' = [rd EXCEPT ![r] = u]
    BY <1>10
  <2>3. s = rd[r] /\ Good(s) /\ s.pc \in Inside /\ IsToken(s.doc, s.cur, t) /\ Moved(s, named)
        /\ stack_depth_g' = stack_depth_g - 0
    BY <1>2, <1>3, <1>5, <1>7, <1>10
  <2> HIDE DEF until, u
  <2> QED BY <2>1, <2>2, <2>3, FailKept
<1>11. CASE rd' = [rd EXCEPT ![r] = [named EXCEPT !.pc = "colon"]] /\ stack_depth_g' = stack_depth_g - 0
  <2> DEFINE u == [named EXCEPT !.pc = "colon"]
  <2>1. u = [named EXCEPT !.pc = "colon"] /\ "colon" \in Pcs
    BY DEF Pcs
  <2>2. rd' = [rd EXCEPT ![r] = u]
    BY <1>11
  <2> HIDE DEF u
  <2>3. Moved(s, u) /\ u.errors = s.errors /\ u.pc = "colon"
    BY <1>7, <2>1, PcMoved
  <2>4. u.pc \in Inside
    BY <2>3 DEF Inside
  <2> QED BY <1>2, <1>3, <1>11, <2>2, <2>3, <2>4, MoveKept
<1> QED BY <1>1, <1>8, <1>9, <1>10, <1>11

LEMMA ReadColonKeeps ==
    ASSUME NEW r \in Readers, Good(rd[r]), stack_depth_g \in Int, ReadColon(r)
    PROVE  \E u : Kept(r, u)
<1> DEFINE s == rd[r]
           t == Token(s.doc, s.cur)
           m == Take(s, t)
           name == Last(s.nodes).name
           v == Descend(m, name)
           d == v.dup \/ Append(Here(s), name) \in DOMAIN s.tree
           until == "}"
<1>1. /\ s.pc = "colon" /\ stack_depth_g' = stack_depth_g
      /\ \/ t.type = ":" /\ rd' = [rd EXCEPT ![r] = [v EXCEPT !.dup = d]]
         \/ rd' = [rd EXCEPT ![r] = FailContainer(m, t, until)]
  BY DEF ReadColon
<1>2. /\ s = rd[r] /\ t = Token(s.doc, s.cur) /\ m = Take(s, t) /\ v = Descend(m, name)
      /\ s.pc \in Inside /\ d \in BOOLEAN /\ until \in {"}", "]"}
  BY <1>1 DEF Inside
<1>3. Good(s)
  OBVIOUS
<1> HIDE DEF s, t, m, v, d, until
<1>4. Within(s) /\ Placed(s, FALSE)
  BY <1>2, <1>3, InsideFacts
<1>5. Moved(s, m) /\ IsToken(s.doc, s.cur, t) /\ m.errors = s.errors /\ m.cur = t.end
  <2>1. Within(s) /\ t = Token(s.doc, s.cur) /\ m = Take(s, t)
    BY <1>2, <1>4
  <2> QED BY <2>1, TakeMoves
<1>6. name \in Text
  <2>1. s.nodes \in Seq(Frame) /\ Len(s.nodes) \in Nat \ {0}
    BY <1>4, PlacedFacts
  <2>2. s.nodes[Len(s.nodes)] \in Frame
    BY <2>1
  <2> QED BY <2>2 DEF Last, Frame
<1> HIDE DEF name
<1>7. CASE t.type = ":" /\ rd' = [rd EXCEPT ![r] = [v EXCEPT !.dup = d]]
  <2> DEFINE u == [v EXCEPT !.dup = d]
  <2>1. u = v \/ u = [v EXCEPT !.dup = d]
    OBVIOUS
  <2>2. rd' = [rd EXCEPT ![r] = u] /\ stack_depth_g' = stack_depth_g
    BY <1>1, <1>7
  <2> HIDE DEF u
  <2>3. /\ s = rd[r] /\ Good(s) /\ s.pc \in Inside /\ Moved(s, m) /\ m.errors = s.errors
        /\ v = Descend(m, name) /\ s.cur < m.cur
    <3>1. s.cur < m.cur
      BY <1>4, <1>5, <1>7, WithinFacts DEF IsToken
    <3> QED BY <1>2, <1>3, <1>5, <3>1
  <2>4. name \in Text /\ d \in BOOLEAN
    BY <1>2, <1>6
  <2> QED BY <2>1, <2>2, <2>3, <2>4, DescendKept
<1>8. CASE rd' = [rd EXCEPT ![r] = FailContainer(m, t, until)]
  <2> DEFINE u == FailContainer(m, t, until)
  <2>1. u = FailContainer(m, t, until) /\ rd' = [rd EXCEPT ![r] = u] /\ stack_depth_g' = stack_depth_g
    BY <1>1, <1>8
  <2> HIDE DEF u
  <2> QED BY <1>2, <1>3, <1>5, <2>1, FailKept
<1> QED BY <1>1, <1>7, <1>8

LEMMA ReadCommaKeeps ==
    ASSUME NEW r \in Readers, Good(rd[r]), stack_depth_g \in Int, ReadComma(r)
    PROVE  \E u : Kept(r, u)
<1> DEFINE s == rd[r]
           t == Token(s.doc, s.cur)
           m == Take(s, t)
           until == "}"
<1>1. s.pc \in {"comma", "comma after comment"}
  BY DEF ReadComma
<1>2. /\ s = rd[r] /\ t = Token(s.doc, s.cur) /\ m = Take(s, t)
      /\ s.pc \in Inside /\ until \in {"}", "]"}
  BY <1>1 DEF Inside
<1>3. Good(s)
  OBVIOUS
<1> HIDE DEF s, t, m, until
<1>4. \/ /\ t.type # "end" /\ rd' = [rd EXCEPT ![r] = CloseContainer(m, TRUE)]
         /\ stack_depth_g' = stack_depth_g - 1
      \/ /\ rd' = [rd EXCEPT ![r] = FailContainer(m, t, until)]
         /\ stack_depth_g' = stack_depth_g - 0
      \/ /\ \E pc : pc \in Pcs /\ pc \in Inside /\ rd' = [rd EXCEPT ![r] = [m EXCEPT !.pc = pc]]
         /\ stack_depth_g' = stack_depth_g - 0
  <2>1. CASE t.type = "}"
    <3>1. rd' = [rd EXCEPT ![r] = CloseContainer(m, TRUE)]
      BY <2>1 DEF ReadComma, s, t, m
    <3>2. stack_depth_g' = stack_depth_g - 1
      BY <2>1 DEF ReadComma, s, t
    <3> QED BY <2>1, <3>1, <3>2
  <2>2. CASE t.type # "}"
    <3>1. stack_depth_g' = stack_depth_g - 0
      BY <2>2 DEF ReadComma, s, t
    <3>2. \/ rd' = [rd EXCEPT ![r] = FailContainer(m, t, until)]
          \/ rd' = [rd EXCEPT ![r] = [m EXCEPT !.pc = "comma after comment"]]
          \/ rd' = [rd EXCEPT ![r] = [m EXCEPT !.pc = "member"]]
      BY <2>2 DEF ReadComma, s, t, m, until
    <3>3. /\ "member" \in Pcs /\ "member" \in Inside
          /\ "comma after comment" \in Pcs /\ "comma after comment" \in Inside
      BY DEF Pcs, Inside
    <3> QED BY <3>1, <3>2, <3>3
  <2> QED BY <2>1, <2>2
<1>5. Within(s) /\ Placed(s, FALSE)
  BY <1>2, <1>3, InsideFacts
<1>6. Moved(s, m) /\ IsToken(s.doc, s.cur, t) /\ m.errors = s.errors
  <2>1. Within(s) /\ t = Token(s.doc, s.cur) /\ m = Take(s, t)
    BY <1>2, <1>5
  <2> QED BY <2>1, TakeMoves
<1>7. CASE /\ t.type # "end" /\ rd' = [rd EXCEPT ![r] = CloseContainer(m, TRUE)]
           /\ stack_depth_g' = stack_depth_g - 1
  BY <1>2, <1>3, <1>7, CloseKept
<1>8. CASE rd' = [rd EXCEPT ![r] = FailContainer(m, t, until)] /\ stack_depth_g' = stack_depth_g - 0
  <2> DEFINE u == FailContainer(m, t, until)
  <2>1. u = FailContainer(m, t, until) /\ rd' = [rd EXCEPT ![r] = u] /\ stack_depth_g' = stack_depth_g - 0
    BY <1>8
  <2> HIDE DEF u
  <2> QED BY <1>2, <1>3, <1>6, <2>1, FailKept
<1>9. ASSUME NEW pc, pc \in Pcs, pc \in Inside, rd' = [rd EXCEPT ![r] = [m EXCEPT !.pc = pc]],
             stack_depth_g' = stack_depth_g - 0
      PROVE  \E u : Kept(r, u)
  <2> DEFINE u == [m EXCEPT !.pc = pc]
  <2>1. u = [m EXCEPT !.pc = pc] /\ pc \in Pcs /\ pc \in Inside
    BY <1>9
  <2>2. rd' = [rd EXCEPT ![r] = u] /\ stack_depth_g' = stack_depth_g - 0
    BY <1>9
  <2> HIDE DEF u
  <2>3. Moved(s, u) /\ u.errors = s.errors /\ u.pc \in Inside
    BY <1>6, <2>1, PcMoved
  <2> QED BY <1>2, <1>3, <2>2, <2>3, MoveKept
<1> QED BY <1>4, <1>7, <1>8, <1>9

LEMMA ReadArrayKeeps ==
    ASSUME NEW r \in Readers, Good(rd[r]), stack_depth_g \in Int, read_array(r)
    PROVE  \E u : Kept(r, u)
<1> DEFINE s == rd[r]
           t == Token(s.doc, s.cur)
           m == Take(s, t)
           next == Last(m.nodes).index + 1
           x == [m EXCEPT !.nodes[Len(m.nodes)].index = next]
           until == "]"
<1>1. s.pc = "separator"
  BY DEF read_array
<1>2. /\ s = rd[r] /\ t = Token(s.doc, s.cur) /\ m = Take(s, t)
      /\ s.pc \in Inside /\ until \in {"}", "]"}
  BY <1>1 DEF Inside
<1>3. Good(s)
  OBVIOUS
<1> HIDE DEF s, t, m, x, next, until
<1>4. \/ /\ t.type # "end" /\ rd' = [rd EXCEPT ![r] = CloseContainer(m, TRUE)]
         /\ stack_depth_g' = stack_depth_g - 1
      \/ rd' = [rd EXCEPT ![r] = m] /\ stack_depth_g' = stack_depth_g - 0
      \/ /\ t.type = "," /\ rd' = [rd EXCEPT ![r] = Descend(x, ToString(next))]
         /\ stack_depth_g' = stack_depth_g - 0
      \/ rd' = [rd EXCEPT ![r] = FailContainer(m, t, until)] /\ stack_depth_g' = stack_depth_g - 0
  <2>1. CASE t.type = "]"
    <3>1. rd' = [rd EXCEPT ![r] = CloseContainer(m, TRUE)]
      BY <2>1 DEF read_array, s, t, m
    <3>2. stack_depth_g' = stack_depth_g - 1
      BY <2>1 DEF read_array, s, t
    <3> QED BY <2>1, <3>1, <3>2
  <2>2. CASE t.type # "]"
    <3>1. stack_depth_g' = stack_depth_g - 0
      BY <2>2 DEF read_array, s, t
    <3>2. \/ rd' = [rd EXCEPT ![r] = m]
          \/ t.type = "," /\ rd' = [rd EXCEPT ![r] = Descend(x, ToString(next))]
          \/ rd' = [rd EXCEPT ![r] = FailContainer(m, t, until)]
      BY <2>2 DEF read_array, s, t, m, x, next, until
    <3> QED BY <3>1, <3>2
  <2> QED BY <2>1, <2>2
<1>5. Within(s) /\ Placed(s, FALSE)
  BY <1>2, <1>3, InsideFacts
<1>6. /\ Moved(s, m) /\ IsToken(s.doc, s.cur, t) /\ m.errors = s.errors /\ m.pc = s.pc
      /\ m.nodes = s.nodes /\ m.cur = t.end
  <2>1. Within(s) /\ t = Token(s.doc, s.cur) /\ m = Take(s, t)
    BY <1>2, <1>5
  <2> QED BY <2>1, TakeMoves
<1>7. next \in Nat /\ ToString(next) \in Text
  <2>1. m.nodes \in Seq(Frame) /\ Len(m.nodes) \in Nat \ {0}
    BY <1>5, <1>6, PlacedFacts
  <2>2. m.nodes[Len(m.nodes)] \in Frame
    BY <2>1
  <2>3. m.nodes[Len(m.nodes)].index \in Nat
    BY <2>2 DEF Frame
  <2>4. next \in Nat
    BY <2>3 DEF next, Last
  <2> QED BY <2>4 DEF Text
<1>8. Moved(s, x) /\ x.errors = s.errors /\ x.cur = m.cur
  <2> DEFINE i == Len(m.nodes)
             f == m.nodes[i]
             g == [f EXCEPT !.index = next]
             nodes == [m.nodes EXCEPT ![i] = g]
  <2>1. x = [m EXCEPT !.nodes = nodes]
    BY DEF x
  <2>2. m.nodes # << >>
    BY <1>5, <1>6 DEF Placed
  <2>3. \E n \in Nat : g = [f EXCEPT !.index = n]
    BY <1>7
  <2>4. i = Len(m.nodes) /\ f = m.nodes[i] /\ nodes = [m.nodes EXCEPT ![i] = g]
    OBVIOUS
  <2> HIDE DEF i, f, g, nodes
  <2>5. MovedFrom(s, m, x)
    BY <1>6, <2>1, <2>2, <2>3, <2>4, FrameMoved
  <2>6. x.cur = m.cur
    <3>1. m \in Reader
      BY <1>6 DEF Moved, Within
    <3> QED BY <2>1, <3>1 DEF Reader
  <2> QED BY <1>6, <2>5, <2>6 DEF MovedFrom
<1>9. CASE /\ t.type # "end" /\ rd' = [rd EXCEPT ![r] = CloseContainer(m, TRUE)]
           /\ stack_depth_g' = stack_depth_g - 1
  BY <1>2, <1>3, <1>9, CloseKept
<1>10. CASE rd' = [rd EXCEPT ![r] = m] /\ stack_depth_g' = stack_depth_g - 0
  BY <1>2, <1>3, <1>6, <1>10, MoveKept
<1>11. CASE /\ t.type = "," /\ rd' = [rd EXCEPT ![r] = Descend(x, ToString(next))]
            /\ stack_depth_g' = stack_depth_g - 0
  <2> DEFINE k == ToString(next)
             u == Descend(x, k)
             d == TRUE
  <2>1. /\ u = Descend(x, k) /\ rd' = [rd EXCEPT ![r] = u] /\ stack_depth_g' = stack_depth_g - 0
        /\ k \in Text /\ d \in BOOLEAN
    BY <1>7, <1>11
  <2> HIDE DEF u, k, d
  <2>2. s.cur < x.cur
    <3>1. s.cur < t.end
      <4>1. t.type # "end" /\ IsToken(s.doc, s.cur, t) /\ s.cur \in Int /\ Len(s.doc) \in Nat
        BY <1>5, <1>6, <1>11, WithinFacts
      <4> QED BY <4>1 DEF IsToken
    <3> QED BY <1>6, <1>8, <3>1
  <2> QED BY <1>2, <1>3, <1>8, <2>1, <2>2, DescendKept
<1>12. CASE rd' = [rd EXCEPT ![r] = FailContainer(m, t, until)] /\ stack_depth_g' = stack_depth_g - 0
  <2> DEFINE u == FailContainer(m, t, until)
  <2>1. u = FailContainer(m, t, until) /\ rd' = [rd EXCEPT ![r] = u] /\ stack_depth_g' = stack_depth_g - 0
    BY <1>12
  <2> HIDE DEF u
  <2> QED BY <1>2, <1>3, <1>6, <2>1, FailKept
<1> QED BY <1>4, <1>9, <1>10, <1>11, <1>12

LEMMA RecoverKeeps ==
    ASSUME NEW r \in Readers, Good(rd[r]), stack_depth_g \in Int, recover_from_error(r)
    PROVE  \E u : Kept(r, u)
<1> DEFINE s == rd[r]
           t == Token(s.doc, s.cur)
           m == Take(s, t)
           u == CloseContainer(m, FALSE)
<1>1. s.pc = "recover"
  BY DEF recover_from_error
<1>2. s = rd[r] /\ t = Token(s.doc, s.cur) /\ m = Take(s, t) /\ u = CloseContainer(m, FALSE)
  OBVIOUS
<1>3. Good(s)
  OBVIOUS
<1> HIDE DEF s, t, m, u
<1>4. \/ rd' = [rd EXCEPT ![r] = u] /\ stack_depth_g' = stack_depth_g - 1
      \/ rd' = [rd EXCEPT ![r] = m] /\ stack_depth_g' = stack_depth_g - 0
  <2>1. CASE Recovered(s, t)
    <3>1. rd' = [rd EXCEPT ![r] = u]
      BY <2>1 DEF recover_from_error, s, t, m, u
    <3>2. stack_depth_g' = stack_depth_g - 1
      BY <2>1 DEF recover_from_error, s, t
    <3> QED BY <3>1, <3>2
  <2>2. CASE ~Recovered(s, t)
    <3>1. rd' = [rd EXCEPT ![r] = m]
      BY <2>2 DEF recover_from_error, s, t, m
    <3>2. stack_depth_g' = stack_depth_g - 0
      BY <2>2 DEF recover_from_error, s, t
    <3> QED BY <3>1, <3>2
  <2> QED BY <2>1, <2>2
<1>5. Within(s) /\ Placed(s, FALSE) /\ s.errors # << >>
  BY <1>1, <1>3 DEF Good
<1>6. Moved(s, m) /\ m.errors = s.errors /\ m.pc = s.pc
  BY <1>2, <1>5, TakeMoves
<1>7. CASE rd' = [rd EXCEPT ![r] = u] /\ stack_depth_g' = stack_depth_g - 1
  <2>1. Good(u) /\ Calls(u) + 1 <= Len(s.nodes) /\ Len(u.nodes) <= Len(s.nodes)
    BY <1>2, <1>5, <1>6, ClosesGood
  <2>2. Kept(r, u)
    BY <1>1, <1>2, <1>3, <1>7, <2>1, ReturnKept
  <2> QED BY <2>2
<1>8. CASE rd' = [rd EXCEPT ![r] = m] /\ stack_depth_g' = stack_depth_g - 0
  BY <1>1, <1>2, <1>3, <1>6, <1>8, MoveKept
<1> QED BY <1>4, <1>7, <1>8
-----------------------------------------------------------------------------
\* The beginning and the end of parse()

LEMMA DoneGood ==
    ASSUME NEW u, Within(u), u.pc = "done", u.ok <=> u.errors = << >>,
           u.ok => Nested(u.tree, Slack(u.set))
    PROVE  Good(u) /\ Calls(u) = 0
BY DEF Good, Before, Inside, Calls

LEMMA RestGood ==
    ASSUME NEW u, Within(u), u.pc \in {"pushed", "thrown"}
    PROVE  Good(u) /\ Calls(u) = 0
BY DEF Good, Before, Inside, Calls

LEMMA EndParseKeeps ==
    ASSUME NEW r \in Readers, Good(rd[r]), stack_depth_g \in Int, EndParse(r)
    PROVE  \E u : Kept(r, u)
<1> DEFINE s == rd[r]
           t == Token(s.doc, s.cur)
           m == Take(s, t)
           c == set_comment(m.tree, << >>, m.before, "after")
           v == IF m.set.collect /\ m.before # << >> THEN [m EXCEPT !.tree = c] ELSE m
           whole == [start |-> 1, end |-> Len(v.doc) + 1]
<1>1. /\ s.pc = "end" /\ stack_depth_g' = stack_depth_g
      /\ \/ rd' = [rd EXCEPT ![r] = [add_error(v, whole) EXCEPT !.ok = FALSE, !.pc = "done"]]
         \/ rd' = [rd EXCEPT ![r] = [v EXCEPT !.pc = "done"]]
  BY DEF EndParse
<1>2. Good(s) /\ s = rd[r] /\ t = Token(s.doc, s.cur) /\ m = Take(s, t)
  OBVIOUS
<1> HIDE DEF s, t, m
<1>3. Within(s) /\ Len(s.nodes) \in Nat /\ Calls(s) \in Int /\ Calls(s) = 0
  <2>1. Within(s) /\ Len(s.nodes) \in Nat /\ Calls(s) \in Int
    BY <1>2, GoodFacts
  <2>2. Calls(s) = 0
    BY <1>1 DEF Calls, Inside
  <2> QED BY <2>1, <2>2
<1>4. Moved(s, m) /\ m.nodes = s.nodes /\ m.errors = s.errors /\ m.ok = s.ok
  BY <1>2, <1>3, TakeMoves
<1>5. /\ Within(v) /\ v.nodes = s.nodes /\ v.errors = s.errors /\ v.ok = s.ok
      /\ v.set = s.set /\ SameOffsets(s.tree, v.tree)
  <2>1. Within(m) /\ m \in Reader /\ m.tree \in Trees /\ m.before \in Lexemes
        /\ SameOffsets(s.tree, m.tree) /\ m.set = s.set
    BY <1>4, WithinFacts DEF Moved, Within
  <2>2. CASE v = m
    BY <1>4, <2>1, <2>2
  <2>3. CASE v = [m EXCEPT !.tree = c]
    <3>1. c \in Trees /\ SameOffsets(m.tree, c)
      BY <2>1, CommentFacts
    <3> HIDE DEF c, v
    <3>2. /\ v \in Reader /\ v.doc = m.doc /\ v.set = m.set /\ v.cur = m.cur /\ v.tree = c
          /\ v.nodes = m.nodes /\ v.last = m.last /\ v.errors = m.errors /\ v.ok = m.ok
      BY <2>1, <2>3, <3>1 DEF Reader
    <3> QED BY <1>4, <2>1, <3>1, <3>2 DEF Within, SameOffsets
  <2> HIDE DEF c
  <2> QED BY <2>2, <2>3
<1> HIDE DEF v
<1>6. /\ s.ok <=> s.errors = << >>
      /\ s.ok => Nested(v.tree, Slack(v.set))
  BY <1>1, <1>2, <1>5 DEF Good, SameOffsets, Nested
<1>7. \E u : rd' = [rd EXCEPT ![r] = u] /\ Good(u) /\ Calls(u) = 0 /\ u.nodes = s.nodes
  <2>1. CASE rd' = [rd EXCEPT ![r] = [v EXCEPT !.pc = "done"]]
    <3> DEFINE u == [v EXCEPT !.pc = "done"]
    <3>1. rd' = [rd EXCEPT ![r] = u]
      BY <2>1
    <3>2. /\ u \in Reader /\ u.doc = v.doc /\ u.set = v.set /\ u.cur = v.cur /\ u.tree = v.tree
          /\ u.nodes = v.nodes /\ u.last = v.last /\ u.errors = v.errors /\ u.ok = v.ok
          /\ u.pc = "done"
      <4>1. v \in Reader
        BY <1>5 DEF Within
      <4> QED BY <4>1 DEF Reader, Pcs
    <3> HIDE DEF u
    <3>3. Within(u)
      BY <1>5, <3>2 DEF Within
    <3>4. Good(u) /\ Calls(u) = 0
      BY <1>5, <1>6, <3>2, <3>3, DoneGood
    <3> QED BY <1>5, <3>1, <3>2, <3>4
  <2>2. CASE rd' = [rd EXCEPT ![r] = [add_error(v, whole) EXCEPT !.ok = FALSE, !.pc = "done"]]
    <3> DEFINE x == <<1 - 1, Len(v.doc) + 1 - 1>>
               errors == Append(v.errors, x)
               u == [v EXCEPT !.errors = errors, !.ok = FALSE, !.pc = "done"]
    <3>1. v \in Reader /\ v.errors \in Seq(Nat \X Nat) /\ Len(v.doc) \in Nat
      BY <1>5, WithinFacts DEF Within, Reader
    <3>2. rd' = [rd EXCEPT ![r] = u]
      BY <2>2 DEF add_error
    <3>3. x \in Nat \X Nat
      BY <3>1
    <3> HIDE DEF x
    <3>4. errors \in Seq(Nat \X Nat) /\ errors # << >>
      BY <3>1, <3>3, MoreErrors
    <3> HIDE DEF errors
    <3>5. /\ u \in Reader /\ u.doc = v.doc /\ u.set = v.set /\ u.cur = v.cur /\ u.tree = v.tree
          /\ u.nodes = v.nodes /\ u.last = v.last /\ u.errors = errors /\ u.ok = FALSE
          /\ u.pc = "done"
      BY <3>1, <3>4 DEF Reader, Pcs
    <3> HIDE DEF u
    <3>6. Within(u)
      BY <1>5, <3>5 DEF Within
    <3>7. (u.ok <=> u.errors = << >>) /\ (u.ok => Nested(u.tree, Slack(u.set)))
      BY <3>4, <3>5
    <3>8. Good(u) /\ Calls(u) = 0
      BY <3>5, <3>6, <3>7, DoneGood
    <3> QED BY <1>5, <3>2, <3>5, <3>8
  <2> QED BY <1>1, <2>1, <2>2
<1>8. PICK u : rd' = [rd EXCEPT ![r] = u] /\ Good(u) /\ Calls(u) = 0 /\ u.nodes = s.nodes
  BY <1>7
<1>9. Calls(u) <= Calls(s) /\ Len(u.nodes) <= Len(s.nodes)
  BY <1>3, <1>8
<1>10. Kept(r, u)
  BY <1>1, <1>2, <1>8, <1>9, StayKept
<1> QED BY <1>10

LEMMA PushErrorKeeps ==
    ASSUME NEW r \in Readers, rd = [q \in Readers |-> rd[q]], Good(rd[r]), stack_depth_g \in Int,
           PushError(r)
    PROVE  \E u : Kept(r, u)
<1> DEFINE s == rd[r]
<1>1. Within(s) /\ Len(s.nodes) \in Nat /\ Calls(s) \in Int
  BY GoodFacts
<1>2. Len(s.doc) \in Nat /\ s.errors \in Seq(Nat \X Nat) /\ s \in Reader
  BY <1>1, WithinFacts DEF Within, Reader
<1>3. s.pc = "done" /\ stack_depth_g' = stack_depth_g
  BY DEF PushError, push_error, PushErrorExtra
<1>4. PICK x \in Nat \X Nat :
        rd' = [rd EXCEPT ![r].errors = Append(@, x), ![r].pc = "pushed"]
  <2>1. PICK p \in DOMAIN s.tree : push_error(r, p) \/ \E q \in DOMAIN s.tree : PushErrorExtra(r, p, q)
    BY DEF PushError
  <2>2. s.tree[p].start \in 0 .. Len(s.doc) /\ s.tree[p].limit \in 0 .. Len(s.doc)
    BY <2>1 DEF push_error, PushErrorExtra
  <2>3. /\ <<s.tree[p].start, Len(s.doc) + s.tree[p].limit>> \in Nat \X Nat
        /\ <<s.tree[p].start, s.tree[p].limit>> \in Nat \X Nat
    BY <1>2, <2>2
  <2> QED BY <2>1, <2>3 DEF push_error, PushErrorExtra
<1> DEFINE errors == Append(s.errors, x)
           u == [s EXCEPT !.errors = errors, !.pc = "pushed"]
<1>5. rd' = [rd EXCEPT ![r] = u]
  BY <1>4
<1>6. errors \in Seq(Nat \X Nat)
  BY <1>2, <1>4, MoreErrors
<1> HIDE DEF s, errors
<1>7. /\ u \in Reader /\ u.doc = s.doc /\ u.set = s.set /\ u.cur = s.cur /\ u.tree = s.tree
      /\ u.nodes = s.nodes /\ u.last = s.last /\ u.pc = "pushed"
  BY <1>2, <1>6 DEF Reader, Pcs
<1> HIDE DEF u
<1>8. Within(u)
  BY <1>1, <1>7 DEF Within
<1>9. Good(u) /\ Calls(u) = 0
  BY <1>7, <1>8, RestGood
<1>10. Calls(s) = 0
  BY <1>3 DEF Calls, Inside
<1>11. Calls(u) <= Calls(s) /\ Len(u.nodes) <= Len(s.nodes)
  BY <1>1, <1>7, <1>9, <1>10
<1>12. Kept(r, u)
  BY <1>3, <1>5, <1>9, <1>11, StayKept DEF s
<1> QED BY <1>12

LEMMA ReadValueKeeps ==
    ASSUME NEW r \in Readers, rd = [q \in Readers |-> rd[q]], Good(rd[r]), stack_depth_g \in Int,
           read_value(r)
    PROVE  \E u : /\ rd' = [rd EXCEPT ![r] = u] /\ Good(u) /\ u.nodes = rd[r].nodes
                  /\ \/ /\ stack_depth_g < StackLimit /\ stack_depth_g' = stack_depth_g + 1
                        /\ Calls(u) = Calls(rd[r]) + 1
                     \/ stack_depth_g' = stack_depth_g /\ Calls(u) = 0
<1> DEFINE s == rd[r]
<1>1. /\ Within(s) /\ Len(s.nodes) \in Nat /\ Calls(s) \in Int /\ s.pc = "value"
      /\ Calls(s) = Len(s.nodes) - 1
  BY GoodFacts DEF read_value
<1>2. Placed(s, TRUE) /\ Offsets(s, TRUE) /\ s.errors = << >>
  BY <1>1 DEF Good, Before
<1>3. ASSUME NEW pc \in Pcs, NEW u, u = [s EXCEPT !.pc = pc]
      PROVE  /\ u \in Reader /\ u.doc = s.doc /\ u.set = s.set /\ u.cur = s.cur /\ u.tree = s.tree
             /\ u.nodes = s.nodes /\ u.last = s.last /\ u.pc = pc /\ u.errors = s.errors
  <2>1. s \in Reader
    BY <1>1 DEF Within
  <2> QED BY <1>3, <2>1 DEF Reader
<1>4. CASE /\ stack_depth_g < StackLimit /\ stack_depth_g' = stack_depth_g + 1
           /\ rd' = [rd EXCEPT ![r].pc = "first"]
  <2> DEFINE u == [s EXCEPT !.pc = "first"]
  <2>1. rd' = [rd EXCEPT ![r] = u]
    BY <1>4
  <2>2. "first" \in Pcs /\ u = [s EXCEPT !.pc = "first"]
    BY DEF Pcs
  <2> HIDE DEF u, s
  <2>3. /\ u \in Reader /\ u.doc = s.doc /\ u.set = s.set /\ u.cur = s.cur /\ u.tree = s.tree
        /\ u.nodes = s.nodes /\ u.last = s.last /\ u.pc = "first" /\ u.errors = s.errors
    BY <1>3, <2>2
  <2>4. Within(u) /\ Placed(u, TRUE) /\ Offsets(u, TRUE)
    BY <1>1, <1>2, <2>3 DEF Within, Placed, LastIsNear, Offsets, OffsetsUpTo, Here
  <2>5. Good(u) /\ Calls(u) = Len(u.nodes)
    BY <1>2, <2>3, <2>4 DEF Good, Before, Inside, Calls
  <2>6. Calls(u) = Calls(s) + 1
    BY <1>1, <2>3, <2>5
  <2> QED BY <1>4, <2>1, <2>3, <2>5, <2>6 DEF s
<1>5. CASE rd' = [rd EXCEPT ![r].pc = "thrown"] /\ stack_depth_g' = stack_depth_g
  <2> DEFINE u == [s EXCEPT !.pc = "thrown"]
  <2>1. rd' = [rd EXCEPT ![r] = u]
    BY <1>5
  <2>2. "thrown" \in Pcs /\ u = [s EXCEPT !.pc = "thrown"]
    BY DEF Pcs
  <2> HIDE DEF u, s
  <2>3. /\ u \in Reader /\ u.doc = s.doc /\ u.set = s.set /\ u.cur = s.cur /\ u.tree = s.tree
        /\ u.nodes = s.nodes /\ u.last = s.last /\ u.pc = "thrown"
    BY <1>3, <2>2
  <2>4. Within(u)
    BY <1>1, <2>3 DEF Within
  <2>5. Good(u) /\ Calls(u) = 0
    BY <2>3, <2>4, RestGood
  <2> QED BY <1>5, <2>1, <2>3, <2>5 DEF s
<1> QED BY <1>4, <1>5 DEF read_value, MayEnter

LEMMA ParseKeeps ==
    ASSUME NEW r \in Readers, rd = [q \in Readers |-> rd[q]], Good(rd[r]), parse(r)
    PROVE  \E u : /\ rd' = [rd EXCEPT ![r] = u] /\ Good(u) /\ stack_depth_g' = 0
                  /\ Calls(u) = 0 /\ Len(u.nodes) = 1
<1> DEFINE s == rd[r]
           set == [s.set EXCEPT !.collect = s.set.collect /\ s.set.comments]
           f == [path |-> << >>, name |-> "", index |-> 0]
           nodes == <<f>>
           u == [s EXCEPT !.pc = "value", !.cur = 1, !.end = 0, !.before = << >>, !.errors = << >>,
                          !.set = set, !.nodes = nodes]
<1>1. Within(s) /\ s \in Reader /\ Len(s.doc) \in Nat /\ s.tree \in Trees
  BY WithinFacts DEF Good, Within
<1>2. s.pc = "idle" /\ stack_depth_g' = 0 /\ s.last = << >>
  BY DEF parse, Good
<1>3. rd' = [rd EXCEPT ![r] = u]
  BY <1>1 DEF parse, Reader, Settings
<1>4. set \in Settings
  <2>1. s.set \in Settings
    BY <1>1 DEF Reader
  <2> QED BY <2>1 DEF Settings
<1>5. f \in Frame
  <2>1. "" \in Text /\ << >> \in Path
    BY DEF Text, Path
  <2> QED BY <2>1 DEF Frame
<1>6. f.path = << >>
  OBVIOUS
<1> HIDE DEF set, f, s
<1>7. nodes \in Seq(Frame) /\ Len(nodes) = 1 /\ nodes[1] = f /\ nodes # << >>
  BY <1>5
<1> HIDE DEF nodes
<1>8. << >> \in Lexemes /\ << >> \in Seq(Nat \X Nat)
  BY DEF Lexemes
<1>9. /\ u \in Reader /\ u.doc = s.doc /\ u.set = set /\ u.cur = 1 /\ u.tree = s.tree
      /\ u.nodes = nodes /\ u.last = s.last /\ u.pc = "value" /\ u.errors = << >>
  BY <1>1, <1>4, <1>7, <1>8 DEF Reader, Pcs
<1> HIDE DEF u
<1>10. Within(u)
  <2>1. 1 \in 1 .. Len(s.doc) + 1
    BY <1>1
  <2> QED BY <1>1, <1>2, <1>9, <2>1 DEF Within
<1>11. Here(u) = << >> /\ u.nodes # << >>
  <2>1. u.nodes # << >>
    BY <1>7, <1>9
  <2> QED BY <1>6, <1>7, <1>9, <1>10, <2>1, HereFacts
<1>12. Placed(u, TRUE)
  <2>1. LastIsNear(u, TRUE)
    <3>1. ~IsStrictPrefix(<< >>, << >>)
      BY DEF IsStrictPrefix
    <3> QED BY <1>2, <1>9, <1>11, <3>1 DEF LastIsNear
  <2>2. StackIsPath(u.nodes, u.tree)
    <3>1. \A i \in 1 .. Len(u.nodes) : i = 1
      <4>1. Len(u.nodes) = 1
        BY <1>7, <1>9
      <4>2. \A i \in 1 .. 1 : i = 1
        OBVIOUS
      <4> QED BY <4>1, <4>2
    <3>2. << >> \in DOMAIN u.tree /\ Len(<< >>) = 0
      BY <1>10 DEF Within
    <3>3. \A i \in 1 .. Len(u.nodes) : u.nodes[i].path = << >>
      BY <1>6, <1>7, <1>9, <3>1
    <3> QED BY <3>1, <3>2, <3>3 DEF StackIsPath
  <2> QED BY <1>11, <2>1, <2>2 DEF Placed
<1>13. Offsets(u, TRUE)
  <2>1. \A p \in DOMAIN u.tree : IsPrefix(<< >>, p)
    <3>1. \A p \in DOMAIN u.tree : p \in Path
      BY <1>1, <1>9, TreeFacts
    <3> QED BY <3>1, PrefixFacts
  <2>2. \A p \in DOMAIN u.tree : Unread(<< >>, TRUE, p)
    BY <2>1 DEF Unread
  <2>3. Laid(u.tree, << >>, TRUE, u.cur - 1 - Slack(u.set), Slack(u.set))
    BY <2>2 DEF Laid, Open, Closed
  <2> QED BY <1>11, <2>3 DEF Offsets, OffsetsUpTo
<1>14. Good(u) /\ Calls(u) = Len(u.nodes) - 1
  BY <1>9, <1>10, <1>12, <1>13, ValueGood
<1>15. Len(u.nodes) = 1 /\ Calls(u) = 0
  <2>1. Len(u.nodes) = 1
    BY <1>7, <1>9
  <2> QED BY <1>14, <2>1
<1> QED BY <1>2, <1>3, <1>14, <1>15
-----------------------------------------------------------------------------
\* The invariants and the theorems

\* With several readers, stack_depth_g is only known to be an integer.
Sound ==
    /\ rd = [q \in Readers |-> rd[q]] /\ stack_depth_g \in Int
    /\ \A r \in Readers : Good(rd[r])

\* No two readers are in use at once: parse() of one sets stack_depth_g, which
\* all readers count in, back to zero.
OneReader == \A r, q \in Readers : r = q

\* The counter is at least the number of calls that are under way. It can be
\* more, for the default case of read_value() returns without counting down.
Deep ==
    /\ stack_depth_g \in 0 .. StackLimit
    /\ \A r \in Readers : Calls(rd[r]) <= stack_depth_g /\ Len(rd[r].nodes) <= StackLimit + 1

\* What a step of a reader does to the counter.
Counts(s, u) ==
    \/ Counted(s, u)
    \/ /\ stack_depth_g < StackLimit /\ stack_depth_g' = stack_depth_g + 1
       /\ Calls(u) = Calls(s) + 1 /\ u.nodes = s.nodes
    \/ stack_depth_g' = stack_depth_g /\ Calls(u) = 0 /\ u.nodes = s.nodes
    \/ stack_depth_g' = 0 /\ Calls(u) = 0 /\ Len(u.nodes) = 1

LEMMA StepKeeps ==
    ASSUME Sound, NEW r \in Readers, ReaderStep(r) \/ PushError(r)
    PROVE  \E u : rd' = [rd EXCEPT ![r] = u] /\ Good(u) /\ Counts(rd[r], u)
<1>1. rd = [q \in Readers |-> rd[q]] /\ stack_depth_g \in Int /\ Good(rd[r])
  BY DEF Sound
<1>2. CASE parse(r)
  <2>1. PICK u : /\ rd' = [rd EXCEPT ![r] = u] /\ Good(u) /\ stack_depth_g' = 0
                 /\ Calls(u) = 0 /\ Len(u.nodes) = 1
    BY <1>1, <1>2, ParseKeeps
  <2> QED BY <2>1 DEF Counts
<1>3. CASE read_value(r)
  <2>1. PICK u : /\ rd' = [rd EXCEPT ![r] = u] /\ Good(u) /\ u.nodes = rd[r].nodes
                 /\ \/ /\ stack_depth_g < StackLimit /\ stack_depth_g' = stack_depth_g + 1
                       /\ Calls(u) = Calls(rd[r]) + 1
                    \/ stack_depth_g' = stack_depth_g /\ Calls(u) = 0
    BY <1>1, <1>3, ReadValueKeeps
  <2> QED BY <2>1 DEF Counts
<1>4. CASE ~parse(r) /\ ~read_value(r)
  <2>1. \E u : Kept(r, u)
    BY <1>1, <1>4, SkipCommentKeeps, OpenObjectKeeps, OpenArrayKeeps, ReadScalarKeeps, ReadDroppedKeeps,
       ReadUnexpectedKeeps, ReadObjectKeeps, ReadColonKeeps, ReadCommaKeeps, ReadArrayKeeps, RecoverKeeps,
       EndParseKeeps, PushErrorKeeps DEF ReaderStep
  <2> QED BY <2>1 DEF Kept, Counts
<1> QED BY <1>2, <1>3, <1>4

LEMMA CallsFacts ==
    ASSUME NEW s, Good(s)
    PROVE  Calls(s) \in Nat /\ Len(s.nodes) \in Nat
<1>1. /\ Within(s) /\ Len(s.nodes) \in Nat
      /\ s.pc = "value" => Calls(s) = Len(s.nodes) - 1
      /\ s.pc \in {"first", "recover"} \cup Inside => Calls(s) = Len(s.nodes)
      /\ s.pc \notin {"value", "first", "recover"} \cup Inside => Calls(s) = 0
  BY GoodFacts
<1>2. CASE s.pc = "value"
  <2>1. Placed(s, TRUE)
    BY <1>2 DEF Good, Before
  <2>2. Len(s.nodes) \in Nat \ {0}
    BY <1>1, <2>1, PlacedFacts
  <2>3. Calls(s) = Len(s.nodes) - 1
    BY <1>1, <1>2
  <2> QED BY <2>2, <2>3
<1>3. CASE s.pc # "value"
  BY <1>1, <1>3
<1> QED BY <1>2, <1>3

LEMMA SeqWider ==
    ASSUME NEW S, NEW T, S \subseteq T, NEW x \in Seq(S)
    PROVE  x \in Seq(T)
OBVIOUS

LEMMA FreshGood ==
    ASSUME NEW c \in Cases
    PROVE  Good(Fresh(c)) /\ Calls(Fresh(c)) = 0 /\ Fresh(c).nodes = << >>
<1> DEFINE s == Fresh(c)
           tree == Leaf("n")
           doc == c[1]
           set == c[2]
<1>1. doc \in Lexemes /\ set \in Settings
  <2>1. doc \in Seq(STRING) /\ set \in Settings
    BY CasesAssumption
  <2>2. STRING \subseteq Text
    BY DEF Text
  <2> HIDE DEF doc
  <2>3. doc \in Seq(Text)
    BY <2>1, <2>2, SeqWider
  <2> QED BY <2>1, <2>3 DEF Lexemes
<1>2. /\ tree \in Trees /\ << >> \in DOMAIN tree
  <2>1. "n" \in Text /\ << >> \in Lexemes /\ << >> \in Path
    BY DEF Text, Lexemes, Path
  <2>2. Plain("n") \in Value
    <3>1. NoComments \in Comments
      BY <2>1 DEF NoComments, Comments
    <3> QED BY <2>1, <3>1 DEF Plain, Value
  <2>3. DOMAIN tree = {<< >>} /\ tree \in [{<< >>} -> Value]
    BY <2>2 DEF Leaf
  <2> HIDE DEF tree
  <2> QED BY <2>1, <2>3, TreesDef
<1>3. s = [pc |-> "idle", doc |-> doc, set |-> set, cur |-> 1, tree |-> tree,
           nodes |-> << >>, errors |-> << >>, before |-> << >>, end |-> 0,
           last |-> << >>, ok |-> TRUE, until |-> "}", dup |-> FALSE]
  BY DEF Fresh
<1> HIDE DEF s, tree, doc, set
<1>4. << >> \in Lexemes /\ << >> \in Path /\ << >> \in Seq(Frame) /\ << >> \in Seq(Nat \X Nat)
  BY DEF Lexemes, Path
<1>5. /\ s \in Reader /\ s.pc = "idle" /\ s.doc = doc /\ s.cur = 1 /\ s.tree = tree
      /\ s.last = << >> /\ s.nodes = << >>
  BY <1>1, <1>2, <1>3, <1>4 DEF Reader, Pcs
<1>6. 1 \in 1 .. Len(doc) + 1
  <2>1. Len(doc) \in Nat
    BY <1>1 DEF Lexemes
  <2> QED BY <2>1
<1>7. Within(s)
  BY <1>2, <1>5, <1>6 DEF Within
<1>8. Good(s) /\ Calls(s) = 0
  BY <1>5, <1>7 DEF Good, Before, Inside, Calls
<1> QED BY <1>5, <1>8 DEF s

LEMMA SoundInit == Init => Sound /\ Deep
<1> SUFFICES ASSUME Init PROVE Sound /\ Deep
  OBVIOUS
<1>1. PICK case \in [Readers -> Cases] : rd = [r \in Readers |-> Fresh(case[r])]
  BY DEF Init
<1>2. ASSUME NEW r \in Readers
      PROVE  Good(rd[r]) /\ Calls(rd[r]) = 0 /\ rd[r].nodes = << >>
  <2>1. case[r] \in Cases /\ rd[r] = Fresh(case[r])
    BY <1>1
  <2> QED BY <2>1, FreshGood
<1>3. rd = [q \in Readers |-> rd[q]]
  BY <1>1
<1>4. stack_depth_g = 0
  BY DEF Init
<1>5. Sound
  BY <1>2, <1>3, <1>4 DEF Sound
<1>6. ASSUME NEW r \in Readers
      PROVE  Calls(rd[r]) <= stack_depth_g /\ Len(rd[r].nodes) <= StackLimit + 1
  <2>1. Calls(rd[r]) = 0 /\ Len(rd[r].nodes) = 0
    BY <1>2
  <2> QED BY <1>4, <2>1, StackLimitAssumption
<1>7. stack_depth_g \in 0 .. StackLimit
  BY <1>4, StackLimitAssumption
<1> QED BY <1>5, <1>6, <1>7 DEF Deep

LEMMA SoundNext == Sound /\ [Next]_vars => Sound'
<1> SUFFICES ASSUME Sound, [Next]_vars PROVE Sound'
  OBVIOUS
<1>1. CASE UNCHANGED vars
  BY <1>1 DEF Sound, vars
<1>2. CASE Next
  <2>1. PICK r \in Readers : ReaderStep(r) \/ PushError(r)
    BY <1>2 DEF Next
  <2>2. PICK u : rd' = [rd EXCEPT ![r] = u] /\ Good(u) /\ Counts(rd[r], u)
    BY <2>1, StepKeeps
  <2>3. rd = [q \in Readers |-> rd[q]] /\ stack_depth_g \in Int /\ \A q \in Readers : Good(rd[q])
    BY DEF Sound
  <2>4. rd' = [q \in Readers |-> rd'[q]] /\ \A q \in Readers : rd'[q] = IF q = r THEN u ELSE rd[q]
    BY <2>2, <2>3
  <2>5. stack_depth_g' \in Int
    BY <2>2, <2>3 DEF Counts, Counted
  <2>6. \A q \in Readers : Good(rd'[q])
    BY <2>2, <2>3, <2>4
  <2> QED BY <2>4, <2>5, <2>6 DEF Sound
<1> QED BY <1>1, <1>2

LEMMA DeepNext ==
    ASSUME OneReader
    PROVE  Sound /\ Deep /\ [Next]_vars => Deep'
<1> SUFFICES ASSUME Sound, Deep, [Next]_vars PROVE Deep'
  OBVIOUS
<1>1. CASE UNCHANGED vars
  BY <1>1 DEF Deep, vars
<1>2. CASE Next
  <2>1. PICK r \in Readers : ReaderStep(r) \/ PushError(r)
    BY <1>2 DEF Next
  <2> DEFINE s == rd[r]
  <2>2. PICK u : rd' = [rd EXCEPT ![r] = u] /\ Good(u) /\ Counts(s, u)
    BY <2>1, StepKeeps
  <2>3. \A q \in Readers : rd'[q] = u
    BY <2>2 DEF Sound, OneReader
  <2>4. Calls(s) \in Nat /\ Len(s.nodes) \in Nat /\ Calls(u) \in Nat /\ Len(u.nodes) \in Nat
    <3>1. Good(s)
      BY DEF Sound
    <3> QED BY <2>2, <3>1, CallsFacts
  <2>5. stack_depth_g \in 0 .. StackLimit /\ Calls(s) <= stack_depth_g /\ Len(s.nodes) <= StackLimit + 1
    BY DEF Deep
  <2> DEFINE n == Len(u.nodes)
             k == Len(s.nodes)
             c == Calls(u)
             d == Calls(s)
             G == stack_depth_g' \in 0 .. StackLimit /\ c <= stack_depth_g' /\ n <= StackLimit + 1
  <2>6. /\ d \in Nat /\ k \in Nat /\ c \in Nat /\ n \in Nat
        /\ stack_depth_g \in 0 .. StackLimit /\ d <= stack_depth_g /\ k <= StackLimit + 1
    BY <2>4, <2>5
  <2>7. \/ /\ \E i \in {0, 1} : stack_depth_g' = stack_depth_g - i /\ c + i <= d
           /\ n <= c + 1 \/ n <= k
        \/ stack_depth_g < StackLimit /\ stack_depth_g' = stack_depth_g + 1 /\ c = d + 1 /\ n = k
        \/ stack_depth_g' = stack_depth_g /\ c = 0 /\ n = k
        \/ stack_depth_g' = 0 /\ c = 0 /\ n = 1
    BY <2>2 DEF Counts, Counted
  <2> HIDE DEF n, k, c, d, s
  <2>8. G
    <3>1. StackLimit \in Nat
      BY StackLimitAssumption
    <3>2. CASE /\ \E i \in {0, 1} : stack_depth_g' = stack_depth_g - i /\ c + i <= d
               /\ n <= c + 1 \/ n <= k
      <4>1. PICK i \in {0, 1} : stack_depth_g' = stack_depth_g - i /\ c + i <= d
        BY <3>2
      <4> QED BY <2>6, <3>1, <3>2, <4>1
    <3>3. CASE stack_depth_g < StackLimit /\ stack_depth_g' = stack_depth_g + 1 /\ c = d + 1 /\ n = k
      BY <2>6, <3>1, <3>3
    <3>4. CASE stack_depth_g' = stack_depth_g /\ c = 0 /\ n = k
      BY <2>6, <3>1, <3>4
    <3>5. CASE stack_depth_g' = 0 /\ c = 0 /\ n = 1
      BY <2>6, <3>1, <3>5
    <3> QED BY <2>7, <3>2, <3>3, <3>4, <3>5
  <2>9. /\ stack_depth_g' \in 0 .. StackLimit
        /\ \A q \in Readers : Calls(rd'[q]) <= stack_depth_g' /\ Len(rd'[q].nodes) <= StackLimit + 1
    BY <2>3, <2>8 DEF n, c
  <2> QED BY <2>9 DEF Deep
<1> QED BY <1>1, <1>2

LEMMA SoundAlways == Spec => []Sound
<1>1. Init => Sound
  BY SoundInit
<1>2. Sound /\ [Next]_vars => Sound'
  BY SoundNext
<1> QED BY <1>1, <1>2, PTL DEF Spec

LEMMA DeepAlways ==
    ASSUME OneReader
    PROVE  Spec => [](Sound /\ Deep)
<1>1. Init => Sound /\ Deep
  BY SoundInit
<1>2. Sound /\ Deep /\ [Next]_vars => (Sound /\ Deep)'
  BY SoundNext, DeepNext
<1> QED BY <1>1, <1>2, PTL DEF Spec

LEMMA SoundSuffices == Sound => LastValueIsAlive /\ ErrorsTellTheTruth /\ OffsetsNest
<1> SUFFICES ASSUME Sound PROVE LastValueIsAlive /\ ErrorsTellTheTruth /\ OffsetsNest
  OBVIOUS
<1>1. \A r \in Readers : Good(rd[r])
  BY DEF Sound
<1>2. LastValueIsAlive
  BY <1>1 DEF Good, Within, LastValueIsAlive
<1>3. ErrorsTellTheTruth
  BY <1>1 DEF Good, ErrorsTellTheTruth, Done
<1>4. OffsetsNest
  <2>1. \A r \in Readers : Accepted(r) => Nested(rd[r].tree, Slack(rd[r].set))
    BY <1>1 DEF Good, Accepted, Done
  <2> QED BY <2>1 DEF OffsetsNest, Nested, Apart
<1> QED BY <1>2, <1>3, <1>4

\* Any number of readers, with any texts and settings, read side by side: the
\* value that add_comment() writes to through last_value_ is one that the tree
\* still holds, parse() returns false exactly if there is an error to report,
\* and the offsets of the values of an accepted text nest, with the placeholders
\* that were dropped among them.
THEOREM ReadersKeepApart == Spec => [](LastValueIsAlive /\ ErrorsTellTheTruth /\ OffsetsNest)
<1>1. Spec => []Sound
  BY SoundAlways
<1>2. Sound => LastValueIsAlive /\ ErrorsTellTheTruth /\ OffsetsNest
  BY SoundSuffices
<1> QED BY <1>1, <1>2, PTL

\* One reader, used alone, stays within its text, and stack_depth_g never goes
\* below zero, although read_value() counts up in one place and down in others
\* and the return of its default case does not count down.
THEOREM ReaderTypeOK ==
    ASSUME OneReader
    PROVE  Spec => []TypeOK
<1>1. Spec => [](Sound /\ Deep)
  BY DeepAlways
<1>2. ASSUME Sound, Deep PROVE TypeOK
  <2>1. stack_depth_g \in Nat
    BY <1>2, StackLimitAssumption DEF Deep
  <2>2. ASSUME NEW r \in Readers
        PROVE  /\ rd[r].pc \in Pcs /\ rd[r].cur \in 1 .. Len(rd[r].doc) + 1
               /\ rd[r].errors \in Seq(Nat \X Nat)
    <3>1. rd[r] \in Reader /\ rd[r].cur \in 1 .. Len(rd[r].doc) + 1
      BY <1>2 DEF Sound, Good, Within
    <3> QED BY <3>1 DEF Reader
  <2> QED BY <2>1, <2>2 DEF TypeOK, Pcs
<1> QED BY <1>1, <1>2, PTL

\* One reader, used alone, is sound: besides what ReadersKeepApart says,
\* read_value() never nests deeper than stack_limit_g, whatever errors the text
\* has and however often parse() recovers from them.
THEOREM ReaderSound ==
    ASSUME OneReader
    PROVE  Spec => []ReaderIsSound
<1>1. Spec => [](Sound /\ Deep)
  BY DeepAlways
<1>2. Sound /\ Deep => ReaderIsSound
  BY SoundSuffices DEF Deep, StackIsBounded, ReaderIsSound
<1> QED BY <1>1, <1>2, PTL
=============================================================================
