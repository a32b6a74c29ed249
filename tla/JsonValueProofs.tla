--------------------------- MODULE JsonValueProofs ---------------------------
(***************************************************************************)
(* Trees of JSON values, for any number of variables and buffers, any      *)
(* names, scalars and paths: what a variable holds is always a tree, every *)
(* duplicated string has exactly one owner, and the operations that change *)
(* a container in place change what they are asked to.                     *)
(*                                                                         *)
(* The operations are surgery on maps from paths to nodes. The lemmas say  *)
(* for each which paths the result has and what is there, then that it is  *)
(* a tree, then which buffers it owns.                                     *)
(***************************************************************************)
EXTENDS JsonValue, FiniteSetTheorems, WellFoundedInduction, TLAPS

Text == STRING
Path == Seq(Text)

\* What is left of q behind its prefix p.
Rest(p, q) == SubSeq(q, Len(p) + 1, Len(q))
-----------------------------------------------------------------------------
\* Paths

LEMMA PrefixDef ==
    ASSUME NEW p \in Path, NEW q \in Path
    PROVE  IsPrefix(p, q) <=> Len(p) <= Len(q) /\ \A i \in 1 .. Len(p) : p[i] = q[i]
BY DEF IsPrefix, Path

LEMMA PathsAgree ==
    ASSUME NEW p \in Path, NEW q \in Path, Len(p) = Len(q), \A i \in 1 .. Len(p) : p[i] = q[i]
    PROVE  p = q
BY DEF Path

LEMMA LenFacts == \A p \in Path : Len(p) \in Nat /\ (Len(p) = 0 <=> p = << >>)
BY DEF Path

LEMMA CatFacts ==
    ASSUME NEW p \in Path, NEW r \in Path
    PROVE  /\ p \o r \in Path /\ Len(p \o r) = Len(p) + Len(r)
           /\ IsPrefix(p, p \o r) /\ Rest(p, p \o r) = r
           /\ p \o r = p <=> r = << >>
<1>1. /\ p \o r \in Path /\ Len(p \o r) = Len(p) + Len(r)
      /\ \A i \in 1 .. Len(p) : (p \o r)[i] = p[i]
      /\ \A i \in 1 .. Len(r) : (p \o r)[Len(p) + i] = r[i]
  BY DEF Path
<1>2. IsPrefix(p, p \o r)
  <2> DEFINE q == p \o r
  <2>1. q \in Path /\ Len(p) <= Len(q) /\ \A i \in 1 .. Len(p) : p[i] = q[i]
    BY <1>1, LenFacts
  <2> HIDE DEF q
  <2>2. IsPrefix(p, q)
    BY <2>1, PrefixDef
  <2> QED BY <2>2 DEF q
<1>3. Rest(p, p \o r) = r
  BY <1>1 DEF Rest, Path
<1>4. p \o r = p <=> r = << >>
  BY <1>1 DEF Path
<1> QED BY <1>1, <1>2, <1>3, <1>4

LEMMA RestFacts ==
    ASSUME NEW p \in Path, NEW q \in Path, IsPrefix(p, q)
    PROVE  /\ Rest(p, q) \in Path /\ p \o Rest(p, q) = q
           /\ Len(Rest(p, q)) = Len(q) - Len(p)
           /\ Rest(p, q) = << >> <=> q = p
<1>1. Len(p) \in Nat /\ Len(q) \in Nat /\ Len(p) <= Len(q) /\ \A i \in 1 .. Len(p) : p[i] = q[i]
  BY PrefixDef DEF Path
<1>2. /\ Rest(p, q) \in Path /\ Len(Rest(p, q)) = Len(q) - Len(p)
      /\ \A i \in 1 .. Len(q) - Len(p) : Rest(p, q)[i] = q[Len(p) + i]
  BY <1>1 DEF Rest, Path
<1>3. p \o Rest(p, q) = q
  <2>1. p \o Rest(p, q) \in Path /\ Len(p \o Rest(p, q)) = Len(q)
    BY <1>1, <1>2, CatFacts
  <2>2. ASSUME NEW i \in 1 .. Len(q) PROVE (p \o Rest(p, q))[i] = q[i]
    <3>1. CASE i \in 1 .. Len(p)
      BY <1>1, <1>2, <3>1 DEF Path
    <3>2. CASE i \notin 1 .. Len(p)
      <4>1. i - Len(p) \in 1 .. Len(q) - Len(p) /\ Len(p) + (i - Len(p)) = i
        BY <1>1, <3>2
      <4>2. (p \o Rest(p, q))[i] = Rest(p, q)[i - Len(p)]
        BY <1>1, <1>2, <3>2 DEF Path
      <4> QED BY <1>2, <4>1, <4>2
    <3> QED BY <3>1, <3>2
  <2> QED BY <2>1, <2>2, PathsAgree
<1>4. Rest(p, q) = << >> <=> q = p
  <2>1. Rest(p, q) = << >> => q = p
    BY <1>3 DEF Path
  <2>2. q = p => Rest(p, q) = << >>
    BY <1>1, <1>2 DEF Path
  <2> QED BY <2>1, <2>2
<1> QED BY <1>2, <1>3, <1>4

LEMMA FrontFacts ==
    ASSUME NEW q \in Path, q # << >>
    PROVE  /\ Front(q) \in Path /\ Len(Front(q)) = Len(q) - 1 /\ Len(q) > 0
           /\ \A i \in 1 .. Len(q) - 1 : Front(q)[i] = q[i]
           /\ Last(q) \in Text /\ Append(Front(q), Last(q)) = q /\ Front(q) # q
<1>1. Len(q) \in Nat /\ Len(q) > 0
  BY DEF Path
<1>2. /\ Front(q) \in Path /\ Len(Front(q)) = Len(q) - 1
      /\ \A i \in 1 .. Len(q) - 1 : Front(q)[i] = q[i]
  <2> DEFINE n == Len(q) - 1
  <2>1. n \in Nat /\ n <= Len(q)
    BY <1>1
  <2> HIDE DEF n
  <2>2. /\ SubSeq(q, 1, n) \in Seq(Text) /\ Len(SubSeq(q, 1, n)) = n
        /\ \A i \in 1 .. n : SubSeq(q, 1, n)[i] = q[i]
    BY <1>1, <2>1 DEF Path
  <2> QED BY <2>1, <2>2 DEF Front, Path, n
<1>3. Last(q) \in Text
  BY <1>1 DEF Last, Path
<1>4. Append(Front(q), Last(q)) = q
  <2>1. Append(Front(q), Last(q)) \in Path /\ Len(Append(Front(q), Last(q))) = Len(q)
    BY <1>1, <1>2, <1>3 DEF Path
  <2>2. ASSUME NEW i \in 1 .. Len(q) PROVE Append(Front(q), Last(q))[i] = q[i]
    BY <1>1, <1>2, <1>3 DEF Path, Last
  <2> QED BY <2>1, <2>2 DEF Path
<1>5. Front(q) # q
  BY <1>1, <1>2
<1> QED BY <1>1, <1>2, <1>3, <1>4, <1>5

LEMMA FrontUnder ==
    ASSUME NEW p \in Path, NEW q \in Path, q # << >>
    PROVE  IsPrefix(p, Front(q)) <=> IsPrefix(p, q) /\ p # q
<1>1. Len(p) \in Nat /\ Len(q) \in Nat
  BY DEF Path
<1>2. IsPrefix(p, Front(q)) => IsPrefix(p, q) /\ p # q
  BY <1>1, FrontFacts, PrefixDef
<1>3. ASSUME IsPrefix(p, q), p # q PROVE IsPrefix(p, Front(q))
  <2>1. Len(p) <= Len(q) /\ \A i \in 1 .. Len(p) : p[i] = q[i]
    BY <1>3, PrefixDef
  <2>2. Len(p) # Len(q)
    BY <1>3, <2>1 DEF Path
  <2>3. Len(p) <= Len(q) - 1
    BY <1>1, <2>1, <2>2
  <2> QED BY <1>1, <2>1, <2>3, FrontFacts, PrefixDef
<1> QED BY <1>2, <1>3

LEMMA FrontCat ==
    ASSUME NEW p \in Path, NEW r \in Path, r # << >>
    PROVE  /\ p \o r # << >> /\ Front(p \o r) = p \o Front(r) /\ Last(p \o r) = Last(r)
<1>1. Len(r) \in Nat /\ Len(r) > 0 /\ Len(p) \in Nat
  BY DEF Path
<1>2. p \o r \in Path /\ Len(p \o r) = Len(p) + Len(r) /\ p \o r # << >>
  BY <1>1, CatFacts DEF Path
<1>3. Last(p \o r) = Last(r)
  BY <1>1, <1>2 DEF Last, Path
<1>4. /\ Front(r) \in Path /\ Len(Front(r)) = Len(r) - 1
      /\ \A i \in 1 .. Len(r) - 1 : Front(r)[i] = r[i]
  BY FrontFacts
<1>5. /\ Front(p \o r) \in Path /\ Len(Front(p \o r)) = Len(p) + Len(r) - 1
      /\ \A i \in 1 .. Len(p) + Len(r) - 1 : Front(p \o r)[i] = (p \o r)[i]
  <2>1. /\ Front(p \o r) \in Path /\ Len(Front(p \o r)) = Len(p \o r) - 1
        /\ \A i \in 1 .. Len(p \o r) - 1 : Front(p \o r)[i] = (p \o r)[i]
    BY <1>2, FrontFacts
  <2> QED BY <1>1, <1>2, <2>1
<1>6. p \o Front(r) \in Path /\ Len(p \o Front(r)) = Len(p) + Len(r) - 1
  <2>1. p \o Front(r) \in Path /\ Len(p \o Front(r)) = Len(p) + Len(Front(r))
    BY <1>4, CatFacts
  <2> QED BY <1>1, <1>4, <2>1
<1>7. ASSUME NEW i \in 1 .. Len(p) + Len(r) - 1 PROVE Front(p \o r)[i] = (p \o Front(r))[i]
  <2>1. CASE i \in 1 .. Len(p)
    BY <1>1, <1>4, <1>5, <2>1 DEF Path
  <2>2. CASE i \notin 1 .. Len(p)
    <3>1. i - Len(p) \in 1 .. Len(r) - 1 /\ i - Len(p) \in 1 .. Len(r)
      BY <1>1, <2>2
    <3>2. (p \o r)[i] = r[i - Len(p)]
      BY <1>1, <2>2 DEF Path
    <3>3. (p \o Front(r))[i] = Front(r)[i - Len(p)]
      BY <1>1, <1>4, <2>2 DEF Path
    <3> QED BY <1>4, <1>5, <3>1, <3>2, <3>3
  <2> QED BY <2>1, <2>2
<1>8. Front(p \o r) = p \o Front(r)
  BY <1>5, <1>6, <1>7, PathsAgree
<1> QED BY <1>2, <1>3, <1>8

LEMMA BranchFacts ==
    ASSUME NEW p \in Path, NEW k \in Text
    PROVE  /\ Append(p, k) \in Path /\ Append(p, k) # << >> /\ Append(p, k) # p
           /\ Front(Append(p, k)) = p /\ Last(Append(p, k)) = k
           /\ IsPrefix(p, Append(p, k)) /\ IsPrefix(p, p)
           /\ \A q \in Path : IsPrefix(Append(p, k), q) <=>
                 IsPrefix(p, q) /\ Len(q) > Len(p) /\ q[Len(p) + 1] = k
<1> DEFINE a == Append(p, k)
<1>1. /\ Len(p) \in Nat /\ a \in Path /\ Len(a) = Len(p) + 1
      /\ a[Len(p) + 1] = k /\ \A i \in 1 .. Len(p) : a[i] = p[i]
  <2>1. a \in Path /\ Len(a) = Len(p) + 1 /\ Len(p) \in Nat
    BY DEF Path
  <2>2. a[Len(p) + 1] = k
    BY DEF Path
  <2>3. \A i \in 1 .. Len(p) : a[i] = p[i]
    BY DEF Path
  <2> QED BY <2>1, <2>2, <2>3
<1> HIDE DEF a
<1>2. a # << >> /\ a # p /\ Last(a) = k
  <2>1. Len(a) # 0 /\ Len(a) # Len(p)
    BY <1>1
  <2> QED BY <1>1, <2>1, LenFacts DEF Last
<1>3. Front(a) = p
  <2>1. /\ Front(a) \in Path /\ Len(Front(a)) = Len(a) - 1
        /\ \A i \in 1 .. Len(a) - 1 : Front(a)[i] = a[i]
    BY <1>1, <1>2, FrontFacts
  <2>2. Len(Front(a)) = Len(p) /\ Len(a) - 1 = Len(p)
    BY <1>1, <2>1
  <2>3. \A i \in 1 .. Len(p) : Front(a)[i] = p[i]
    BY <1>1, <2>1, <2>2
  <2> QED BY <2>1, <2>2, <2>3, PathsAgree
<1>4. IsPrefix(p, a) /\ IsPrefix(p, p)
  BY <1>1, PrefixDef
<1>5. ASSUME NEW q \in Path
      PROVE  IsPrefix(a, q) <=> IsPrefix(p, q) /\ Len(q) > Len(p) /\ q[Len(p) + 1] = k
  <2>1. Len(q) \in Nat
    BY LenFacts
  <2>2. IsPrefix(a, q) => IsPrefix(p, q) /\ Len(q) > Len(p) /\ q[Len(p) + 1] = k
    <3>1. IsPrefix(a, q) <=> Len(a) <= Len(q) /\ \A i \in 1 .. Len(a) : a[i] = q[i]
      BY <1>1, PrefixDef
    <3> SUFFICES ASSUME IsPrefix(a, q) PROVE IsPrefix(p, q) /\ Len(q) > Len(p) /\ q[Len(p) + 1] = k
      OBVIOUS
    <3>2. Len(a) <= Len(q) /\ \A i \in 1 .. Len(a) : a[i] = q[i]
      BY <3>1
    <3>3. Len(p) <= Len(q) /\ Len(q) > Len(p) /\ q[Len(p) + 1] = k
      BY <1>1, <2>1, <3>2
    <3>4. \A i \in 1 .. Len(p) : p[i] = q[i]
      BY <1>1, <3>2
    <3> QED BY <3>3, <3>4, PrefixDef
  <2>3. IsPrefix(p, q) /\ Len(q) > Len(p) /\ q[Len(p) + 1] = k => IsPrefix(a, q)
    <3> SUFFICES ASSUME IsPrefix(p, q), Len(q) > Len(p), q[Len(p) + 1] = k PROVE IsPrefix(a, q)
      OBVIOUS
    <3>1. Len(p) <= Len(q) /\ \A i \in 1 .. Len(p) : p[i] = q[i]
      BY PrefixDef
    <3>2. Len(a) <= Len(q)
      BY <1>1, <2>1
    <3>3. ASSUME NEW i \in 1 .. Len(a) PROVE a[i] = q[i]
      <4>1. i \in 1 .. Len(p) \/ i = Len(p) + 1
        BY <1>1
      <4> QED BY <1>1, <3>1, <4>1
    <3> QED BY <1>1, <3>2, <3>3, PrefixDef
  <2> QED BY <2>2, <2>3
<1> QED BY <1>1, <1>2, <1>3, <1>4, <1>5 DEF a
-----------------------------------------------------------------------------
\* Nodes and trees

LEMMA TypeNames == {"null", "array", "object"} \subseteq ValueTypes
<1>1. DOMAIN Types = 1 .. 8 /\ Types[1] = "null" /\ Types[7] = "array" /\ Types[8] = "object"
  BY DEF Types
<1> QED BY <1>1 DEF ValueTypes

LEMMA NodeFacts ==
    ASSUME NEW n \in NodeRecord, NEW k \in 0 .. MaxBuffers
    PROVE  /\ [n EXCEPT !.key = k] \in NodeRecord /\ [n EXCEPT !.key = k].key = k
           /\ [n EXCEPT !.key = k].str = n.str /\ [n EXCEPT !.key = k].type = n.type
           /\ [n EXCEPT !.key = k].num = n.num
BY DEF NodeRecord

LEMMA NullFacts ==
    /\ Null \in NodeRecord /\ Null.type = "null" /\ Null.str = 0 /\ Null.key = 0 /\ Null.num = 0
    /\ 0 \in 0 .. MaxBuffers
BY TypeNames, BoundsAssumption DEF Null, Node, NodeRecord

LEMMA KeyFacts ==
    /\ Elements \subseteq Text /\ Members \subseteq Text /\ Elements \cap Members = {}
    /\ \A i \in 0 .. MaxIndex : IndexKey(i) \in Elements
    /\ \A i \in 0 .. MaxIndex + 1 : IndexKey(i) \in Text /\ IndexOf(IndexKey(i)) = i
    /\ \A k \in Elements : IndexOf(k) \in 0 .. MaxIndex /\ IndexKey(IndexOf(k)) = k
<1>1. MaxIndex \in Nat
  BY BoundsAssumption
<1>2. /\ IndexKeys \in [0 .. MaxIndex + 1 -> Text]
      /\ \A i, j \in 0 .. MaxIndex + 1 : IndexKeys[i] = IndexKeys[j] => i = j
      /\ \A i \in 0 .. MaxIndex + 1 : IndexKeys[i] \notin Members
  BY KeysAssumption DEF Injection, IsInjective, Text
<1>3. Members \subseteq Text
  BY KeysAssumption DEF Members, Text
<1>4. \A i \in 0 .. MaxIndex : i \in 0 .. MaxIndex + 1
  BY <1>1
<1>5. \A i \in 0 .. MaxIndex + 1 : IndexOf(IndexKey(i)) = i
  BY <1>2 DEF IndexOf, IndexKey
<1> QED BY <1>2, <1>3, <1>4, <1>5 DEF Elements, IndexKey

IsFcn(t) == t = [p \in DOMAIN t |-> t[p]]

LEMMA TreeFacts ==
    ASSUME NEW t, IsTree(t)
    PROVE  /\ IsFcn(t) /\ << >> \in DOMAIN t
           /\ DOMAIN t \subseteq Path /\ \A p \in DOMAIN t : t[p] \in NodeRecord /\ Attached(t, p)
BY DEF IsTree, IsFcn, Path, Text

LEMMA IsTreeIf ==
    ASSUME NEW t, IsFcn(t), << >> \in DOMAIN t,
           DOMAIN t \subseteq Path, \A p \in DOMAIN t : t[p] \in NodeRecord /\ Attached(t, p)
    PROVE  IsTree(t)
BY DEF IsTree, IsFcn, Path, Text

\* The paths of a tree are closed under prefixes: what is below a path that is
\* missing is missing too.
LEMMA ParentFacts ==
    ASSUME NEW t, IsTree(t), NEW q \in DOMAIN t, q # << >>
    PROVE  /\ Front(q) \in DOMAIN t /\ t[Front(q)].type \in Containers
           /\ t[Front(q)].type = "array" => Last(q) \in Elements /\ t[q].key = 0
           /\ t[Front(q)].type = "object" => Last(q) \in Members
BY TreeFacts DEF Attached, Containers

\* The subtree at p has what is under p.
LEMMA SubFacts ==
    ASSUME NEW t, IsTree(t), NEW p \in DOMAIN t, NEW s, s = Sub(t, p)
    PROVE  /\ IsFcn(s) /\ \A r : r \in DOMAIN s <=> r \in Path /\ p \o r \in DOMAIN t
           /\ s[<< >>] = [t[p] EXCEPT !.key = 0]
           /\ \A r \in DOMAIN s : r # << >> => s[r] = t[p \o r]
           /\ << >> \in Path /\ p \o << >> = p /\ << >> \in DOMAIN s
<1> DEFINE D == {SubSeq(r, Len(p) + 1, Len(r)) : r \in {r \in DOMAIN t : IsPrefix(p, r)}}
<1>0. p \in Path /\ << >> \in Path /\ p \o << >> = p /\ DOMAIN t \subseteq Path
  BY TreeFacts DEF Path
<1>1. D = {Rest(p, r) : r \in {r \in DOMAIN t : IsPrefix(p, r)}}
  BY DEF Rest
<1> HIDE DEF D
<1>2. ASSUME NEW r \in D PROVE r \in Path /\ p \o r \in DOMAIN t
  <2>1. PICK q \in DOMAIN t : IsPrefix(p, q) /\ r = Rest(p, q)
    BY <1>1
  <2>2. q \in Path
    BY <1>0
  <2> QED BY <1>0, <2>1, <2>2, RestFacts
<1>3. ASSUME NEW r \in Path, p \o r \in DOMAIN t PROVE r \in D
  BY <1>0, <1>1, <1>3, CatFacts
<1>4. D = {r \in Path : p \o r \in DOMAIN t}
  BY <1>2, <1>3
<1>5. s = [q \in D |-> IF q = << >> THEN [t[p] EXCEPT !.key = 0] ELSE t[p \o q]]
  BY DEF Sub, D
<1>6. IsFcn(s) /\ DOMAIN s = D
  BY <1>5 DEF IsFcn
<1> QED BY <1>0, <1>4, <1>5, <1>6

LEMMA SubIsTree ==
    ASSUME NEW t, IsTree(t), NEW p \in DOMAIN t, NEW s, s = Sub(t, p)
    PROVE  IsTree(s) /\ s[<< >>].key = 0
<1>1. /\ IsFcn(s) /\ \A r : r \in DOMAIN s <=> r \in Path /\ p \o r \in DOMAIN t
      /\ s[<< >>] = [t[p] EXCEPT !.key = 0] /\ << >> \in DOMAIN s /\ p \o << >> = p
      /\ \A r \in DOMAIN s : r # << >> => s[r] = t[p \o r]
  BY SubFacts
<1>2. p \in Path /\ t[p] \in NodeRecord /\ \A q \in DOMAIN t : t[q] \in NodeRecord
  BY TreeFacts
<1>3. s[<< >>] \in NodeRecord /\ s[<< >>].key = 0 /\ s[<< >>].type = t[p].type
  BY <1>1, <1>2, NodeFacts, NullFacts
<1>4. \A r \in DOMAIN s : s[r] \in NodeRecord /\ s[r].type = t[p \o r].type
  BY <1>1, <1>2, <1>3
<1>5. ASSUME NEW r \in DOMAIN s, r # << >> PROVE Attached(s, r)
  <2>1. r \in Path /\ p \o r \in DOMAIN t /\ s[r] = t[p \o r]
    BY <1>1, <1>5
  <2>2. p \o r # << >> /\ Front(p \o r) = p \o Front(r) /\ Last(p \o r) = Last(r) /\ Front(r) \in Path
    BY <1>2, <1>5, <2>1, FrontCat, FrontFacts
  <2>3. Attached(t, p \o r)
    BY <2>1, TreeFacts
  <2>4. Front(r) \in DOMAIN s /\ s[Front(r)].type = t[p \o Front(r)].type
    BY <1>1, <1>4, <2>2, <2>3 DEF Attached
  <2> QED BY <1>5, <2>1, <2>2, <2>3, <2>4 DEF Attached
<1>6. Attached(s, << >>)
  BY <1>3 DEF Attached
<1>7. DOMAIN s \subseteq Path
  BY <1>1
<1> QED BY <1>1, <1>3, <1>4, <1>5, <1>6, <1>7, IsTreeIf

\* Another subtree s at p.
LEMMA WithFacts ==
    ASSUME NEW t, IsTree(t), NEW s, IsTree(s), NEW p \in Path, NEW key, NEW u, u = With(t, p, s, key)
    PROVE  /\ IsFcn(u) /\ p \in DOMAIN u /\ u[p] = [s[<< >>] EXCEPT !.key = key]
           /\ \A q : q \in DOMAIN u <=>
                 \/ q \in DOMAIN t /\ ~IsPrefix(p, q)
                 \/ q \in Path /\ IsPrefix(p, q) /\ Rest(p, q) \in DOMAIN s
           /\ \A q \in DOMAIN t : ~IsPrefix(p, q) => u[q] = t[q]
           /\ \A q \in DOMAIN u : IsPrefix(p, q) /\ q # p => u[q] = s[Rest(p, q)]
<1> DEFINE D == DOMAIN Without(t, p) \cup {p \o r : r \in DOMAIN s}
<1>0. DOMAIN t \subseteq Path /\ DOMAIN s \subseteq Path /\ << >> \in DOMAIN s
  BY TreeFacts
<1>1. u = [q \in D |-> IF q = p THEN [s[<< >>] EXCEPT !.key = key]
                       ELSE IF IsPrefix(p, q) THEN s[Rest(p, q)] ELSE t[q]]
  BY DEF With, Rest
<1>2. \A q : q \in DOMAIN Without(t, p) <=> q \in DOMAIN t /\ ~IsPrefix(p, q)
  BY DEF Without, Keep, Under
<1>3. ASSUME NEW q PROVE q \in {p \o r : r \in DOMAIN s} <=>
                           q \in Path /\ IsPrefix(p, q) /\ Rest(p, q) \in DOMAIN s
  <2>1. ASSUME NEW r \in DOMAIN s, q = p \o r
        PROVE  q \in Path /\ IsPrefix(p, q) /\ Rest(p, q) \in DOMAIN s
    BY <1>0, <2>1, CatFacts
  <2>2. ASSUME q \in Path, IsPrefix(p, q), Rest(p, q) \in DOMAIN s
        PROVE  q \in {p \o r : r \in DOMAIN s}
    BY <2>2, RestFacts
  <2> QED BY <2>1, <2>2
<1>4. \A q : q \in D <=> \/ q \in DOMAIN t /\ ~IsPrefix(p, q)
                         \/ q \in Path /\ IsPrefix(p, q) /\ Rest(p, q) \in DOMAIN s
  BY <1>2, <1>3
<1> HIDE DEF D
<1>5. IsFcn(u) /\ DOMAIN u = D
  BY <1>1 DEF IsFcn
<1>6. IsPrefix(p, p) /\ Rest(p, p) = << >>
  BY PrefixDef, LenFacts, RestFacts
<1>7. p \in D
  BY <1>0, <1>4, <1>6
<1>8. \A q \in DOMAIN t : ~IsPrefix(p, q) => u[q] = t[q]
  BY <1>1, <1>4, <1>6
<1> QED BY <1>1, <1>4, <1>5, <1>7, <1>8

\* Where a value may be attached, and whether it needs no name there.
Grafts(t, p, key) ==
    /\ key \in 0 .. MaxBuffers
    /\ \/ p = << >> /\ key = 0
       \/ /\ p # << >> /\ Front(p) \in DOMAIN t
          /\ \/ t[Front(p)].type = "array" /\ Last(p) \in Elements /\ key = 0
             \/ t[Front(p)].type = "object" /\ Last(p) \in Members

LEMMA WithIsTree ==
    ASSUME NEW t, IsTree(t), NEW s, IsTree(s), NEW p \in Path, NEW key, Grafts(t, p, key),
           NEW u, u = With(t, p, s, key)
    PROVE  IsTree(u)
<1>1. /\ IsFcn(u) /\ p \in DOMAIN u /\ u[p] = [s[<< >>] EXCEPT !.key = key]
      /\ \A q : q \in DOMAIN u <=>
            \/ q \in DOMAIN t /\ ~IsPrefix(p, q)
            \/ q \in Path /\ IsPrefix(p, q) /\ Rest(p, q) \in DOMAIN s
      /\ \A q \in DOMAIN t : ~IsPrefix(p, q) => u[q] = t[q]
      /\ \A q \in DOMAIN u : IsPrefix(p, q) /\ q # p => u[q] = s[Rest(p, q)]
  BY WithFacts
<1>2. /\ DOMAIN t \subseteq Path /\ << >> \in DOMAIN t /\ \A q \in DOMAIN t : t[q] \in NodeRecord
      /\ DOMAIN s \subseteq Path /\ << >> \in DOMAIN s /\ \A q \in DOMAIN s : s[q] \in NodeRecord
      /\ << >> \in Path
  BY TreeFacts DEF Path
<1>3. u[p] \in NodeRecord /\ u[p].key = key /\ u[p].type = s[<< >>].type
  BY <1>1, <1>2, NodeFacts DEF Grafts
<1>4. DOMAIN u \subseteq Path /\ \A q \in DOMAIN u : u[q] \in NodeRecord
  BY <1>1, <1>2, <1>3
<1>5. << >> \in DOMAIN u
  <2>1. ~IsPrefix(p, << >>) \/ p = << >>
    BY <1>2, PrefixDef, LenFacts
  <2> QED BY <1>1, <1>2, <2>1
<1>6. ASSUME NEW q \in DOMAIN u PROVE Attached(u, q)
  <2>0. q \in Path
    BY <1>4
  <2>1. CASE ~IsPrefix(p, q)
    <3>1. q \in DOMAIN t /\ u[q] = t[q] /\ Attached(t, q)
      BY <1>1, <2>1, TreeFacts
    <3>2. ASSUME q # << >> PROVE Front(q) \in DOMAIN u /\ u[Front(q)] = t[Front(q)]
      <4>1. Front(q) \in DOMAIN t
        BY <3>1, <3>2 DEF Attached
      <4>2. ~IsPrefix(p, Front(q))
        BY <2>0, <2>1, <3>2, FrontUnder
      <4> QED BY <1>1, <4>1, <4>2
    <3> QED BY <3>1, <3>2 DEF Attached
  <2>2. CASE q = p
    <3>1. ASSUME p # << >> PROVE Front(p) \in DOMAIN u /\ u[Front(p)] = t[Front(p)]
      <4>1. ~IsPrefix(p, Front(p))
        BY <3>1, FrontUnder
      <4> QED BY <1>1, <3>1, <4>1 DEF Grafts
    <3> QED BY <1>3, <2>2, <3>1 DEF Attached, Grafts
  <2>3. CASE IsPrefix(p, q) /\ q # p
    <3> DEFINE r == Rest(p, q)
    <3>1. r \in Path /\ p \o r = q /\ r # << >> /\ r \in DOMAIN s /\ u[q] = s[r]
      BY <1>1, <2>0, <2>3, RestFacts
    <3> HIDE DEF r
    <3>2. Attached(s, r) /\ Front(r) \in DOMAIN s /\ Front(r) \in Path
      BY <3>1, TreeFacts, FrontFacts DEF Attached
    <3>3. q # << >> /\ Front(q) = p \o Front(r) /\ Last(q) = Last(r)
      BY <3>1, FrontCat
    <3>4. IsPrefix(p, Front(q)) /\ Rest(p, Front(q)) = Front(r) /\ Front(q) \in Path
      BY <3>2, <3>3, CatFacts
    <3>5. Front(q) \in DOMAIN u
      BY <1>1, <3>2, <3>4
    <3>6. u[Front(q)].type = s[Front(r)].type
      <4>1. CASE Front(q) = p
        BY <1>3, <3>2, <3>3, <4>1, CatFacts
      <4>2. CASE Front(q) # p
        BY <1>1, <3>4, <3>5, <4>2
      <4> QED BY <4>1, <4>2
    <3> QED BY <3>1, <3>2, <3>3, <3>5, <3>6 DEF Attached
  <2> QED BY <2>1, <2>2, <2>3
<1> QED BY <1>1, <1>4, <1>5, <1>6, IsTreeIf

\* A null value becomes a container.
LEMMA AsFacts ==
    ASSUME NEW t, IsTree(t), NEW p \in DOMAIN t, NEW type \in Containers, NEW u, u = As(t, p, type)
    PROVE  /\ IsFcn(u) /\ DOMAIN u = DOMAIN t
           /\ \A q \in DOMAIN t : q # p => u[q] = t[q]
           /\ u[p].type = IF t[p].type = "null" THEN type ELSE t[p].type
           /\ u[p] \in NodeRecord
           /\ u[p].num = t[p].num /\ u[p].str = t[p].str /\ u[p].key = t[p].key
<1>1. IsFcn(t) /\ t[p] \in NodeRecord
  BY TreeFacts
<1>2. type \in ValueTypes
  BY TypeNames DEF Containers
<1>3. CASE t[p].type # "null"
  BY <1>1, <1>3 DEF As
<1>4. CASE t[p].type = "null"
  <2>1. PICK n : n = [t[p] EXCEPT !.type = type]
    OBVIOUS
  <2>2. u = [t EXCEPT ![p] = n]
    BY <1>4, <2>1 DEF As
  <2>3. n \in NodeRecord /\ n.type = type /\ n.num = t[p].num /\ n.str = t[p].str /\ n.key = t[p].key
    BY <1>1, <1>2, <2>1 DEF NodeRecord
  <2>4. IsFcn(u) /\ DOMAIN u = DOMAIN t /\ u[p] = n /\ \A q \in DOMAIN t : q # p => u[q] = t[q]
    BY <2>2 DEF IsFcn
  <2> QED BY <1>4, <2>3, <2>4
<1> QED BY <1>3, <1>4

LEMMA AsIsTree ==
    ASSUME NEW t, IsTree(t), NEW p \in DOMAIN t, NEW type \in Containers, NEW u, u = As(t, p, type)
    PROVE  IsTree(u)
<1>1. /\ IsFcn(u) /\ DOMAIN u = DOMAIN t
      /\ \A q \in DOMAIN t : q # p => u[q] = t[q]
      /\ u[p].type = IF t[p].type = "null" THEN type ELSE t[p].type
      /\ u[p] \in NodeRecord /\ u[p].key = t[p].key
  BY AsFacts
<1>2. << >> \in DOMAIN u /\ DOMAIN u \subseteq Path /\ \A q \in DOMAIN u : u[q] \in NodeRecord
  BY <1>1, TreeFacts
<1>3. ASSUME NEW q \in DOMAIN u PROVE Attached(u, q)
  <2>1. Attached(t, q) /\ u[q].key = t[q].key
    BY <1>1, TreeFacts
  <2>2. ASSUME q # << >> PROVE Front(q) \in DOMAIN t /\ t[Front(q)].type # "null"
    BY <1>1, <2>2, ParentFacts DEF Containers
  <2>3. ASSUME q # << >> PROVE u[Front(q)].type = t[Front(q)].type
    <3>1. CASE Front(q) = p
      BY <1>1, <2>2, <2>3, <3>1
    <3>2. CASE Front(q) # p
      BY <1>1, <2>2, <2>3, <3>2
    <3> QED BY <3>1, <3>2
  <2> QED BY <1>1, <2>1, <2>2, <2>3 DEF Attached
<1> QED BY <1>1, <1>2, <1>3, IsTreeIf

\* An entry of a map that was not there.
LEMMA InsertFacts ==
    ASSUME NEW t, NEW p, NEW n, NEW u, u = Insert(t, p, n)
    PROVE  /\ IsFcn(u) /\ \A q : q \in DOMAIN u <=> q \in DOMAIN t \/ q = p
           /\ \A q \in DOMAIN t : u[q] = t[q]
           /\ p \notin DOMAIN t => u[p] = n
BY DEF Insert, IsFcn

LEMMA InsertIsTree ==
    ASSUME NEW t, IsTree(t), NEW p \in Path, NEW n \in NodeRecord, Grafts(t, p, n.key),
           NEW u, u = Insert(t, p, n)
    PROVE  IsTree(u)
<1>1. /\ IsFcn(u) /\ \A q : q \in DOMAIN u <=> q \in DOMAIN t \/ q = p
      /\ \A q \in DOMAIN t : u[q] = t[q]
      /\ p \notin DOMAIN t => u[p] = n
  BY InsertFacts
<1>2. << >> \in DOMAIN u /\ DOMAIN u \subseteq Path /\ \A q \in DOMAIN u : u[q] \in NodeRecord
  BY <1>1, TreeFacts
<1>3. ASSUME NEW q \in DOMAIN t PROVE Attached(u, q)
  <2>1. Attached(t, q) /\ u[q] = t[q]
    BY <1>1, TreeFacts
  <2>2. ASSUME q # << >> PROVE Front(q) \in DOMAIN u /\ u[Front(q)] = t[Front(q)]
    BY <1>1, <2>1, <2>2 DEF Attached
  <2> QED BY <2>1, <2>2 DEF Attached
<1>4. ASSUME p \notin DOMAIN t PROVE Attached(u, p)
  <2>1. p # << >>
    BY <1>4, TreeFacts
  <2>2. Front(p) \in DOMAIN u /\ u[Front(p)] = t[Front(p)] /\ u[p] = n
    BY <1>1, <1>4, <2>1 DEF Grafts
  <2> QED BY <2>1, <2>2 DEF Attached, Grafts
<1> QED BY <1>1, <1>2, <1>3, <1>4, IsTreeIf

\* What is kept when the paths in gone go.
LEMMA KeepFacts ==
    ASSUME NEW t, NEW gone, NEW u, u = Keep(t, gone)
    PROVE  /\ IsFcn(u) /\ \A q : q \in DOMAIN u <=> q \in DOMAIN t /\ q \notin gone
           /\ \A q \in DOMAIN u : u[q] = t[q]
BY DEF Keep, IsFcn

LEMMA KeepIsTree ==
    ASSUME NEW t, IsTree(t), NEW gone, << >> \notin gone,
           \A q \in DOMAIN t : q # << >> /\ Front(q) \in gone => q \in gone,
           NEW u, u = Keep(t, gone)
    PROVE  IsTree(u)
<1>1. /\ IsFcn(u) /\ \A q : q \in DOMAIN u <=> q \in DOMAIN t /\ q \notin gone
      /\ \A q \in DOMAIN u : u[q] = t[q]
  BY KeepFacts
<1>2. << >> \in DOMAIN u /\ DOMAIN u \subseteq Path /\ \A q \in DOMAIN u : u[q] \in NodeRecord
  BY <1>1, TreeFacts
<1>3. ASSUME NEW q \in DOMAIN u PROVE Attached(u, q)
  <2>1. Attached(t, q) /\ u[q] = t[q]
    BY <1>1, TreeFacts
  <2>2. ASSUME q # << >> PROVE Front(q) \in DOMAIN u /\ u[Front(q)] = t[Front(q)]
    BY <1>1, <2>1, <2>2 DEF Attached
  <2> QED BY <2>1, <2>2 DEF Attached
<1> QED BY <1>1, <1>2, <1>3, IsTreeIf

-----------------------------------------------------------------------------
\* Ownership

\* The value at q owns the buffer b: as its string or as its name.
Holds(t, q, f, b) ==
    /\ q \in DOMAIN t /\ b # 0
    /\ \/ f = "str" /\ t[q].str = b
       \/ f = "key" /\ t[q].key = b

LEMMA HoldsBuffer ==
    ASSUME NEW t, NEW q, NEW f, NEW b
    PROVE  Holds(t, q, f, b) <=> <<q, f>> \in Owners(t) /\ b = Buffer(t, <<q, f>>)
<1>1. <<q, f>>[1] = q /\ <<q, f>>[2] = f
  OBVIOUS
<1>2. <<q, f>> \in (DOMAIN t) \X {"str", "key"} <=> q \in DOMAIN t /\ (f = "str" \/ f = "key")
  OBVIOUS
<1>3. Buffer(t, <<q, f>>) = t[q][f]
  BY <1>1 DEF Buffer
<1>4. <<q, f>> \in Owners(t) <=> q \in DOMAIN t /\ (f = "str" \/ f = "key") /\ t[q][f] # 0
  BY <1>2, <1>3 DEF Owners
<1>5. CASE f = "str"
  BY <1>3, <1>4, <1>5 DEF Holds
<1>6. CASE f = "key"
  BY <1>3, <1>4, <1>6 DEF Holds
<1>7. CASE f # "str" /\ f # "key"
  BY <1>4, <1>7 DEF Holds
<1> QED BY <1>5, <1>6, <1>7

LEMMA OwnersHold ==
    ASSUME NEW t, NEW o \in Owners(t)
    PROVE  \E q, f : o = <<q, f>> /\ Holds(t, q, f, Buffer(t, o))
<1>1. o \in (DOMAIN t) \X {"str", "key"}
  BY DEF Owners
<1>2. PICK q \in DOMAIN t, f \in {"str", "key"} : o = <<q, f>>
  BY <1>1
<1> QED BY <1>2, HoldsBuffer

LEMMA OwnedIsHeld ==
    ASSUME NEW t, NEW b
    PROVE  b \in Owned(t) <=> \E q, f : Holds(t, q, f, b)
<1>1. b \in Owned(t) => \E q, f : Holds(t, q, f, b)
  BY OwnersHold DEF Owned
<1>2. ASSUME NEW q, NEW f, Holds(t, q, f, b) PROVE b \in Owned(t)
  BY <1>2, HoldsBuffer DEF Owned
<1> QED BY <1>1, <1>2

LEMMA FreedIsHeld ==
    ASSUME NEW t, NEW gone \in SUBSET DOMAIN t, NEW b
    PROVE  b \in Freed(t, gone) <=> \E q \in gone : \E f : Holds(t, q, f, b)
<1> DEFINE u == [q \in gone |-> t[q]]
<1>1. \A q, f : Holds(u, q, f, b) <=> q \in gone /\ Holds(t, q, f, b)
  BY DEF Holds
<1>2. b \in Freed(t, gone) <=> b \in Owned(u)
  BY DEF Freed
<1> HIDE DEF u
<1> QED BY <1>1, <1>2, OwnedIsHeld

\* OneOwner of the trees v and the heap h, and the same place by place.
OwnsOnce(v, h) ==
    /\ h = UNION {Owned(v[x]) : x \in Vars}
    /\ \A x, y \in Vars : \A o \in Owners(v[x]), u \in Owners(v[y]) :
          Buffer(v[x], o) = Buffer(v[y], u) => x = y /\ o = u

LEMMA OwnsOnceIs ==
    ASSUME NEW v, NEW h
    PROVE  OwnsOnce(v, h) <=>
             /\ \A b : b \in h <=> \E x \in Vars : \E q, f : Holds(v[x], q, f, b)
             /\ \A x, y \in Vars : \A q, f, r, g, b :
                   Holds(v[x], q, f, b) /\ Holds(v[y], r, g, b) => x = y /\ q = r /\ f = g
<1>1. \A b : b \in UNION {Owned(v[x]) : x \in Vars} <=>
               \E x \in Vars : \E q, f : Holds(v[x], q, f, b)
  BY OwnedIsHeld
<1>2. h = UNION {Owned(v[x]) : x \in Vars} <=>
        \A b : b \in h <=> \E x \in Vars : \E q, f : Holds(v[x], q, f, b)
  BY <1>1
<1>3. ASSUME \A x, y \in Vars : \A o \in Owners(v[x]), u \in Owners(v[y]) :
                Buffer(v[x], o) = Buffer(v[y], u) => x = y /\ o = u,
             NEW x \in Vars, NEW y \in Vars, NEW q, NEW f, NEW r, NEW g, NEW b,
             Holds(v[x], q, f, b), Holds(v[y], r, g, b)
      PROVE  x = y /\ q = r /\ f = g
  <2>1. <<q, f>> \in Owners(v[x]) /\ <<r, g>> \in Owners(v[y])
    BY <1>3, HoldsBuffer
  <2>2. Buffer(v[x], <<q, f>>) = Buffer(v[y], <<r, g>>)
    BY <1>3, HoldsBuffer
  <2>3. x = y /\ <<q, f>> = <<r, g>>
    BY <1>3, <2>1, <2>2
  <2> QED BY <2>3
<1>4. ASSUME \A x, y \in Vars : \A q, f, r, g, b :
                Holds(v[x], q, f, b) /\ Holds(v[y], r, g, b) => x = y /\ q = r /\ f = g,
             NEW x \in Vars, NEW y \in Vars, NEW o \in Owners(v[x]), NEW u \in Owners(v[y]),
             Buffer(v[x], o) = Buffer(v[y], u)
      PROVE  x = y /\ o = u
  <2>1. PICK q, f : o = <<q, f>> /\ Holds(v[x], q, f, Buffer(v[x], o))
    BY OwnersHold
  <2>2. PICK r, g : u = <<r, g>> /\ Holds(v[y], r, g, Buffer(v[y], u))
    BY OwnersHold
  <2> QED BY <1>4, <2>1, <2>2
<1> DEFINE P == \A x, y \in Vars : \A o \in Owners(v[x]), u \in Owners(v[y]) :
                   Buffer(v[x], o) = Buffer(v[y], u) => x = y /\ o = u
           Q == \A x, y \in Vars : \A q, f, r, g, b :
                   Holds(v[x], q, f, b) /\ Holds(v[y], r, g, b) => x = y /\ q = r /\ f = g
<1>5. P => Q
  BY <1>3
<1>6. Q => P
  BY <1>4
<1>7. OwnsOnce(v, h) <=> h = UNION {Owned(v[x]) : x \in Vars} /\ P
  BY DEF OwnsOnce
<1> HIDE DEF P
<1>8. P <=> Q
  BY <1>5, <1>6
<1> QED BY <1>2, <1>7, <1>8

Unique(t) == \A q, f, r, g, b : Holds(t, q, f, b) /\ Holds(t, r, g, b) => q = r /\ f = g

\* One variable gets the tree u. What u owns is new or was owned before and is
\* not freed, and it owns nothing twice.
LEMMA OneChanges ==
    ASSUME NEW v, NEW h, OwnsOnce(v, h), v = [z \in Vars |-> v[z]], NEW x \in Vars,
           NEW u, Unique(u), NEW new, NEW freed,
           \A b : (\E q, f : Holds(u, q, f, b)) <=>
                    b \in new \/ (b \notin freed /\ \E q, f : Holds(v[x], q, f, b)),
           \A b \in freed : \E q, f : Holds(v[x], q, f, b),
           new \cap h = {}
    PROVE  OwnsOnce([v EXCEPT ![x] = u], (h \cup new) \ freed)
<1>1. PICK w : w = [v EXCEPT ![x] = u]
  OBVIOUS
<1>2. w[x] = u /\ \A y \in Vars : y # x => w[y] = v[y]
  BY <1>1
<1>3. /\ \A b : b \in h <=> \E y \in Vars : \E q, f : Holds(v[y], q, f, b)
      /\ \A y, z \in Vars : \A q, f, r, g, b :
            Holds(v[y], q, f, b) /\ Holds(v[z], r, g, b) => y = z /\ q = r /\ f = g
  BY OwnsOnceIs
<1>4. ASSUME NEW b
      PROVE  b \in (h \cup new) \ freed <=> \E y \in Vars : \E q, f : Holds(w[y], q, f, b)
  <2>1. ASSUME b \in new PROVE b \notin freed /\ \E q, f : Holds(w[x], q, f, b)
    BY <1>2, <1>3, <2>1
  <2>2. ASSUME b \in h, b \notin freed PROVE \E y \in Vars : \E q, f : Holds(w[y], q, f, b)
    <3>1. PICK y \in Vars : \E q, f : Holds(v[y], q, f, b)
      BY <1>3, <2>2
    <3>2. CASE y = x
      BY <1>2, <2>2, <3>1, <3>2
    <3>3. CASE y # x
      BY <1>2, <3>1, <3>3
    <3> QED BY <3>2, <3>3
  <2>3. ASSUME NEW y \in Vars, NEW q, NEW f, Holds(w[y], q, f, b) PROVE b \in (h \cup new) \ freed
    <3>1. CASE y = x
      <4>1. b \in new \/ (b \notin freed /\ \E r, g : Holds(v[x], r, g, b))
        BY <1>2, <2>3, <3>1
      <4> QED BY <1>3, <2>1, <4>1
    <3>2. CASE y # x
      <4>1. Holds(v[y], q, f, b)
        BY <1>2, <2>3, <3>2
      <4>2. b \notin freed
        BY <1>3, <3>2, <4>1
      <4> QED BY <1>3, <4>1, <4>2
    <3> QED BY <3>1, <3>2
  <2> QED BY <2>1, <2>2, <2>3
<1>5. ASSUME NEW y \in Vars, NEW z \in Vars, NEW q, NEW f, NEW r, NEW g, NEW b,
             Holds(w[y], q, f, b), Holds(w[z], r, g, b)
      PROVE  y = z /\ q = r /\ f = g
  <2>1. ASSUME NEW z1 \in Vars, NEW q1, NEW f1, z1 # x, Holds(w[z1], q1, f1, b)
        PROVE  ~\E q2, f2 : Holds(u, q2, f2, b)
    <3>1. Holds(v[z1], q1, f1, b) /\ b \in h
      BY <1>2, <1>3, <2>1
    <3>2. ~\E q2, f2 : Holds(v[x], q2, f2, b)
      BY <1>3, <2>1, <3>1
    <3> QED BY <3>1, <3>2
  <2>2. CASE y = x /\ z = x
    BY <1>2, <1>5, <2>2 DEF Unique
  <2>3. CASE y # x /\ z # x
    BY <1>2, <1>3, <1>5, <2>3
  <2>4. CASE y = x /\ z # x
    BY <1>2, <1>5, <2>1, <2>4
  <2>5. CASE y # x /\ z = x
    BY <1>2, <1>5, <2>1, <2>5
  <2> QED BY <2>2, <2>3, <2>4, <2>5
<1>6. OwnsOnce(w, (h \cup new) \ freed)
  <2>1. PICK k : k = (h \cup new) \ freed
    OBVIOUS
  <2>2. \A b : b \in k <=> \E y \in Vars : \E q, f : Holds(w[y], q, f, b)
    BY <1>4, <2>1
  <2>3. \A y, z \in Vars : \A q, f, r, g, b :
          Holds(w[y], q, f, b) /\ Holds(w[z], r, g, b) => y = z /\ q = r /\ f = g
    BY <1>5
  <2>4. OwnsOnce(w, k)
    BY <2>2, <2>3, OwnsOnceIs, Zenon
  <2> QED BY <2>1, <2>4
<1> QED BY <1>1, <1>6

LEMMA SubHolds ==
    ASSUME NEW t, IsTree(t), NEW p \in DOMAIN t, NEW s, s = Sub(t, p), NEW r, NEW f, NEW b
    PROVE  Holds(s, r, f, b) <=> r \in Path /\ Holds(t, p \o r, f, b) /\ ~(r = << >> /\ f = "key")
<1>1. /\ IsFcn(s) /\ \A q : q \in DOMAIN s <=> q \in Path /\ p \o q \in DOMAIN t
      /\ s[<< >>] = [t[p] EXCEPT !.key = 0] /\ << >> \in DOMAIN s /\ << >> \in Path /\ p \o << >> = p
      /\ \A q \in DOMAIN s : q # << >> => s[q] = t[p \o q]
  BY SubFacts
<1>2. s[<< >>].key = 0 /\ s[<< >>].str = t[p].str
  BY <1>1, TreeFacts, NodeFacts, NullFacts
<1>3. CASE r = << >>
  BY <1>1, <1>2, <1>3 DEF Holds
<1>4. CASE r # << >>
  BY <1>1, <1>4 DEF Holds
<1> QED BY <1>3, <1>4

LEMMA WithHolds ==
    ASSUME NEW t, IsTree(t), NEW s, IsTree(s), s[<< >>].key = 0, NEW p \in Path,
           NEW key \in 0 .. MaxBuffers, NEW u, u = With(t, p, s, key), NEW q, NEW f, NEW b
    PROVE  Holds(u, q, f, b) <=>
             \/ ~IsPrefix(p, q) /\ Holds(t, q, f, b)
             \/ q = p /\ f = "key" /\ b = key /\ b # 0
             \/ q \in Path /\ IsPrefix(p, q) /\ Holds(s, Rest(p, q), f, b)
<1>1. /\ p \in DOMAIN u /\ u[p] = [s[<< >>] EXCEPT !.key = key]
      /\ \A r : r \in DOMAIN u <=>
            \/ r \in DOMAIN t /\ ~IsPrefix(p, r)
            \/ r \in Path /\ IsPrefix(p, r) /\ Rest(p, r) \in DOMAIN s
      /\ \A r \in DOMAIN t : ~IsPrefix(p, r) => u[r] = t[r]
      /\ \A r \in DOMAIN u : IsPrefix(p, r) /\ r # p => u[r] = s[Rest(p, r)]
  BY WithFacts
<1>2. u[p].key = key /\ u[p].str = s[<< >>].str /\ << >> \in DOMAIN s
  BY <1>1, TreeFacts, NodeFacts
<1>3. IsPrefix(p, p) /\ Rest(p, p) = << >>
  BY PrefixDef, LenFacts, RestFacts
<1>4. CASE q = p
  BY <1>1, <1>2, <1>3, <1>4 DEF Holds
<1>5. CASE q # p /\ IsPrefix(p, q)
  BY <1>1, <1>5 DEF Holds
<1>6. CASE ~IsPrefix(p, q)
  BY <1>1, <1>3, <1>6 DEF Holds
<1> QED BY <1>4, <1>5, <1>6

LEMMA AsHolds ==
    ASSUME NEW t, IsTree(t), NEW p \in DOMAIN t, NEW type \in Containers, NEW u, u = As(t, p, type),
           NEW q, NEW f, NEW b
    PROVE  Holds(u, q, f, b) <=> Holds(t, q, f, b)
<1>1. /\ DOMAIN u = DOMAIN t /\ \A r \in DOMAIN t : r # p => u[r] = t[r]
      /\ u[p].str = t[p].str /\ u[p].key = t[p].key
  BY AsFacts
<1> QED BY <1>1 DEF Holds

LEMMA InsertHolds ==
    ASSUME NEW t, NEW p, NEW n, n.str = 0, NEW u, u = Insert(t, p, n), NEW q, NEW f, NEW b
    PROVE  Holds(u, q, f, b) <=>
             \/ Holds(t, q, f, b)
             \/ p \notin DOMAIN t /\ q = p /\ f = "key" /\ b = n.key /\ b # 0
<1>1. /\ \A r : r \in DOMAIN u <=> r \in DOMAIN t \/ r = p
      /\ \A r \in DOMAIN t : u[r] = t[r]
      /\ p \notin DOMAIN t => u[p] = n
  BY InsertFacts
<1> QED BY <1>1 DEF Holds

LEMMA KeepHolds ==
    ASSUME NEW t, NEW gone, NEW u, u = Keep(t, gone), NEW q, NEW f, NEW b
    PROVE  Holds(u, q, f, b) <=> q \notin gone /\ Holds(t, q, f, b)
<1>1. /\ \A r : r \in DOMAIN u <=> r \in DOMAIN t /\ r \notin gone
      /\ \A r \in DOMAIN u : u[r] = t[r]
  BY KeepFacts
<1> QED BY <1>1 DEF Holds

\* Two variables change: y gets the new tree s, and x loses what is freed.
LEMMA TwoChange ==
    ASSUME NEW v, NEW h, OwnsOnce(v, h), v = [z \in Vars |-> v[z]], NEW x \in Vars, NEW y \in Vars, x # y,
           NEW s, Unique(s), NEW t, Unique(t), NEW new, NEW freed,
           \A b : (\E q, f : Holds(s, q, f, b)) <=> b \in new,
           \A b : (\E q, f : Holds(t, q, f, b)) <=> b \notin freed /\ \E q, f : Holds(v[x], q, f, b),
           \A b \in freed : \E q, f : Holds(v[x], q, f, b),
           new \cap h = {}
    PROVE  OwnsOnce([v EXCEPT ![x] = t, ![y] = s], ((h \cup new) \ Owned(v[y])) \ freed)
<1>1. PICK w, k, F : w = [v EXCEPT ![y] = s] /\ k = (h \cup new) \ F /\ F = Owned(v[y])
  OBVIOUS
<1>2. \A b : b \in F <=> \E q, f : Holds(v[y], q, f, b)
  BY <1>1, OwnedIsHeld
<1>3. OwnsOnce(w, k)
  <2>1. \A b : (\E q, f : Holds(s, q, f, b)) <=>
                 b \in new \/ (b \notin F /\ \E q, f : Holds(v[y], q, f, b))
    BY <1>2
  <2> QED BY <1>1, <1>2, <2>1, OneChanges
<1>4. /\ w = [z \in Vars |-> w[z]] /\ w[x] = v[x]
  BY <1>1
<1>5. \A b : b \in {} \/ (b \notin freed /\ \E q, f : Holds(w[x], q, f, b)) <=>
               b \notin freed /\ \E q, f : Holds(v[x], q, f, b)
  BY <1>4
<1>6. OwnsOnce([w EXCEPT ![x] = t], (k \cup {}) \ freed)
  BY <1>3, <1>4, <1>5, OneChanges
<1>7. [w EXCEPT ![x] = t] = [v EXCEPT ![x] = t, ![y] = s]
  BY <1>1
<1>8. (k \cup {}) \ freed = ((h \cup new) \ Owned(v[y])) \ freed
  BY <1>1
<1> QED BY <1>6, <1>7, <1>8

\* The copy of a tree differs from it in its buffers only, which are new.
LEMMA CopyFacts ==
    ASSUME NEW s, IsTree(s), s[<< >>].key = 0, HasRoom(Owners(s)), NEW c, c = Copy(s)
    PROVE  /\ IsTree(c) /\ c[<< >>].key = 0 /\ DOMAIN c = DOMAIN s
           /\ \A q \in DOMAIN s : c[q].type = s[q].type /\ c[q].num = s[q].num
           /\ Unique(c) /\ \A q, f, b : Holds(c, q, f, b) => b \in Free
<1>1. PICK d : d = NewBuffers(Owners(s))
  OBVIOUS
<1>2. d \in [Owners(s) -> Free] /\ \A o, u \in Owners(s) : d[o] = d[u] => o = u
  BY <1>1 DEF HasRoom, NewBuffers, Injection, IsInjective
<1>3. Free \subseteq 1 .. MaxBuffers /\ MaxBuffers \in Nat
  BY BoundsAssumption DEF Free
<1> DEFINE New(q, f) == IF <<q, f>> \in Owners(s) THEN d[<<q, f>>] ELSE 0
<1>4. c = [q \in DOMAIN s |-> [s[q] EXCEPT !.str = New(q, "str"), !.key = New(q, "key")]]
  BY <1>1 DEF Copy
<1>5. \A q, f : New(q, f) \in 0 .. MaxBuffers
  <2>0. \A b \in Free : b \in 0 .. MaxBuffers
    BY <1>3
  <2>1. \A o \in Owners(s) : d[o] \in 0 .. MaxBuffers
    BY <1>2, <2>0, Zenon
  <2>2. 0 \in 0 .. MaxBuffers
    BY <1>3
  <2> QED BY <2>1, <2>2, Zenon
<1>6. IsFcn(c) /\ DOMAIN c = DOMAIN s
  BY <1>4 DEF IsFcn
<1>7. ASSUME NEW q \in DOMAIN s
      PROVE  /\ c[q] \in NodeRecord /\ c[q].type = s[q].type /\ c[q].num = s[q].num
             /\ c[q].str = New(q, "str") /\ c[q].key = New(q, "key")
  <2>1. s[q] \in NodeRecord
    BY TreeFacts
  <2>2. PICK a, b : a = New(q, "str") /\ b = New(q, "key")
    OBVIOUS
  <2>3. c[q] = [s[q] EXCEPT !.str = a, !.key = b] /\ a \in 0 .. MaxBuffers /\ b \in 0 .. MaxBuffers
    BY <1>4, <1>5, <2>2
  <2>4. c[q] \in NodeRecord /\ c[q].type = s[q].type /\ c[q].num = s[q].num /\ c[q].str = a /\ c[q].key = b
    BY <2>1, <2>3 DEF NodeRecord
  <2> QED BY <2>2, <2>4
<1>8. \A q \in DOMAIN s, f \in {"str", "key"} : <<q, f>> \in Owners(s) <=> s[q][f] # 0
  <2> SUFFICES ASSUME NEW q \in DOMAIN s, NEW f \in {"str", "key"}
               PROVE  <<q, f>> \in Owners(s) <=> s[q][f] # 0
    OBVIOUS
  <2>1. <<q, f>>[1] = q /\ <<q, f>>[2] = f /\ <<q, f>> \in (DOMAIN s) \X {"str", "key"}
    OBVIOUS
  <2> QED BY <2>1 DEF Owners, Buffer
<1>9. \A q \in DOMAIN s : s[q].key = 0 => c[q].key = 0
  BY <1>7, <1>8
<1>10. IsTree(c)
  <2>1. << >> \in DOMAIN c /\ DOMAIN c \subseteq Path
    BY <1>6, TreeFacts
  <2>2. ASSUME NEW q \in DOMAIN c PROVE Attached(c, q)
    <3>1. Attached(s, q) /\ q \in DOMAIN s
      BY <1>6, TreeFacts
    <3> QED BY <1>6, <1>7, <1>9, <3>1 DEF Attached
  <2> QED BY <1>6, <1>7, <2>1, <2>2, IsTreeIf
<1> HIDE DEF New
<1>11. ASSUME NEW q, NEW f, NEW b, Holds(c, q, f, b)
       PROVE  <<q, f>> \in Owners(s) /\ b = d[<<q, f>>]
  <2>1. q \in DOMAIN s /\ b = New(q, f) /\ b # 0
    BY <1>6, <1>7, <1>11 DEF Holds
  <2> QED BY <2>1 DEF New
<1>12. Unique(c)
  <2> SUFFICES ASSUME NEW q, NEW f, NEW r, NEW g, NEW b, Holds(c, q, f, b), Holds(c, r, g, b)
               PROVE  q = r /\ f = g
    BY DEF Unique
  <2>1. PICK o, u : o = <<q, f>> /\ u = <<r, g>>
    OBVIOUS
  <2>2. o \in Owners(s) /\ u \in Owners(s) /\ d[o] = b /\ d[u] = b
    BY <1>11, <2>1
  <2>3. o = u
    BY <1>2, <2>2
  <2> QED BY <2>1, <2>3
<1>13. ASSUME NEW q, NEW f, NEW b, Holds(c, q, f, b) PROVE b \in Free
  <2>1. PICK o : o = <<q, f>>
    OBVIOUS
  <2>2. o \in Owners(s) /\ d[o] = b
    BY <1>11, <1>13, <2>1
  <2> QED BY <1>2, <2>2
<1>14. << >> \in DOMAIN s
  BY TreeFacts
<1> QED BY <1>6, <1>7, <1>9, <1>10, <1>12, <1>13, <1>14

\* A value made from a scalar owns nothing but its string.
LEMMA ConstructFacts ==
    ASSUME NEW n \in Scalars, n.str # 0 => Free # {}, NEW c, c = Construct(n)
    PROVE  /\ IsTree(c) /\ c[<< >>].key = 0
           /\ Unique(c) /\ \A q, f, b : Holds(c, q, f, b) => b \in Free
<1>1. PICK m : m = [n EXCEPT !.str = IF n.str = 0 THEN 0 ELSE NewBuffer]
  OBVIOUS
<1>2. c = [p \in {<< >>} |-> m]
  BY <1>1 DEF Construct, Single
<1>3. Free \subseteq 1 .. MaxBuffers /\ MaxBuffers \in Nat
  BY BoundsAssumption DEF Free
<1>4. n.str # 0 => NewBuffer \in Free
  BY DEF NewBuffer
<1>5. n.type \in ValueTypes /\ n.num \in Int /\ n.key = 0 /\ n.str \in {0, 1}
      /\ n = [type |-> n.type, num |-> n.num, str |-> n.str, key |-> n.key]
  BY ScalarsAssumption
<1>6. m \in NodeRecord /\ m.key = 0 /\ (m.str # 0 => m.str \in Free)
  <2>1. PICK a : a = IF n.str = 0 THEN 0 ELSE NewBuffer
    OBVIOUS
  <2>2. a \in 0 .. MaxBuffers /\ (a # 0 => a \in Free)
    BY <1>3, <1>4, <2>1
  <2>3. m = [type |-> n.type, num |-> n.num, str |-> a, key |-> n.key]
    BY <1>1, <1>5, <2>1
  <2> QED BY <1>3, <1>5, <2>2, <2>3 DEF NodeRecord
<1>7. IsFcn(c) /\ DOMAIN c = {<< >>} /\ c[<< >>] = m
  BY <1>2 DEF IsFcn
<1>8. << >> \in Path
  BY DEF Path
<1>9. IsTree(c)
  <2>1. Attached(c, << >>)
    BY <1>6, <1>7 DEF Attached
  <2> QED BY <1>6, <1>7, <1>8, <2>1, IsTreeIf
<1>10. \A q, f, b : Holds(c, q, f, b) => q = << >> /\ f = "str" /\ b = m.str /\ b # 0
  BY <1>6, <1>7 DEF Holds
<1> QED BY <1>6, <1>7, <1>9, <1>10 DEF Unique

-----------------------------------------------------------------------------
\* Containers

LEMMA LeastElement ==
    ASSUME NEW X \in SUBSET Nat, X # {}
    PROVE  \E m \in X : \A k \in X : m <= k
<1> DEFINE R == OpToRel(<, Nat)
<1>1. \A x, y \in Nat : x < y => <<x, y>> \in R
  BY DEF OpToRel
<1>2. IsWellFoundedOn(R, Nat)
  BY NatLessThanWellFounded
<1> HIDE DEF R
<1>3. PICK m \in X : \A k \in X : ~(<<k, m>> \in R)
  BY <1>2, WFMin
<1>4. \A k \in X : ~(k < m)
  BY <1>1, <1>3
<1> QED BY <1>4

LEMMA MaxFacts ==
    ASSUME NEW n \in Nat, NEW X \in SUBSET (0 .. n), X # {}
    PROVE  Max(X) \in X /\ \A k \in X : k <= Max(X)
<1> DEFINE Y == {n - k : k \in X}
<1>1. Y \in SUBSET Nat /\ Y # {}
  <2>1. \A k \in X : n - k \in Nat
    OBVIOUS
  <2>2. PICK k : k \in X
    OBVIOUS
  <2>3. n - k \in Y
    BY <2>2
  <2> QED BY <2>1, <2>3
<1>2. PICK m \in Y : \A k \in Y : m <= k
  BY <1>1, LeastElement
<1>3. PICK j \in X : m = n - j
  BY <1>2
<1>4. \A k \in X : j >= k
  BY <1>2, <1>3
<1> QED BY <1>3, <1>4 DEF Max

\* The keys of a container are the last names of the paths behind it.
LEMMA KeysFacts ==
    ASSUME NEW t, IsTree(t), NEW p \in DOMAIN t, NEW k
    PROVE  k \in Keys(t, p) <=> k \in Text /\ Append(p, k) \in DOMAIN t
<1>1. p \in Path /\ DOMAIN t \subseteq Path
  BY TreeFacts
<1>2. ASSUME NEW q \in DOMAIN t, Len(q) = Len(p) + 1, IsPrefix(p, q)
      PROVE  Last(q) \in Text /\ Append(p, Last(q)) = q
  <2>1. q \in Path /\ Len(q) \in Nat /\ Len(p) \in Nat /\ q # << >> /\ p # q
    BY <1>1, <1>2, LenFacts
  <2>2. /\ Front(q) \in Path /\ Len(Front(q)) = Len(p) /\ Last(q) \in Text
        /\ Append(Front(q), Last(q)) = q
    BY <1>2, <2>1, FrontFacts
  <2>3. IsPrefix(p, Front(q))
    BY <1>1, <1>2, <2>1, FrontUnder
  <2>4. \A i \in 1 .. Len(p) : p[i] = Front(q)[i]
    BY <1>1, <2>2, <2>3, PrefixDef
  <2>5. p = Front(q)
    BY <1>1, <2>2, <2>4, PathsAgree
  <2> QED BY <2>2, <2>5
<1>3. ASSUME k \in Text, Append(p, k) \in DOMAIN t PROVE k \in Keys(t, p)
  <2>1. PICK q : q = Append(p, k)
    OBVIOUS
  <2>2. q \in DOMAIN t /\ Last(q) = k /\ IsPrefix(p, q) /\ q # << >> /\ Front(q) = p /\ q \in Path
    BY <1>1, <1>3, <2>1, BranchFacts
  <2>3. Len(q) = Len(p) + 1
    <3>1. Len(p) = Len(q) - 1
      BY <2>2, FrontFacts
    <3> QED BY <2>2, <3>1, LenFacts
  <2> QED BY <2>2, <2>3 DEF Keys
<1>4. ASSUME k \in Keys(t, p) PROVE k \in Text /\ Append(p, k) \in DOMAIN t
  <2>1. PICK q \in DOMAIN t : Len(q) = Len(p) + 1 /\ IsPrefix(p, q) /\ k = Last(q)
    BY <1>4 DEF Keys
  <2> QED BY <1>2, <2>1
<1> QED BY <1>3, <1>4

\* size() of an array is behind its last element, and an empty value has size 0.
LEMMA SizeFacts ==
    ASSUME NEW t, IsTree(t), NEW p \in DOMAIN t, t[p].type \in {"null", "array"}
    PROVE  /\ size(t, p) \in 0 .. MaxIndex + 1
           /\ \A k \in Text : Append(p, k) \in DOMAIN t => k \in Elements /\ IndexOf(k) < size(t, p)
<1>1. p \in Path /\ MaxIndex \in Nat
  BY TreeFacts, BoundsAssumption
<1>2. ASSUME NEW k \in Text, Append(p, k) \in DOMAIN t
      PROVE  k \in Elements /\ IndexOf(k) \in 0 .. MaxIndex /\ t[p].type = "array"
  <2>1. PICK q : q = Append(p, k)
    OBVIOUS
  <2>2. q \in DOMAIN t /\ q # << >> /\ Front(q) = p /\ Last(q) = k
    BY <1>1, <1>2, <2>1, BranchFacts
  <2>3. t[p].type = "array" /\ k \in Elements
    BY <2>2, ParentFacts DEF Containers
  <2> QED BY <2>3, KeyFacts
<1>3. CASE Keys(t, p) = {}
  <2>1. size(t, p) = 0
    BY <1>3, FS_EmptySet DEF size
  <2> QED BY <1>1, <1>3, <2>1, KeysFacts
<1>4. CASE Keys(t, p) # {}
  <2> DEFINE X == {IndexOf(k) : k \in Keys(t, p)}
  <2>1. \A k \in Keys(t, p) : IndexOf(k) \in 0 .. MaxIndex /\ t[p].type = "array"
    BY <1>2, KeysFacts
  <2>2. X \in SUBSET (0 .. MaxIndex) /\ X # {}
    BY <1>4, <2>1
  <2>3. size(t, p) = Max(X) + 1
    BY <1>4, <2>1 DEF size
  <2> HIDE DEF X
  <2>4. Max(X) \in X /\ \A k \in X : k <= Max(X)
    BY <1>1, <2>2, MaxFacts
  <2>5. Max(X) \in 0 .. MaxIndex
    BY <2>2, <2>4
  <2>6. size(t, p) \in 0 .. MaxIndex + 1
    BY <1>1, <2>3, <2>5
  <2>7. ASSUME NEW k \in Text, Append(p, k) \in DOMAIN t PROVE IndexOf(k) < size(t, p)
    <3>1. IndexOf(k) \in X /\ IndexOf(k) \in 0 .. MaxIndex
      BY <1>2, <2>7, KeysFacts DEF X
    <3> QED BY <2>3, <2>4, <2>5, <3>1
  <2> QED BY <1>2, <2>6, <2>7
<1> QED BY <1>3, <1>4

LEMMA IndexedFacts ==
    ASSUME NEW t, IsTree(t), NEW p \in DOMAIN t, t[p].type \in {"null", "array"},
           NEW i \in 0 .. MaxIndex, NEW u, u = Indexed(t, p, i)
    PROVE  /\ IsTree(u) /\ u[p].type = "array" /\ Append(p, IndexKey(i)) \in DOMAIN u
           /\ \A q : q \in DOMAIN u <=> q \in DOMAIN t \/ q = Append(p, IndexKey(i))
           /\ \A q \in DOMAIN t : t[q].type \in {"null", u[q].type}
           /\ \A q, f, b : Holds(u, q, f, b) <=> Holds(t, q, f, b)
<1>1. PICK a, e : a = As(t, p, "array") /\ e = Append(p, IndexKey(i))
  OBVIOUS
<1>2. u = Insert(a, e, Null)
  BY <1>1 DEF Indexed
<1>3. IsTree(a) /\ "array" \in Containers
  BY <1>1, AsIsTree DEF Containers
<1>4. /\ DOMAIN a = DOMAIN t /\ a[p].type = "array"
      /\ \A q \in DOMAIN t : q # p => a[q] = t[q]
  BY <1>1, <1>3, AsFacts
<1>5. e \in Path /\ e # << >> /\ Front(e) = p /\ Last(e) = IndexKey(i) /\ IndexKey(i) \in Elements
  BY <1>1, TreeFacts, BranchFacts, KeyFacts
<1>6. Grafts(a, e, Null.key)
  BY <1>4, <1>5, NullFacts DEF Grafts
<1>7. IsTree(u)
  BY <1>2, <1>3, <1>5, <1>6, NullFacts, InsertIsTree
<1>8. /\ \A q : q \in DOMAIN u <=> q \in DOMAIN a \/ q = e
      /\ \A q \in DOMAIN a : u[q] = a[q]
  BY <1>2, InsertFacts
<1>9. \A q, f, b : Holds(u, q, f, b) <=> Holds(t, q, f, b)
  <2>1. \A q, f, b : Holds(u, q, f, b) <=> Holds(a, q, f, b)
    BY <1>2, NullFacts, InsertHolds
  <2>2. \A q, f, b : Holds(a, q, f, b) <=> Holds(t, q, f, b)
    BY <1>1, <1>3, AsHolds
  <2> QED BY <2>1, <2>2
<1>10. \A q \in DOMAIN t : t[q].type \in {"null", u[q].type}
  BY <1>4, <1>8
<1> QED BY <1>1, <1>4, <1>7, <1>8, <1>9, <1>10

LEMMA ResolvedFacts ==
    ASSUME NEW t, IsTree(t), NEW p \in DOMAIN t, t[p].type \in {"null", "object"},
           NEW name \in Members, NEW key \in 0 .. MaxBuffers, NEW u, u = Resolved(t, p, name, key)
    PROVE  /\ IsTree(u) /\ u[p].type = "object" /\ Append(p, name) \in DOMAIN u
           /\ \A q : q \in DOMAIN u <=> q \in DOMAIN t \/ q = Append(p, name)
           /\ \A q \in DOMAIN t : t[q].type \in {"null", u[q].type}
           /\ \A q, f, b : Holds(u, q, f, b) <=>
                 \/ Holds(t, q, f, b)
                 \/ Append(p, name) \notin DOMAIN t /\ q = Append(p, name) /\ f = "key" /\ b = key /\ b # 0
<1>1. PICK a, e, n : a = As(t, p, "object") /\ e = Append(p, name) /\ n = [Null EXCEPT !.key = key]
  OBVIOUS
<1>2. u = Insert(a, e, n)
  BY <1>1 DEF Resolved
<1>3. IsTree(a) /\ "object" \in Containers
  BY <1>1, AsIsTree DEF Containers
<1>4. /\ DOMAIN a = DOMAIN t /\ a[p].type = "object"
      /\ \A q \in DOMAIN t : q # p => a[q] = t[q]
  BY <1>1, <1>3, AsFacts
<1>5. e \in Path /\ e # << >> /\ Front(e) = p /\ Last(e) = name
  BY <1>1, TreeFacts, BranchFacts, KeyFacts
<1>6. n \in NodeRecord /\ n.key = key /\ n.str = 0
  BY <1>1, NullFacts, NodeFacts
<1>7. Grafts(a, e, n.key)
  BY <1>4, <1>5, <1>6 DEF Grafts
<1>8. IsTree(u)
  BY <1>2, <1>3, <1>5, <1>6, <1>7, InsertIsTree
<1>9. /\ \A q : q \in DOMAIN u <=> q \in DOMAIN a \/ q = e
      /\ \A q \in DOMAIN a : u[q] = a[q]
  BY <1>2, InsertFacts
<1>10. \A q, f, b : Holds(u, q, f, b) <=>
          Holds(t, q, f, b) \/ (e \notin DOMAIN t /\ q = e /\ f = "key" /\ b = key /\ b # 0)
  <2>1. \A q, f, b : Holds(u, q, f, b) <=>
           Holds(a, q, f, b) \/ (e \notin DOMAIN a /\ q = e /\ f = "key" /\ b = n.key /\ b # 0)
    BY <1>2, <1>6, InsertHolds
  <2>2. \A q, f, b : Holds(a, q, f, b) <=> Holds(t, q, f, b)
    BY <1>1, <1>3, AsHolds
  <2> QED BY <1>4, <1>6, <2>1, <2>2
<1>11. \A q \in DOMAIN t : t[q].type \in {"null", u[q].type}
  BY <1>4, <1>9
<1>12. u[p].type = "object" /\ e \in DOMAIN u /\ \A q : q \in DOMAIN u <=> q \in DOMAIN t \/ q = e
  BY <1>4, <1>9
<1>13. e = Append(p, name)
  BY <1>1
<1>14. /\ Append(p, name) \in DOMAIN u
       /\ \A q : q \in DOMAIN u <=> q \in DOMAIN t \/ q = Append(p, name)
  BY <1>12, <1>13
<1>15. \A q, f, b : Holds(u, q, f, b) <=>
          \/ Holds(t, q, f, b)
          \/ Append(p, name) \notin DOMAIN t /\ q = Append(p, name) /\ f = "key" /\ b = key /\ b # 0
  BY <1>10, <1>13
<1> QED BY <1>8, <1>11, <1>12, <1>14, <1>15

\* What is on the way to a value of a tree is in the tree.
LEMMA PrefixClosed ==
    ASSUME NEW t, IsTree(t), NEW p \in Path, NEW q \in DOMAIN t, IsPrefix(p, q)
    PROVE  p \in DOMAIN t
<1> DEFINE X == {n \in Nat : \E r \in DOMAIN t : IsPrefix(p, r) /\ Len(r) = n}
<1>1. DOMAIN t \subseteq Path
  BY TreeFacts
<1>2. Len(q) \in X
  BY <1>1, LenFacts
<1>3. PICK m \in X : \A k \in X : m <= k
  BY <1>2, LeastElement
<1>4. PICK r \in DOMAIN t : IsPrefix(p, r) /\ Len(r) = m
  BY <1>3
<1>5. ASSUME r # p PROVE FALSE
  <2>1. r \in Path /\ Len(p) \in Nat /\ Len(r) \in Nat /\ Len(p) <= Len(r)
    BY <1>1, <1>4, LenFacts, PrefixDef
  <2>2. r # << >>
    BY <1>5, <2>1, LenFacts
  <2>3. Front(r) \in DOMAIN t /\ IsPrefix(p, Front(r)) /\ Len(Front(r)) = m - 1 /\ m - 1 \in Nat
    BY <1>4, <1>5, <2>1, <2>2, ParentFacts, FrontUnder, FrontFacts
  <2>4. m - 1 \in X
    BY <2>3
  <2> QED BY <1>3, <2>3, <2>4
<1> QED BY <1>4, <1>5

\* A tree t is changed to u: what u owns is new or was owned and is not freed.
Trades(t, u, new, freed) ==
    /\ IsTree(u) /\ Unique(u)
    /\ \A b : (\E q, f : Holds(u, q, f, b)) <=>
              b \in new \/ (b \notin freed /\ \E q, f : Holds(t, q, f, b))
    /\ \A b \in freed : \E q, f : Holds(t, q, f, b)

Apart(s, t) == \A q, f, r, g, b : ~(Holds(s, q, f, b) /\ Holds(t, r, g, b))

\* The value at p becomes s: what s owns comes, what was below p goes, and the
\* name stays.
LEMMA WithOwns ==
    ASSUME NEW t, IsTree(t), Unique(t), NEW p \in DOMAIN t, NEW old, old = Sub(t, p),
           NEW s, IsTree(s), s[<< >>].key = 0, Unique(s), Apart(s, t),
           NEW u, u = With(t, p, s, t[p].key)
    PROVE  Trades(t, u, Owned(s), Owned(old))
<1>1. p \in Path /\ DOMAIN t \subseteq Path /\ t[p] \in NodeRecord /\ Attached(t, p)
  BY TreeFacts
<1>2. t[p].key \in 0 .. MaxBuffers
  BY <1>1 DEF NodeRecord
<1>3. Grafts(t, p, t[p].key)
  BY <1>1, <1>2 DEF Attached, Grafts
<1>4. IsTree(u)
  BY <1>1, <1>3, WithIsTree
<1> DEFINE H(q, f, b) == \/ ~IsPrefix(p, q) /\ Holds(t, q, f, b)
                         \/ q = p /\ f = "key" /\ Holds(t, p, "key", b)
           N(q, f, b) == q \in Path /\ IsPrefix(p, q) /\ Holds(s, Rest(p, q), f, b)
<1>5. \A q, f, b : Holds(u, q, f, b) <=> H(q, f, b) \/ N(q, f, b)
  <2> SUFFICES ASSUME NEW q, NEW f, NEW b PROVE Holds(u, q, f, b) <=> H(q, f, b) \/ N(q, f, b)
    OBVIOUS
  <2>1. Holds(u, q, f, b) <=>
          \/ ~IsPrefix(p, q) /\ Holds(t, q, f, b)
          \/ q = p /\ f = "key" /\ b = t[p].key /\ b # 0
          \/ q \in Path /\ IsPrefix(p, q) /\ Holds(s, Rest(p, q), f, b)
    BY <1>1, <1>2, WithHolds
  <2>2. Holds(t, p, "key", b) <=> b = t[p].key /\ b # 0
    BY DEF Holds
  <2> QED BY <2>1, <2>2
<1>6. \A q, f, b : H(q, f, b) => Holds(t, q, f, b)
  OBVIOUS
<1>7. \A q, f, b : N(q, f, b) => Holds(s, Rest(p, q), f, b) /\ q = p \o Rest(p, q)
  BY <1>1, RestFacts
<1>8. \A r, f, b : Holds(s, r, f, b) => N(p \o r, f, b)
  <2>1. \A r, f, b : Holds(s, r, f, b) => r \in Path
    BY TreeFacts DEF Holds
  <2> QED BY <1>1, <2>1, CatFacts
<1>9. ASSUME NEW b
      PROVE  b \in Owned(old) <=> \E r \in Path : \E f : Holds(t, p \o r, f, b) /\ ~(r = << >> /\ f = "key")
  BY OwnedIsHeld, SubHolds
<1>10. ASSUME NEW q, NEW f, NEW b, Holds(t, q, f, b) PROVE H(q, f, b) <=> b \notin Owned(old)
  <2>1. ASSUME NEW r \in Path, NEW g, Holds(t, p \o r, g, b), ~(r = << >> /\ g = "key"), H(q, f, b)
        PROVE  FALSE
    <3>1. q = p \o r /\ f = g
      BY <1>10, <2>1 DEF Unique
    <3>2. IsPrefix(p, q) /\ (q = p <=> r = << >>)
      BY <1>1, <3>1, CatFacts
    <3> QED BY <2>1, <3>1, <3>2
  <2>2. ASSUME ~H(q, f, b) PROVE b \in Owned(old)
    <3>1. IsPrefix(p, q) /\ ~(q = p /\ f = "key")
      BY <1>10, <2>2
    <3>2. q \in Path
      BY <1>1, <1>10 DEF Holds
    <3>3. Rest(p, q) \in Path /\ p \o Rest(p, q) = q /\ (Rest(p, q) = << >> <=> q = p)
      BY <1>1, <3>1, <3>2, RestFacts
    <3> QED BY <1>9, <1>10, <3>1, <3>3
  <2> QED BY <1>9, <2>1, <2>2
<1> HIDE DEF H, N
<1>11. Unique(u)
  <2> SUFFICES ASSUME NEW q, NEW f, NEW r, NEW g, NEW b, Holds(u, q, f, b), Holds(u, r, g, b)
               PROVE  q = r /\ f = g
    BY DEF Unique
  <2>1. (H(q, f, b) \/ N(q, f, b)) /\ (H(r, g, b) \/ N(r, g, b))
    BY <1>5
  <2>2. CASE H(q, f, b) /\ H(r, g, b)
    BY <1>6, <2>2 DEF Unique
  <2>3. CASE N(q, f, b) /\ N(r, g, b)
    <3>1. Holds(s, Rest(p, q), f, b) /\ Holds(s, Rest(p, r), g, b)
      BY <1>7, <2>3
    <3>2. Rest(p, q) = Rest(p, r) /\ f = g
      BY <3>1 DEF Unique
    <3>3. q = p \o Rest(p, q) /\ r = p \o Rest(p, r)
      BY <1>7, <2>3
    <3> QED BY <3>2, <3>3
  <2> QED BY <1>6, <1>7, <2>1, <2>2, <2>3 DEF Apart
<1>12. ASSUME NEW b
       PROVE  (\E q, f : Holds(u, q, f, b)) <=>
                b \in Owned(s) \/ (b \notin Owned(old) /\ \E q, f : Holds(t, q, f, b))
  <2>1. b \in Owned(s) <=> \E q, f : N(q, f, b)
    BY <1>7, <1>8, OwnedIsHeld
  <2>2. (\E q, f : H(q, f, b)) <=> b \notin Owned(old) /\ \E q, f : Holds(t, q, f, b)
    BY <1>6, <1>10
  <2> QED BY <1>5, <2>1, <2>2
<1>13. \A b \in Owned(old) : \E q, f : Holds(t, q, f, b)
  BY <1>9
<1> QED BY <1>4, <1>11, <1>12, <1>13, Zenon DEF Trades

-----------------------------------------------------------------------------
\* Steps

Inv == TypeOK /\ OneOwner

LEMMA InvFacts ==
    ASSUME Inv
    PROVE  /\ vals = [x \in Vars |-> vals[x]] /\ OwnsOnce(vals, heap)
           /\ \A x \in Vars : IsTree(vals[x]) /\ Unique(vals[x])
           /\ \A x \in Vars : \A q, f, b : Holds(vals[x], q, f, b) => b \in heap /\ b \notin Free
           /\ Free \subseteq 1 .. MaxBuffers /\ Free \cap heap = {} /\ heap \subseteq 1 .. MaxBuffers
<1>1. OwnsOnce(vals, heap) /\ vals = [x \in Vars |-> vals[x]] /\ \A x \in Vars : IsTree(vals[x])
  BY DEF Inv, OneOwner, OwnsOnce, TypeOK
<1>2. /\ \A b : b \in heap <=> \E x \in Vars : \E q, f : Holds(vals[x], q, f, b)
      /\ \A x, y \in Vars : \A q, f, r, g, b :
            Holds(vals[x], q, f, b) /\ Holds(vals[y], r, g, b) => x = y /\ q = r /\ f = g
  BY <1>1, OwnsOnceIs
<1>3. ASSUME NEW x \in Vars PROVE Unique(vals[x])
  <2> SUFFICES ASSUME NEW q, NEW f, NEW r, NEW g, NEW b, Holds(vals[x], q, f, b), Holds(vals[x], r, g, b)
               PROVE  q = r /\ f = g
    BY DEF Unique
  <2> QED BY <1>2
<1>4. Free \subseteq 1 .. MaxBuffers /\ Free \cap heap = {}
  BY DEF Free
<1>5. heap \subseteq 1 .. MaxBuffers
  BY DEF Inv, TypeOK
<1> QED BY <1>1, <1>2, <1>3, <1>4, <1>5

\* A value that shares nothing with the variables.
IsNew(s) ==
    /\ IsTree(s) /\ s[<< >>].key = 0 /\ Unique(s)
    /\ \A q, f, b : Holds(s, q, f, b) => b \in Free

LEMMA NewFacts ==
    ASSUME Inv, NEW s, IsNew(s), NEW x \in Vars
    PROVE  Apart(s, vals[x]) /\ Owned(s) \in SUBSET Free
<1>1. Apart(s, vals[x])
  BY InvFacts DEF Apart, IsNew
<1>2. Owned(s) \in SUBSET Free
  BY OwnedIsHeld DEF IsNew
<1> QED BY <1>1, <1>2

\* What an operation on one variable has to show.
LEMMA OneStep ==
    ASSUME Inv, NEW x \in Vars, NEW u, NEW new \in SUBSET Free, NEW freed,
           Trades(vals[x], u, new, freed),
           vals' = [vals EXCEPT ![x] = u], heap' = (heap \cup new) \ freed, aborted' \in BOOLEAN
    PROVE  Inv'
<1>1. /\ vals = [z \in Vars |-> vals[z]] /\ OwnsOnce(vals, heap)
      /\ \A z \in Vars : IsTree(vals[z])
      /\ Free \subseteq 1 .. MaxBuffers /\ Free \cap heap = {} /\ heap \subseteq 1 .. MaxBuffers
  BY InvFacts
<1>2. OwnsOnce(vals', heap')
  <2>1. new \cap heap = {}
    BY <1>1
  <2> QED BY <1>1, <2>1, OneChanges DEF Trades
<1>3. vals' = [z \in Vars |-> vals'[z]] /\ \A z \in Vars : IsTree(vals'[z])
  BY <1>1 DEF Trades
<1>4. heap' \subseteq 1 .. MaxBuffers
  BY <1>1
<1> QED BY <1>2, <1>3, <1>4 DEF Inv, TypeOK, OneOwner, OwnsOnce

LEMMA AssignStep ==
    ASSUME Inv, NEW x \in Vars, NEW p \in DOMAIN vals[x], NEW s, IsNew(s), Assign(x, p, s)
    PROVE  Inv'
<1>1. PICK t, old, u : t = vals[x] /\ old = Sub(t, p) /\ u = With(t, p, s, t[p].key)
  OBVIOUS
<1>2. /\ vals' = [vals EXCEPT ![x] = u] /\ heap' = (heap \cup Owned(s)) \ Owned(old)
      /\ aborted' = aborted
  BY <1>1 DEF Assign
<1>3. IsTree(t) /\ Unique(t) /\ p \in DOMAIN t /\ Apart(s, t)
  BY <1>1, InvFacts, NewFacts
<1>4. IsTree(s) /\ s[<< >>].key = 0 /\ Unique(s)
  BY DEF IsNew
<1>5. Trades(vals[x], u, Owned(s), Owned(old))
  BY <1>1, <1>3, <1>4, WithOwns
<1>6. aborted' \in BOOLEAN /\ Owned(s) \in SUBSET Free
  BY <1>2, NewFacts DEF Inv, TypeOK
<1> QED BY <1>2, <1>5, <1>6, OneStep

LEMMA CopyIsNew ==
    ASSUME Inv, NEW y \in Vars, NEW q \in DOMAIN vals[y], HasRoom(Owners(Sub(vals[y], q)))
    PROVE  IsNew(Copy(Sub(vals[y], q)))
<1>1. PICK s, c : s = Sub(vals[y], q) /\ c = Copy(s)
  OBVIOUS
<1>2. IsTree(vals[y])
  BY InvFacts
<1>3. IsTree(s) /\ s[<< >>].key = 0 /\ HasRoom(Owners(s))
  BY <1>1, <1>2, SubIsTree
<1>4. IsTree(c) /\ c[<< >>].key = 0 /\ Unique(c) /\ \A r, f, b : Holds(c, r, f, b) => b \in Free
  BY <1>1, <1>3, CopyFacts
<1> QED BY <1>1, <1>4 DEF IsNew

LEMMA AssignScalarStep ==
    ASSUME Inv, NEW x \in Vars, NEW p \in DOMAIN vals[x], NEW n \in Scalars, AssignScalar(x, p, n)
    PROVE  Inv'
<1>1. PICK c : c = Construct(n)
  OBVIOUS
<1>2. (n.str # 0 => Free # {}) /\ Assign(x, p, c)
  BY <1>1 DEF AssignScalar
<1>3. IsNew(c)
  BY <1>1, <1>2, ConstructFacts DEF IsNew
<1> QED BY <1>2, <1>3, AssignStep

LEMMA AssignValueStep ==
    ASSUME Inv, NEW x \in Vars, NEW p \in DOMAIN vals[x], NEW y \in Vars, NEW q \in DOMAIN vals[y],
           AssignValue(x, p, y, q)
    PROVE  Inv'
<1>1. HasRoom(Owners(Sub(vals[y], q))) /\ Assign(x, p, Copy(Sub(vals[y], q)))
  BY DEF AssignValue
<1> QED BY <1>1, CopyIsNew, AssignStep

LEMMA SwapStep ==
    ASSUME Inv, NEW x \in Vars, NEW y \in Vars, swap(x, y)
    PROVE  Inv'
<1>1. /\ x # y /\ vals' = [vals EXCEPT ![x] = vals[y], ![y] = vals[x]]
      /\ heap' = heap /\ aborted' = aborted
  BY DEF swap
<1>2. vals = [z \in Vars |-> vals[z]] /\ OwnsOnce(vals, heap) /\ \A z \in Vars : IsTree(vals[z])
  BY InvFacts
<1>3. PICK v, w, h : v = vals /\ w = vals' /\ h = heap
  OBVIOUS
<1>4. w = [z \in Vars |-> w[z]] /\ w[x] = v[y] /\ w[y] = v[x]
      /\ \A z \in Vars : z # x /\ z # y => w[z] = v[z]
  BY <1>1, <1>2, <1>3
<1>5. /\ \A b : b \in h <=> \E z \in Vars : \E q, f : Holds(v[z], q, f, b)
      /\ \A z1, z2 \in Vars : \A q, f, r, g, b :
            Holds(v[z1], q, f, b) /\ Holds(v[z2], r, g, b) => z1 = z2 /\ q = r /\ f = g
  <2>1. OwnsOnce(v, h)
    BY <1>2, <1>3
  <2> QED BY <2>1, OwnsOnceIs
<1>6. ASSUME NEW b PROVE b \in h <=> \E z \in Vars : \E q, f : Holds(w[z], q, f, b)
  <2>1. ASSUME NEW z \in Vars PROVE \E z1 \in Vars : w[z1] = v[z]
    BY <1>4
  <2>2. ASSUME NEW z \in Vars PROVE \E z1 \in Vars : v[z1] = w[z]
    BY <1>4
  <2>3. ASSUME b \in h PROVE \E z \in Vars : \E q, f : Holds(w[z], q, f, b)
    <3>1. PICK z \in Vars : \E q, f : Holds(v[z], q, f, b)
      BY <1>5, <2>3
    <3>2. PICK z1 \in Vars : w[z1] = v[z]
      BY <2>1
    <3> QED BY <3>1, <3>2
  <2>4. ASSUME NEW z \in Vars, NEW q, NEW f, Holds(w[z], q, f, b) PROVE b \in h
    <3>1. PICK z1 \in Vars : v[z1] = w[z]
      BY <2>2
    <3> QED BY <1>5, <2>4, <3>1
  <2> QED BY <2>3, <2>4
<1>7. ASSUME NEW z1 \in Vars, NEW z2 \in Vars, NEW q, NEW f, NEW r, NEW g, NEW b,
             Holds(w[z1], q, f, b), Holds(w[z2], r, g, b)
      PROVE  z1 = z2 /\ q = r /\ f = g
  <2> DEFINE At1(z) == IF z = x THEN y ELSE IF z = y THEN x ELSE z
  <2>1. \A z \in Vars : At1(z) \in Vars /\ w[z] = v[At1(z)]
    BY <1>4
  <2>2. At1(z1) = At1(z2) /\ q = r /\ f = g
    <3> HIDE DEF At1
    <3> QED BY <1>5, <1>7, <2>1
  <2> QED BY <1>1, <2>2
<1>8. OwnsOnce(w, h)
  <2>1. \A b : b \in h <=> \E z \in Vars : \E q, f : Holds(w[z], q, f, b)
    BY <1>6
  <2>2. \A z1, z2 \in Vars : \A q, f, r, g, b :
          Holds(w[z1], q, f, b) /\ Holds(w[z2], r, g, b) => z1 = z2 /\ q = r /\ f = g
    BY <1>7
  <2> QED BY <2>1, <2>2, OwnsOnceIs, Zenon
<1>9. OwnsOnce(vals', heap')
  BY <1>1, <1>3, <1>8
<1>10. vals' = [z \in Vars |-> vals'[z]] /\ \A z \in Vars : IsTree(vals'[z])
  BY <1>2, <1>3, <1>4
<1>11. heap' \subseteq 1 .. MaxBuffers /\ aborted' \in BOOLEAN
  BY <1>1 DEF Inv, TypeOK
<1> QED BY <1>9, <1>10, <1>11 DEF Inv, TypeOK, OneOwner, OwnsOnce

LEMMA IndexedTrades ==
    ASSUME NEW t, IsTree(t), Unique(t), NEW p \in DOMAIN t, t[p].type \in {"null", "array"},
           NEW i \in 0 .. MaxIndex
    PROVE  Trades(t, Indexed(t, p, i), {}, {})
<1>1. PICK u : u = Indexed(t, p, i)
  OBVIOUS
<1>2. IsTree(u) /\ \A q, f, b : Holds(u, q, f, b) <=> Holds(t, q, f, b)
  BY <1>1, IndexedFacts
<1>3. Unique(u)
  BY <1>2 DEF Unique
<1> QED BY <1>1, <1>2, <1>3 DEF Trades

LEMMA IndexValueStep ==
    ASSUME Inv, NEW x \in Vars, NEW p \in DOMAIN vals[x], NEW i \in 0 .. MaxIndex, IndexValue(x, p, i)
    PROVE  Inv'
<1>1. PICK u : u = Indexed(vals[x], p, i)
  OBVIOUS
<1>2. /\ vals[x][p].type \in {"null", "array"} /\ vals' = [vals EXCEPT ![x] = u]
      /\ heap' = (heap \cup {}) \ {} /\ aborted' \in BOOLEAN
  BY <1>1 DEF IndexValue, Becomes, Inv, TypeOK
<1>3. Trades(vals[x], u, {}, {})
  BY <1>1, <1>2, InvFacts, IndexedTrades
<1> QED BY <1>2, <1>3, OneStep

LEMMA MemberStep ==
    ASSUME Inv, NEW x \in Vars, NEW p \in DOMAIN vals[x], NEW name \in Members, NEW static \in BOOLEAN,
           Member(x, p, name, static)
    PROVE  Inv'
<1>1. PICK t, e, copied, key, new, u :
        /\ t = vals[x] /\ e = Append(p, name) /\ copied = (~static /\ e \notin DOMAIN t)
        /\ key = (IF copied THEN NewBuffer ELSE 0) /\ new = (IF copied THEN {NewBuffer} ELSE {})
        /\ u = Resolved(t, p, name, key)
  OBVIOUS
<1>2. /\ t[p].type \in {"null", "object"} /\ (copied => Free # {}) /\ vals' = [vals EXCEPT ![x] = u]
      /\ heap' = (heap \cup new) \ {} /\ aborted' \in BOOLEAN
  BY <1>1 DEF Member, Becomes, Inv, TypeOK
<1>3. /\ IsTree(t) /\ Unique(t) /\ p \in DOMAIN t /\ \A q, f, b : Holds(t, q, f, b) => b \notin Free
      /\ Free \subseteq 1 .. MaxBuffers /\ MaxBuffers \in Nat
  BY <1>1, InvFacts, BoundsAssumption
<1>4. copied => key \in Free
  BY <1>1, <1>2 DEF NewBuffer
<1>5. key \in 0 .. MaxBuffers /\ (key # 0 <=> copied) /\ new \in SUBSET Free
  <2>1. CASE copied
    <3>1. key \in Free /\ new = {key}
      BY <1>1, <1>4, <2>1
    <3> QED BY <1>3, <2>1, <3>1
  <2>2. CASE ~copied
    <3>1. key = 0 /\ new = {}
      BY <1>1, <2>2
    <3> QED BY <1>3, <2>2, <3>1
  <2> QED BY <2>1, <2>2
<1>6. /\ IsTree(u)
      /\ \A q, f, b : Holds(u, q, f, b) <=>
           Holds(t, q, f, b) \/ (e \notin DOMAIN t /\ q = e /\ f = "key" /\ b = key /\ b # 0)
  BY <1>1, <1>2, <1>3, <1>5, ResolvedFacts
<1>7. Unique(u)
  <2> SUFFICES ASSUME NEW q, NEW f, NEW r, NEW g, NEW b, Holds(u, q, f, b), Holds(u, r, g, b)
               PROVE  q = r /\ f = g
    BY DEF Unique
  <2>1. CASE Holds(t, q, f, b) /\ Holds(t, r, g, b)
    BY <1>3, <2>1 DEF Unique
  <2> QED BY <1>3, <1>4, <1>5, <1>6, <2>1
<1>8. ASSUME NEW b
      PROVE  (\E q, f : Holds(u, q, f, b)) <=> b \in new \/ \E q, f : Holds(t, q, f, b)
  <2>1. b \in new <=> copied /\ b = key /\ b # 0
    BY <1>1, <1>5
  <2>2. copied => e \notin DOMAIN t
    BY <1>1
  <2> QED BY <1>5, <1>6, <2>1, <2>2
<1>9. Trades(t, u, new, {})
  BY <1>6, <1>7, <1>8 DEF Trades
<1> QED BY <1>1, <1>2, <1>5, <1>9, OneStep

LEMMA AppendValueStep ==
    ASSUME Inv, NEW x \in Vars, NEW p \in DOMAIN vals[x], NEW y \in Vars, NEW q \in DOMAIN vals[y],
           AppendValue(x, p, y, q)
    PROVE  Inv'
<1>1. PICK old, s, i, t, e, u :
        /\ old = vals[x] /\ s = Copy(Sub(vals[y], q)) /\ i = size(old, p) /\ t = Indexed(old, p, i)
        /\ e = Append(p, IndexKey(i)) /\ u = With(t, e, s, 0)
  OBVIOUS
<1>2. /\ old[p].type \in {"null", "array"} /\ i <= MaxIndex /\ HasRoom(Owners(Sub(vals[y], q)))
      /\ vals' = [vals EXCEPT ![x] = u] /\ heap' = (heap \cup Owned(s)) \ {} /\ aborted' \in BOOLEAN
  BY <1>1 DEF AppendValue, Becomes, Inv, TypeOK
<1>3. IsNew(s) /\ Apart(s, old) /\ Owned(s) \in SUBSET Free
  <2>1. IsNew(s)
    BY <1>1, <1>2, CopyIsNew
  <2> QED BY <1>1, <2>1, NewFacts
<1>4. IsTree(old) /\ Unique(old) /\ p \in DOMAIN old /\ p \in Path /\ MaxIndex \in Nat
  BY <1>1, InvFacts, TreeFacts, BoundsAssumption
<1>5. /\ i \in 0 .. MaxIndex
      /\ \A k \in Text : Append(p, k) \in DOMAIN old => IndexOf(k) < i
  <2>1. i \in 0 .. MaxIndex + 1 /\ \A k \in Text : Append(p, k) \in DOMAIN old => IndexOf(k) < i
    BY <1>1, <1>2, <1>4, SizeFacts
  <2> QED BY <1>2, <1>4, <2>1
<1>6. e \notin DOMAIN old /\ e \in Path /\ e # << >> /\ Front(e) = p
  <2>1. IndexKey(i) \in Text /\ IndexOf(IndexKey(i)) = i
    BY <1>4, <1>5, KeyFacts
  <2>2. e \notin DOMAIN old
    BY <1>1, <1>5, <2>1
  <2> QED BY <1>1, <1>4, <2>1, <2>2, BranchFacts
<1>7. /\ IsTree(t) /\ t[p].type = "array" /\ e \in DOMAIN t
      /\ \A r, f, b : Holds(t, r, f, b) <=> Holds(old, r, f, b)
  BY <1>1, <1>2, <1>4, <1>5, IndexedFacts
<1>8. Unique(t) /\ Apart(s, t)
  BY <1>3, <1>4, <1>7 DEF Unique, Apart
<1>9. t[e].key = 0
  BY <1>6, <1>7, ParentFacts
<1>10. PICK sub : sub = Sub(t, e)
  OBVIOUS
<1>11. Trades(t, u, Owned(s), Owned(sub))
  BY <1>1, <1>3, <1>7, <1>8, <1>9, <1>10, WithOwns DEF IsNew
<1>12. \A b : b \notin Owned(sub)
  <2> SUFFICES ASSUME NEW b, b \in Owned(sub) PROVE FALSE
    OBVIOUS
  <2>1. PICK r, f : Holds(sub, r, f, b)
    BY OwnedIsHeld
  <2>2. r \in Path /\ Holds(old, e \o r, f, b)
    BY <1>7, <1>10, <2>1, SubHolds
  <2>3. e \o r \in DOMAIN old /\ IsPrefix(e, e \o r)
    BY <1>6, <2>2, CatFacts DEF Holds
  <2> QED BY <1>4, <1>6, <2>3, PrefixClosed
<1>13. Trades(old, u, Owned(s), {})
  <2>1. IsTree(u) /\ Unique(u)
    BY <1>11 DEF Trades
  <2>2. ASSUME NEW b
        PROVE  (\E r, f : Holds(u, r, f, b)) <=> b \in Owned(s) \/ \E r, f : Holds(old, r, f, b)
    <3>1. (\E r, f : Holds(u, r, f, b)) <=>
            b \in Owned(s) \/ (b \notin Owned(sub) /\ \E r, f : Holds(t, r, f, b))
      BY <1>11 DEF Trades
    <3> QED BY <1>7, <1>12, <3>1
  <2> QED BY <2>1, <2>2 DEF Trades
<1> QED BY <1>1, <1>2, <1>3, <1>13, OneStep

\* Erasing entries of maps, and all that is below them.
LEMMA KeepTrades ==
    ASSUME NEW t, IsTree(t), Unique(t), NEW gone \in SUBSET DOMAIN t, << >> \notin gone,
           \A q \in DOMAIN t : q # << >> /\ Front(q) \in gone => q \in gone
    PROVE  Trades(t, Keep(t, gone), {}, Freed(t, gone))
<1>1. PICK u, F : u = Keep(t, gone) /\ F = Freed(t, gone)
  OBVIOUS
<1>2. IsTree(u)
  BY <1>1, KeepIsTree
<1>3. \A q, f, b : Holds(u, q, f, b) <=> q \notin gone /\ Holds(t, q, f, b)
  BY <1>1, KeepHolds
<1>4. \A b : b \in F <=> \E q \in gone : \E f : Holds(t, q, f, b)
  BY <1>1, FreedIsHeld
<1>5. Unique(u)
  BY <1>3 DEF Unique
<1>6. ASSUME NEW b
      PROVE  (\E q, f : Holds(u, q, f, b)) <=>
               b \in {} \/ (b \notin F /\ \E q, f : Holds(t, q, f, b))
  BY <1>3, <1>4 DEF Unique
<1>7. \A b \in F : \E q, f : Holds(t, q, f, b)
  BY <1>4
<1>8. Trades(t, u, {}, F)
  BY <1>2, <1>5, <1>6, <1>7, Zenon DEF Trades
<1> QED BY <1>1, <1>8

LEMMA BelowFacts ==
    ASSUME NEW t, IsTree(t), NEW p \in DOMAIN t
    PROVE  /\ Below(t, p) \in SUBSET DOMAIN t /\ << >> \notin Below(t, p)
           /\ \A q \in DOMAIN t : q # << >> /\ Front(q) \in Below(t, p) => q \in Below(t, p)
<1>1. p \in Path /\ DOMAIN t \subseteq Path /\ << >> \in Path
  BY TreeFacts DEF Path
<1>2. << >> \notin Below(t, p)
  <2>1. IsPrefix(p, << >>) => p = << >>
    BY <1>1, PrefixDef, LenFacts
  <2> QED BY <2>1 DEF Below, IsStrictPrefix
<1>3. ASSUME NEW q \in DOMAIN t, q # << >>, Front(q) \in Below(t, p) PROVE q \in Below(t, p)
  <2>1. IsPrefix(p, Front(q)) /\ q \in Path
    BY <1>1, <1>3 DEF Below, IsStrictPrefix
  <2> QED BY <1>1, <1>3, <2>1, FrontUnder DEF Below, IsStrictPrefix
<1> QED BY <1>2, <1>3 DEF Below

\* All that is under the elements of an array at the indices in I.
LEMMA UnderFacts ==
    ASSUME NEW t, IsTree(t), NEW gone, NEW B \in SUBSET Path, << >> \notin B,
           \A q : q \in gone <=> q \in DOMAIN t /\ \E e \in B : IsPrefix(e, q)
    PROVE  /\ gone \in SUBSET DOMAIN t /\ << >> \notin gone
           /\ \A q \in DOMAIN t : q # << >> /\ Front(q) \in gone => q \in gone
<1>1. DOMAIN t \subseteq Path /\ << >> \in Path
  BY TreeFacts DEF Path
<1>2. << >> \notin gone
  <2>1. \A e \in B : IsPrefix(e, << >>) => e = << >>
    BY <1>1, PrefixDef, LenFacts
  <2> QED BY <2>1
<1>3. ASSUME NEW q \in DOMAIN t, q # << >>, Front(q) \in gone PROVE q \in gone
  <2>1. PICK e \in B : IsPrefix(e, Front(q))
    BY <1>3
  <2>2. IsPrefix(e, q)
    BY <1>1, <1>3, <2>1, FrontUnder
  <2> QED BY <2>2
<1> QED BY <1>2, <1>3

LEMMA ClearStep ==
    ASSUME Inv, NEW x \in Vars, NEW p \in DOMAIN vals[x], clear(x, p)
    PROVE  Inv'
<1>1. PICK t, gone, u, F : t = vals[x] /\ gone = Below(t, p) /\ u = Keep(t, gone) /\ F = Freed(t, gone)
  OBVIOUS
<1>2. vals' = [vals EXCEPT ![x] = u] /\ heap' = (heap \cup {}) \ F /\ aborted' \in BOOLEAN
  BY <1>1 DEF clear, Becomes, Inv, TypeOK
<1>3. IsTree(t) /\ Unique(t) /\ p \in DOMAIN t
  BY <1>1, InvFacts
<1>4. /\ gone \in SUBSET DOMAIN t /\ << >> \notin gone
      /\ \A q \in DOMAIN t : q # << >> /\ Front(q) \in gone => q \in gone
  BY <1>1, <1>3, BelowFacts
<1>5. Trades(t, u, {}, F)
  BY <1>1, <1>3, <1>4, KeepTrades
<1> QED BY <1>1, <1>2, <1>5, OneStep

LEMMA ErasedFacts ==
    ASSUME NEW t, IsTree(t), NEW p \in DOMAIN t, t[p].type = "array", NEW n \in 0 .. MaxIndex,
           NEW gone, gone = Erased(t, p, n)
    PROVE  /\ gone \in SUBSET DOMAIN t /\ << >> \notin gone
           /\ \A q \in DOMAIN t : q # << >> /\ Front(q) \in gone => q \in gone
           /\ n > size(t, p) => gone = {}
<1>1. size(t, p) \in 0 .. MaxIndex + 1 /\ p \in Path /\ MaxIndex \in Nat
  BY SizeFacts, TreeFacts, BoundsAssumption
<1>2. CASE n = 0
  <2>1. gone = Below(t, p)
    BY <1>2 DEF Erased
  <2> QED BY <1>1, <1>2, <2>1, BelowFacts
<1>3. CASE n # 0
  <2> DEFINE I == n .. size(t, p) - 1
             B == {Append(p, IndexKey(i)) : i \in I}
  <2>1. \A i \in I : i \in 0 .. MaxIndex + 1
    BY <1>1
  <2>2. ASSUME NEW i \in I PROVE Append(p, IndexKey(i)) \in Path /\ Append(p, IndexKey(i)) # << >>
    BY <1>1, <2>1, KeyFacts, BranchFacts
  <2>3. B \in SUBSET Path /\ << >> \notin B
    BY <2>2
  <2>4. \A q : q \in gone <=> q \in DOMAIN t /\ \E e \in B : IsPrefix(e, q)
    BY <1>3 DEF Erased
  <2>5. n > size(t, p) => gone = {}
    <3>1. n > size(t, p) => I = {}
      BY <1>1
    <3> QED BY <2>4, <3>1
  <2> HIDE DEF B
  <2> QED BY <2>3, <2>4, <2>5, UnderFacts
<1> QED BY <1>2, <1>3

LEMMA ResizeStep ==
    ASSUME Inv, NEW x \in Vars, NEW p \in DOMAIN vals[x], NEW n \in 0 .. MaxIndex, resize(x, p, n)
    PROVE  Inv'
<1>1. PICK t, a, gone, F, u :
        /\ t = vals[x] /\ a = As(t, p, "array") /\ gone = Erased(a, p, n) /\ F = Freed(a, gone)
        /\ u = (IF n > size(a, p) THEN Indexed(a, p, n - 1) ELSE Keep(a, gone))
  OBVIOUS
<1>2. /\ t[p].type \in {"null", "array"} /\ vals' = [vals EXCEPT ![x] = u]
      /\ heap' = (heap \cup {}) \ F /\ aborted' \in BOOLEAN
  BY <1>1 DEF resize
<1>3. IsTree(t) /\ Unique(t) /\ p \in DOMAIN t /\ "array" \in Containers
  BY <1>1, InvFacts DEF Containers
<1>4. IsTree(a) /\ DOMAIN a = DOMAIN t /\ a[p].type = "array"
  BY <1>1, <1>2, <1>3, AsIsTree, AsFacts
<1>5. \A q, f, b : Holds(a, q, f, b) <=> Holds(t, q, f, b)
  BY <1>1, <1>3, AsHolds
<1>6. Unique(a)
  BY <1>3, <1>5 DEF Unique
<1>7. /\ gone \in SUBSET DOMAIN a /\ << >> \notin gone
      /\ \A q \in DOMAIN a : q # << >> /\ Front(q) \in gone => q \in gone
      /\ n > size(a, p) => gone = {}
  BY <1>1, <1>3, <1>4, ErasedFacts
<1>8. Trades(a, u, {}, F)
  <2>1. CASE n > size(a, p)
    <3>1. size(a, p) \in Nat /\ MaxIndex \in Nat
      BY <1>3, <1>4, SizeFacts, BoundsAssumption
    <3>2. n - 1 \in 0 .. MaxIndex /\ u = Indexed(a, p, n - 1)
      BY <1>1, <2>1, <3>1
    <3>3. \A b : b \notin F
      BY <1>1, <1>7, <2>1, FreedIsHeld
    <3>4. Trades(a, u, {}, {})
      BY <1>3, <1>4, <1>6, <3>2, IndexedTrades
    <3>5. F = {}
      BY <3>3
    <3> QED BY <3>4, <3>5
  <2>2. CASE ~(n > size(a, p))
    <3>1. u = Keep(a, gone)
      BY <1>1, <2>2
    <3> QED BY <1>1, <1>4, <1>6, <1>7, <3>1, KeepTrades
  <2> QED BY <2>1, <2>2
<1>9. Trades(t, u, {}, F)
  BY <1>5, <1>8 DEF Trades
<1> QED BY <1>1, <1>2, <1>9, OneStep

\* What an operation has to show that moves a part of x to y.
LEMMA TwoStep ==
    ASSUME Inv, NEW x \in Vars, NEW y \in Vars, x # y, NEW s, IsNew(s), NEW t, NEW freed,
           Trades(vals[x], t, {}, freed), vals' = [vals EXCEPT ![x] = t, ![y] = s],
           heap' = ((heap \cup Owned(s)) \ Owned(vals[y])) \ freed, aborted' = aborted
    PROVE  Inv'
<1>1. /\ vals = [z \in Vars |-> vals[z]] /\ OwnsOnce(vals, heap)
      /\ \A z \in Vars : IsTree(vals[z])
      /\ Free \subseteq 1 .. MaxBuffers /\ Free \cap heap = {} /\ heap \subseteq 1 .. MaxBuffers
  BY InvFacts
<1>2. PICK new : new = Owned(s)
  OBVIOUS
<1>3. new \in SUBSET Free /\ \A b : (\E q, f : Holds(s, q, f, b)) <=> b \in new
  BY <1>2, NewFacts, OwnedIsHeld
<1>4. OwnsOnce(vals', heap')
  <2>1. Unique(s) /\ Unique(t)
    BY DEF IsNew, Trades
  <2>2. /\ \A b : (\E q, f : Holds(t, q, f, b)) <=>
                    b \notin freed /\ \E q, f : Holds(vals[x], q, f, b)
        /\ \A b \in freed : \E q, f : Holds(vals[x], q, f, b)
    BY DEF Trades
  <2>3. new \cap heap = {}
    BY <1>1, <1>3
  <2>4. PICK v, h : v = vals /\ h = heap
    OBVIOUS
  <2>5. OwnsOnce([v EXCEPT ![x] = t, ![y] = s], ((h \cup new) \ Owned(v[y])) \ freed)
    <3>1. OwnsOnce(v, h) /\ v = [z \in Vars |-> v[z]] /\ new \cap h = {}
      BY <1>1, <2>3, <2>4
    <3>2. /\ \A b : (\E q, f : Holds(t, q, f, b)) <=>
                      b \notin freed /\ \E q, f : Holds(v[x], q, f, b)
          /\ \A b \in freed : \E q, f : Holds(v[x], q, f, b)
      BY <2>2, <2>4
    <3> QED BY <1>3, <2>1, <3>1, <3>2, TwoChange
  <2> QED BY <1>2, <2>4, <2>5
<1>5. vals' = [z \in Vars |-> vals'[z]] /\ \A z \in Vars : IsTree(vals'[z])
  BY <1>1 DEF Trades, IsNew
<1>6. heap' \subseteq 1 .. MaxBuffers /\ aborted' \in BOOLEAN
  BY <1>1, <1>2, <1>3 DEF Inv, TypeOK
<1> QED BY <1>4, <1>5, <1>6 DEF Inv, TypeOK, OneOwner, OwnsOnce

LEMMA RemoveMemberStep ==
    ASSUME Inv, NEW x \in Vars, NEW p \in DOMAIN vals[x], NEW name \in Members, NEW y \in Vars,
           remove_member(x, p, name, y)
    PROVE  Inv'
<1>1. PICK old, e, s, gone, t, F :
        /\ old = vals[x] /\ e = Append(p, name) /\ s = Copy(Sub(vals[x], e))
        /\ gone = Under(old, e) /\ t = Keep(old, gone) /\ F = Freed(old, gone)
  OBVIOUS
<1>2. /\ x # y /\ e \in DOMAIN vals[x] /\ HasRoom(Owners(Sub(vals[x], e)))
      /\ vals' = [vals EXCEPT ![x] = t, ![y] = s]
      /\ heap' = ((heap \cup Owned(s)) \ Owned(vals[y])) \ F /\ aborted' = aborted
  BY <1>1 DEF remove_member, Without
<1>3. IsNew(s)
  BY <1>1, <1>2, CopyIsNew
<1>4. IsTree(old) /\ Unique(old) /\ e \in Path /\ e # << >>
  <2>1. IsTree(old) /\ Unique(old) /\ p \in Path /\ name \in Text
    BY <1>1, InvFacts, TreeFacts, KeyFacts
  <2> QED BY <1>1, <2>1, BranchFacts
<1>5. \A q : q \in gone <=> q \in DOMAIN old /\ \E r \in {e} : IsPrefix(r, q)
  BY <1>1 DEF Under
<1>6. /\ gone \in SUBSET DOMAIN old /\ << >> \notin gone
      /\ \A q \in DOMAIN old : q # << >> /\ Front(q) \in gone => q \in gone
  <2>1. {e} \in SUBSET Path /\ << >> \notin {e}
    BY <1>4
  <2> QED BY <1>4, <1>5, <2>1, UnderFacts
<1>7. Trades(old, t, {}, F)
  BY <1>1, <1>4, <1>6, KeepTrades
<1> QED BY <1>1, <1>2, <1>3, <1>7, TwoStep

-----------------------------------------------------------------------------
\* path::make()

\* Nothing of t is lost in u: at most a null value has become another one.
Kept(t, u) ==
    /\ IsTree(u)
    /\ \A q \in DOMAIN t : q \in DOMAIN u /\ t[q].type \in {"null", u[q].type}
    /\ \A q, f, b : Holds(u, q, f, b) <=> Holds(t, q, f, b)

LEMMA KeptFacts ==
    /\ \A t : IsTree(t) => Kept(t, t)
    /\ \A t, u, w : Kept(t, u) /\ Kept(u, w) => Kept(t, w)
BY DEF Kept

LEMMA ArgumentFacts ==
    ASSUME NEW arg \in Arguments
    PROVE  \/ arg.kind = "index" /\ arg.key \in Elements /\ Expects(arg) = "array"
           \/ arg.kind = "key" /\ arg.key \in Members /\ Expects(arg) = "object"
BY DEF Arguments, Expects

LEMMA EnterKeeps ==
    ASSUME NEW t, IsTree(t), NEW p, NEW arg \in Arguments
    PROVE  Kept(t, Enter(t, p, arg))
<1>1. PICK u : u = Enter(t, p, arg)
  OBVIOUS
<1>2. CASE p \notin DOMAIN t \/ t[p].type \notin {"null", Expects(arg)}
  <2>1. u = t
    BY <1>1, <1>2 DEF Enter
  <2> QED BY <1>1, <2>1, KeptFacts
<1>3. CASE ~(p \notin DOMAIN t \/ t[p].type \notin {"null", Expects(arg)})
  <2>1. u = IF arg.kind = "index" THEN Indexed(t, p, IndexOf(arg.key)) ELSE Resolved(t, p, arg.key, 0)
    BY <1>1, <1>3 DEF Enter
  <2>2. p \in DOMAIN t /\ t[p].type \in {"null", Expects(arg)}
    BY <1>3
  <2>3. CASE arg.kind = "index" /\ arg.key \in Elements /\ Expects(arg) = "array"
    <3>1. PICK i : i = IndexOf(arg.key)
      OBVIOUS
    <3>2. i \in 0 .. MaxIndex /\ u = Indexed(t, p, i) /\ t[p].type \in {"null", "array"}
      BY <2>1, <2>2, <2>3, <3>1, KeyFacts
    <3>3. /\ IsTree(u) /\ \A q : q \in DOMAIN u <=> q \in DOMAIN t \/ q = Append(p, IndexKey(i))
          /\ \A q \in DOMAIN t : t[q].type \in {"null", u[q].type}
          /\ \A q, f, b : Holds(u, q, f, b) <=> Holds(t, q, f, b)
      BY <2>2, <3>2, IndexedFacts
    <3> QED BY <1>1, <3>3 DEF Kept
  <2>4. CASE arg.kind = "key" /\ arg.key \in Members /\ Expects(arg) = "object"
    <3>1. PICK k : k = arg.key
      OBVIOUS
    <3>2. k \in Members /\ u = Resolved(t, p, k, 0) /\ t[p].type \in {"null", "object"}
      BY <2>1, <2>2, <2>4, <3>1
    <3>3. /\ IsTree(u) /\ \A q : q \in DOMAIN u <=> q \in DOMAIN t \/ q = Append(p, k)
          /\ \A q \in DOMAIN t : t[q].type \in {"null", u[q].type}
          /\ \A q, f, b : Holds(u, q, f, b) <=>
               \/ Holds(t, q, f, b)
               \/ Append(p, k) \notin DOMAIN t /\ q = Append(p, k) /\ f = "key" /\ b = 0 /\ b # 0
      BY <2>2, <3>2, NullFacts, ResolvedFacts
    <3>4. \A q, f, b : Holds(u, q, f, b) <=> Holds(t, q, f, b)
      BY <3>3
    <3>5. \A q \in DOMAIN t : q \in DOMAIN u /\ t[q].type \in {"null", u[q].type}
      BY <3>3
    <3> QED BY <1>1, <3>3, <3>4, <3>5 DEF Kept
  <2> QED BY <2>3, <2>4, ArgumentFacts
<1> QED BY <1>2, <1>3

\* The turns of the loop in path::make().
IsMaking(g, t, args, m) ==
    g = [n \in 0 .. m |-> IF n = 0 THEN t ELSE Enter(g[n - 1], Place(args, n - 1), args[n])]

LEMMA MakingExists ==
    ASSUME NEW t, NEW args, NEW m \in Nat
    PROVE  \E g : IsMaking(g, t, args, m)
<1> DEFINE Is(g, k) == IsMaking(g, t, args, k)
           Turn(u, n) == Enter(u, Place(args, n - 1), args[n])
           X == {k \in Nat : ~\E g : Is(g, k)}
<1>0. \A g, k : Is(g, k) <=> g = [n \in 0 .. k |-> IF n = 0 THEN t ELSE Turn(g[n - 1], n)]
  BY DEF IsMaking
<1> HIDE DEF Is, Turn
<1> SUFFICES X = {}
  BY DEF Is
<1> SUFFICES ASSUME X # {} PROVE FALSE
  OBVIOUS
<1>1. PICK k \in X : \A j \in X : k <= j
  BY LeastElement
<1>2. CASE k = 0
  <2> DEFINE f == [n \in 0 .. 0 |-> t]
  <2>1. f = [n \in 0 .. 0 |-> IF n = 0 THEN t ELSE Turn(f[n - 1], n)]
    OBVIOUS
  <2> HIDE DEF f
  <2>2. Is(f, 0)
    BY <1>0, <2>1
  <2> QED BY <1>1, <1>2, <2>2
<1>3. CASE k # 0
  <2>1. k \in Nat /\ k - 1 \in Nat /\ k - 1 \notin X
    BY <1>1, <1>3
  <2>2. PICK f : Is(f, k - 1)
    BY <2>1
  <2>3. f = [n \in 0 .. k - 1 |-> IF n = 0 THEN t ELSE Turn(f[n - 1], n)]
    BY <1>0, <2>2
  <2> DEFINE g == [n \in 0 .. k |-> IF n = k THEN Turn(f[k - 1], k) ELSE f[n]]
  <2>4. ASSUME NEW n \in 0 .. k PROVE g[n] = IF n = 0 THEN t ELSE Turn(g[n - 1], n)
    <3>1. CASE n = k
      <4>1. k - 1 \in 0 .. k /\ k - 1 # k /\ g[k - 1] = f[k - 1]
        BY <2>1
      <4> QED BY <1>3, <3>1, <4>1
    <3>2. CASE n # k
      <4>1. n \in 0 .. k - 1 /\ g[n] = f[n]
        BY <2>1, <3>2
      <4>2. n # 0 => n - 1 \in 0 .. k /\ n - 1 # k /\ g[n - 1] = f[n - 1]
        BY <2>1, <3>2
      <4>3. f[n] = IF n = 0 THEN t ELSE Turn(f[n - 1], n)
        BY <2>3, <4>1
      <4> QED BY <4>1, <4>2, <4>3
    <3> QED BY <3>1, <3>2
  <2>5. g = [n \in 0 .. k |-> IF n = 0 THEN t ELSE Turn(g[n - 1], n)]
    BY <2>4
  <2> HIDE DEF g
  <2>6. Is(g, k)
    BY <1>0, <2>5
  <2> QED BY <1>1, <2>6
<1> QED BY <1>2, <1>3

LEMMA MakeKeeps ==
    ASSUME NEW t, IsTree(t), NEW args \in Seq(Arguments)
    PROVE  Kept(t, make(t, args))
<1>1. Len(args) \in Nat /\ \A n \in 1 .. Len(args) : args[n] \in Arguments
  OBVIOUS
<1>2. PICK g : g = CHOOSE f : IsMaking(f, t, args, Len(args))
  OBVIOUS
<1>3. IsMaking(g, t, args, Len(args))
  BY <1>1, <1>2, MakingExists
<1>4. make(t, args) = g[Len(args)]
  BY <1>2 DEF make, IsMaking
<1>5. /\ g[0] = t
      /\ \A n \in 1 .. Len(args) : g[n] = Enter(g[n - 1], Place(args, n - 1), args[n])
  BY <1>1, <1>3 DEF IsMaking
<1> DEFINE X == {n \in Nat : n <= Len(args) /\ ~Kept(t, g[n])}
<1>6. X = {}
  <2> SUFFICES ASSUME X # {} PROVE FALSE
    OBVIOUS
  <2>1. PICK m \in X : \A k \in X : m <= k
    BY LeastElement
  <2>2. m # 0
    BY <1>5, <2>1, KeptFacts
  <2>3. m \in 1 .. Len(args) /\ m - 1 \in Nat /\ m - 1 <= Len(args)
    BY <1>1, <2>1, <2>2
  <2>4. Kept(t, g[m - 1])
    BY <2>1, <2>3
  <2>5. Kept(g[m - 1], g[m])
    <3>1. IsTree(g[m - 1]) /\ args[m] \in Arguments
      BY <1>1, <2>3, <2>4 DEF Kept
    <3> QED BY <1>5, <2>3, <3>1, EnterKeeps
  <2>6. Kept(t, g[m])
    BY <2>4, <2>5, KeptFacts
  <2> QED BY <2>1, <2>6
<1> QED BY <1>1, <1>4, <1>6

NamesOf(u, M) == {u[p].key : p \in M}

\* The members that were created get names of their own.
LEMMA NamedFacts ==
    ASSUME Inv, NEW x \in Vars, NEW t, Kept(vals[x], t), NEW M, M = NewMembers(t, vals[x]), HasRoom(M),
           NEW u, u = Named(t, vals[x]), NEW new, new = NamesOf(u, M)
    PROVE  /\ DOMAIN u = DOMAIN t /\ \A q \in DOMAIN t : u[q].type = t[q].type
           /\ Trades(vals[x], u, new, {}) /\ new \in SUBSET Free
<1>1. PICK old : old = vals[x]
  OBVIOUS
<1>2. /\ IsTree(old) /\ Unique(old) /\ \A q, f, b : Holds(old, q, f, b) => b \notin Free
      /\ Free \subseteq 1 .. MaxBuffers /\ MaxBuffers \in Nat
  BY <1>1, InvFacts, BoundsAssumption
<1>3. /\ IsTree(t) /\ \A q \in DOMAIN old : q \in DOMAIN t
      /\ \A q, f, b : Holds(t, q, f, b) <=> Holds(old, q, f, b)
  BY <1>1 DEF Kept
<1>4. M = {p \in DOMAIN t \ DOMAIN old : t[Front(p)].type = "object"}
  BY <1>1 DEF NewMembers
<1>5. PICK d : d = NewBuffers(M)
  OBVIOUS
<1>6. d \in [M -> Free] /\ \A q, r \in M : d[q] = d[r] => q = r
  BY <1>5 DEF HasRoom, NewBuffers, Injection, IsInjective
<1>7. \A q \in M : d[q] \in Free /\ d[q] \in 0 .. MaxBuffers /\ d[q] # 0
  <2>1. \A b \in Free : b \in 0 .. MaxBuffers /\ b # 0
    BY <1>2
  <2> QED BY <1>6, <2>1, Zenon
<1>8. u = [p \in DOMAIN t |-> IF p \in M THEN [t[p] EXCEPT !.key = d[p]] ELSE t[p]]
  BY <1>5 DEF Named
<1>9. IsFcn(u) /\ DOMAIN u = DOMAIN t
  BY <1>8 DEF IsFcn
<1>10. ASSUME NEW q \in DOMAIN t
       PROVE  /\ u[q] \in NodeRecord /\ u[q].type = t[q].type /\ u[q].str = t[q].str
              /\ q \in M => u[q].key = d[q]
              /\ q \notin M => u[q].key = t[q].key
  <2>1. t[q] \in NodeRecord
    BY <1>3, TreeFacts
  <2>2. CASE q \in M
    <3>1. PICK k : k = d[q]
      OBVIOUS
    <3>2. u[q] = [t[q] EXCEPT !.key = k] /\ k \in 0 .. MaxBuffers
      BY <1>7, <1>8, <2>2, <3>1
    <3> QED BY <2>1, <2>2, <3>1, <3>2, NodeFacts
  <2>3. CASE q \notin M
    <3>1. u[q] = t[q]
      BY <1>8, <2>3
    <3> QED BY <2>1, <2>3, <3>1
  <2> QED BY <2>2, <2>3
<1>11. IsTree(u)
  <2>1. << >> \in DOMAIN u /\ DOMAIN u \subseteq Path
    BY <1>3, <1>9, TreeFacts
  <2>2. ASSUME NEW q \in DOMAIN t PROVE Attached(u, q)
    <3>1. Attached(t, q)
      BY <1>3, TreeFacts
    <3>2. CASE q \notin M
      BY <1>9, <1>10, <3>1, <3>2 DEF Attached
    <3>3. CASE q \in M
      <4>1. q # << >> /\ t[Front(q)].type = "object"
        BY <1>2, <1>4, <3>3, TreeFacts
      <4>2. Front(q) \in DOMAIN t /\ Last(q) \in Members
        BY <1>3, <4>1, ParentFacts
      <4> QED BY <1>9, <1>10, <4>1, <4>2 DEF Attached
    <3> QED BY <3>2, <3>3
  <2> QED BY <1>9, <1>10, <2>1, <2>2, IsTreeIf
<1>12. ASSUME NEW q, NEW f, NEW b
       PROVE  Holds(u, q, f, b) <=> Holds(old, q, f, b) \/ (q \in M /\ f = "key" /\ b = d[q])
  <2>1. CASE q \in M
    <3>1. q \in DOMAIN t /\ q \notin DOMAIN old
      BY <1>4, <2>1
    <3>2. ~Holds(old, q, "str", b) /\ ~Holds(old, q, f, b)
      BY <3>1 DEF Holds
    <3>3. ~Holds(t, q, "str", b)
      BY <1>3, <3>2
    <3>4. ~(b # 0 /\ u[q].str = b)
      BY <1>10, <3>1, <3>3 DEF Holds
    <3>5. u[q].key = d[q] /\ d[q] # 0
      BY <1>7, <1>10, <2>1, <3>1
    <3> QED BY <1>9, <2>1, <3>1, <3>2, <3>4, <3>5 DEF Holds
  <2>2. CASE q \notin M
    <3>1. Holds(u, q, f, b) <=> Holds(t, q, f, b)
      BY <1>9, <1>10, <2>2 DEF Holds
    <3> QED BY <1>3, <2>2, <3>1
  <2> QED BY <2>1, <2>2
<1>13. Unique(u)
  <2> SUFFICES ASSUME NEW q, NEW f, NEW r, NEW g, NEW b, Holds(u, q, f, b), Holds(u, r, g, b)
               PROVE  q = r /\ f = g
    BY DEF Unique
  <2>1. /\ Holds(old, q, f, b) \/ (q \in M /\ f = "key" /\ b = d[q])
        /\ Holds(old, r, g, b) \/ (r \in M /\ g = "key" /\ b = d[r])
    BY <1>12
  <2>2. CASE Holds(old, q, f, b) /\ Holds(old, r, g, b)
    BY <1>2, <2>2 DEF Unique
  <2> QED BY <1>2, <1>6, <1>7, <2>1, <2>2
<1>14. \A b : b \in new <=> \E q \in M : b = d[q]
  <2>1. \A q \in M : u[q].key = d[q]
    BY <1>4, <1>10
  <2> QED BY <2>1 DEF NamesOf
<1>15. ASSUME NEW b
       PROVE  (\E q, f : Holds(u, q, f, b)) <=>
                b \in new \/ (b \notin {} /\ \E q, f : Holds(old, q, f, b))
  BY <1>12, <1>14
<1>16. Trades(old, u, new, {})
  BY <1>11, <1>13, <1>15 DEF Trades
<1>17. new \in SUBSET Free
  BY <1>7, <1>14
<1> QED BY <1>1, <1>9, <1>10, <1>16, <1>17

LEMMA MakePathStep ==
    ASSUME Inv, NEW x \in Vars, NEW args \in Paths, MakePath(x, args)
    PROVE  Inv'
<1>1. PICK t, M, u, new :
        /\ t = make(vals[x], args) /\ M = NewMembers(t, vals[x]) /\ u = Named(t, vals[x])
        /\ new = NamesOf(u, M)
  OBVIOUS
<1>2. /\ HasRoom(M) /\ vals' = [vals EXCEPT ![x] = u] /\ heap' = (heap \cup new) \ {}
      /\ aborted' \in BOOLEAN
  BY <1>1 DEF MakePath, Becomes, NamesOf, Inv, TypeOK
<1>3. Kept(vals[x], t)
  BY <1>1, InvFacts, MakeKeeps, PathsAssumption
<1>4. Trades(vals[x], u, new, {}) /\ new \in SUBSET Free
  BY <1>1, <1>2, <1>3, NamedFacts
<1> QED BY <1>2, <1>4, OneStep

-----------------------------------------------------------------------------
\* remove_index()

\* The place of the element with index j of the array at p.
Slot(p, j) == Append(p, IndexKey(j))

LEMMA SlotFacts ==
    ASSUME NEW p \in Path, NEW j \in 0 .. MaxIndex + 1
    PROVE  /\ Slot(p, j) \in Path /\ Slot(p, j) # << >> /\ Front(Slot(p, j)) = p
           /\ Last(Slot(p, j)) = IndexKey(j) /\ IsPrefix(Slot(p, j), Slot(p, j))
           /\ ~IsPrefix(Slot(p, j), p) /\ Rest(Slot(p, j), Slot(p, j)) = << >>
           /\ \A k \in 0 .. MaxIndex + 1, q \in Path :
                 IsPrefix(Slot(p, j), q) /\ IsPrefix(Slot(p, k), q) => j = k
<1>1. \A k \in 0 .. MaxIndex + 1 : IndexKey(k) \in Text /\ IndexOf(IndexKey(k)) = k
  BY KeyFacts
<1>2. PICK e : e = Slot(p, j)
  OBVIOUS
<1>3. e \in Path /\ e # << >> /\ Front(e) = p /\ Last(e) = IndexKey(j)
  BY <1>1, <1>2, BranchFacts DEF Slot
<1>4. IsPrefix(e, e) /\ Rest(e, e) = << >>
  BY <1>3, PrefixDef, LenFacts, RestFacts
<1>5. ~IsPrefix(e, p)
  BY <1>3, <1>4, FrontUnder
<1>6. ASSUME NEW k \in 0 .. MaxIndex + 1, NEW q \in Path, IsPrefix(Slot(p, j), q), IsPrefix(Slot(p, k), q)
      PROVE  j = k
  <2>1. q[Len(p) + 1] = IndexKey(j)
    BY <1>1, <1>6, BranchFacts DEF Slot
  <2>2. q[Len(p) + 1] = IndexKey(k)
    BY <1>1, <1>6, BranchFacts DEF Slot
  <2> QED BY <1>1, <2>1, <2>2
<1> QED BY <1>2, <1>3, <1>4, <1>5, <1>6

LEMMA SingleFacts ==
    /\ IsTree(Single(Null)) /\ DOMAIN Single(Null) = {<< >>} /\ Single(Null)[<< >>] = Null
    /\ \A q, f, b : ~Holds(Single(Null), q, f, b)
<1>1. PICK t : t = Single(Null)
  OBVIOUS
<1>2. IsFcn(t) /\ DOMAIN t = {<< >>} /\ t[<< >>] = Null
  BY <1>1 DEF Single, IsFcn
<1>3. << >> \in Path
  BY DEF Path
<1>4. Attached(t, << >>)
  BY <1>2, NullFacts DEF Attached
<1>5. IsTree(t)
  BY <1>2, <1>3, <1>4, NullFacts, IsTreeIf
<1>6. \A q, f, b : ~Holds(t, q, f, b)
  BY <1>2, NullFacts DEF Holds
<1> QED BY <1>1, <1>2, <1>5, <1>6

\* The element with index j, or null.
LEMMA AtFacts ==
    ASSUME NEW t, IsTree(t), NEW p \in DOMAIN t, NEW j \in 0 .. MaxIndex + 1,
           NEW a, a = At(t, p, IndexKey(j))
    PROVE  /\ IsTree(a) /\ a[<< >>].key = 0
           /\ Slot(p, j) \in DOMAIN t => a = Sub(t, Slot(p, j))
           /\ Slot(p, j) \notin DOMAIN t => a = Single(Null)
<1>1. CASE Slot(p, j) \in DOMAIN t
  <2>1. a = Sub(t, Slot(p, j))
    BY <1>1 DEF At, Slot
  <2> QED BY <1>1, <2>1, SubIsTree
<1>2. CASE Slot(p, j) \notin DOMAIN t
  <2>1. a = Single(Null)
    BY <1>2 DEF At, Slot
  <2> QED BY <1>2, <2>1, SingleFacts, NullFacts
<1> QED BY <1>1, <1>2

\* The turns of the loop in remove_index().
IsShifting(g, t, p, i, m) ==
    g = [j \in i .. m |->
          IF j = i THEN t
          ELSE With(g[j - 1], Append(p, IndexKey(j - 1)), At(t, p, IndexKey(j)), 0)]

LEMMA ShiftingExists ==
    ASSUME NEW t, NEW p, NEW i \in Nat, NEW m \in Nat, i <= m
    PROVE  \E g : IsShifting(g, t, p, i, m)
<1> DEFINE Is(g, k) == IsShifting(g, t, p, i, k)
           Turn(u, j) == With(u, Append(p, IndexKey(j - 1)), At(t, p, IndexKey(j)), 0)
           X == {k \in Nat : i <= k /\ ~\E g : Is(g, k)}
<1>0. \A g, k : Is(g, k) <=> g = [j \in i .. k |-> IF j = i THEN t ELSE Turn(g[j - 1], j)]
  BY DEF IsShifting
<1> HIDE DEF Is, Turn
<1> SUFFICES X = {}
  BY DEF Is
<1> SUFFICES ASSUME X # {} PROVE FALSE
  OBVIOUS
<1>1. PICK k \in X : \A j \in X : k <= j
  BY LeastElement
<1>2. CASE k = i
  <2> DEFINE f == [j \in i .. i |-> t]
  <2>1. f = [j \in i .. i |-> IF j = i THEN t ELSE Turn(f[j - 1], j)]
    OBVIOUS
  <2> HIDE DEF f
  <2>2. Is(f, i)
    BY <1>0, <2>1
  <2> QED BY <1>1, <1>2, <2>2
<1>3. CASE k # i
  <2>1. k \in Nat /\ k - 1 \in Nat /\ i <= k - 1 /\ k - 1 \notin X
    BY <1>1, <1>3
  <2>2. PICK f : Is(f, k - 1)
    BY <2>1
  <2>3. f = [j \in i .. k - 1 |-> IF j = i THEN t ELSE Turn(f[j - 1], j)]
    BY <1>0, <2>2
  <2> DEFINE g == [j \in i .. k |-> IF j = k THEN Turn(f[k - 1], k) ELSE f[j]]
  <2>4. ASSUME NEW j \in i .. k PROVE g[j] = IF j = i THEN t ELSE Turn(g[j - 1], j)
    <3>1. CASE j = k
      <4>1. k - 1 \in i .. k /\ k - 1 # k /\ g[k - 1] = f[k - 1]
        BY <2>1
      <4> QED BY <1>3, <3>1, <4>1
    <3>2. CASE j # k
      <4>1. j \in i .. k - 1 /\ g[j] = f[j]
        BY <2>1, <3>2
      <4>2. j # i => j - 1 \in i .. k /\ j - 1 # k /\ g[j - 1] = f[j - 1]
        BY <2>1, <3>2
      <4>3. f[j] = IF j = i THEN t ELSE Turn(f[j - 1], j)
        BY <2>3, <4>1
      <4> QED BY <4>1, <4>2, <4>3
    <3> QED BY <3>1, <3>2
  <2>5. g = [j \in i .. k |-> IF j = i THEN t ELSE Turn(g[j - 1], j)]
    BY <2>4
  <2> HIDE DEF g
  <2>6. Is(g, k)
    BY <1>0, <2>5
  <2> QED BY <1>1, <2>6
<1> QED BY <1>2, <1>3

\* In u the elements i .. j - 1 are the ones behind them in t.
Shifted(t, p, i, j, u) ==
    /\ IsTree(u)
    /\ \A q \in Path : (\A k \in i .. j - 1 : ~IsPrefix(Slot(p, k), q)) =>
          /\ q \in DOMAIN u <=> q \in DOMAIN t
          /\ q \in DOMAIN t => u[q] = t[q]
    /\ \A k \in i .. j - 1, q \in Path : IsPrefix(Slot(p, k), q) =>
          /\ q \in DOMAIN u <=> Rest(Slot(p, k), q) \in DOMAIN At(t, p, IndexKey(k + 1))
          /\ q \in DOMAIN u => u[q] = At(t, p, IndexKey(k + 1))[Rest(Slot(p, k), q)]

LEMMA ShiftTurn ==
    ASSUME NEW t, IsTree(t), NEW p \in DOMAIN t, t[p].type = "array",
           NEW i \in 0 .. MaxIndex, NEW j \in i .. MaxIndex,
           NEW u, Shifted(t, p, i, j, u), NEW w, w = With(u, Slot(p, j), At(t, p, IndexKey(j + 1)), 0)
    PROVE  Shifted(t, p, i, j + 1, w)
<1>1. p \in Path /\ MaxIndex \in Nat /\ \A k \in i .. j : k \in 0 .. MaxIndex + 1 /\ k + 1 \in 0 .. MaxIndex + 1
  BY TreeFacts, BoundsAssumption
<1>2. PICK e, a : e = Slot(p, j) /\ a = At(t, p, IndexKey(j + 1))
  OBVIOUS
<1>3. /\ e \in Path /\ e # << >> /\ Front(e) = p /\ Last(e) \in Elements
      /\ IsPrefix(e, e) /\ Rest(e, e) = << >>
      /\ \A k \in i .. j, q \in Path : IsPrefix(e, q) /\ IsPrefix(Slot(p, k), q) => j = k
  <2>1. j \in i .. j /\ IndexKey(j) \in Elements
    BY KeyFacts
  <2> QED BY <1>1, <1>2, <2>1, SlotFacts
<1>4. IsTree(a) /\ a[<< >>].key = 0 /\ << >> \in DOMAIN a /\ a[<< >>] \in NodeRecord
  <2>1. PICK k : k = j + 1
    OBVIOUS
  <2>2. k \in 0 .. MaxIndex + 1 /\ a = At(t, p, IndexKey(k))
    BY <1>1, <1>2, <2>1
  <2>3. IsTree(a) /\ a[<< >>].key = 0
    BY <2>2, AtFacts
  <2> QED BY <2>3, TreeFacts
<1>5. /\ IsTree(u)
      /\ \A q \in Path : (\A k \in i .. j - 1 : ~IsPrefix(Slot(p, k), q)) =>
            (q \in DOMAIN u <=> q \in DOMAIN t) /\ (q \in DOMAIN t => u[q] = t[q])
  BY DEF Shifted
<1>6. p \in DOMAIN u /\ u[p] = t[p]
  <2>1. \A k \in i .. j - 1 : ~IsPrefix(Slot(p, k), p)
    BY <1>1, SlotFacts
  <2> QED BY <1>1, <1>5, <2>1
<1>7. Grafts(u, e, 0)
  BY <1>3, <1>6, NullFacts DEF Grafts
<1>8. w = With(u, e, a, 0)
  BY <1>2
<1>9. IsTree(w)
  BY <1>3, <1>4, <1>5, <1>7, <1>8, WithIsTree
<1>10. /\ e \in DOMAIN w /\ w[e] = [a[<< >>] EXCEPT !.key = 0]
       /\ \A q : q \in DOMAIN w <=>
             \/ q \in DOMAIN u /\ ~IsPrefix(e, q)
             \/ q \in Path /\ IsPrefix(e, q) /\ Rest(e, q) \in DOMAIN a
       /\ \A q \in DOMAIN u : ~IsPrefix(e, q) => w[q] = u[q]
       /\ \A q \in DOMAIN w : IsPrefix(e, q) /\ q # e => w[q] = a[Rest(e, q)]
  BY <1>3, <1>4, <1>5, <1>8, WithFacts
<1>11. w[e] = a[<< >>]
  <2>1. [a[<< >>] EXCEPT !.key = 0] = a[<< >>]
    BY <1>4 DEF NodeRecord
  <2> QED BY <1>10, <2>1
<1>12. ASSUME NEW q \in Path, \A k \in i .. (j + 1) - 1 : ~IsPrefix(Slot(p, k), q)
       PROVE  (q \in DOMAIN w <=> q \in DOMAIN t) /\ (q \in DOMAIN t => w[q] = t[q])
  <2>1. j \in i .. (j + 1) - 1 /\ \A k \in i .. j - 1 : k \in i .. (j + 1) - 1
    OBVIOUS
  <2>2. ~IsPrefix(e, q) /\ \A k \in i .. j - 1 : ~IsPrefix(Slot(p, k), q)
    BY <1>2, <1>12, <2>1
  <2> QED BY <1>5, <1>10, <2>2
<1>13. ASSUME NEW k \in i .. (j + 1) - 1, NEW q \in Path, IsPrefix(Slot(p, k), q)
       PROVE  /\ q \in DOMAIN w <=> Rest(Slot(p, k), q) \in DOMAIN At(t, p, IndexKey(k + 1))
              /\ q \in DOMAIN w => w[q] = At(t, p, IndexKey(k + 1))[Rest(Slot(p, k), q)]
  <2>1. CASE k = j
    <3>1. Slot(p, k) = e /\ At(t, p, IndexKey(k + 1)) = a
      BY <1>2, <2>1
    <3>2. q \in DOMAIN w <=> Rest(e, q) \in DOMAIN a
      BY <1>10, <1>13, <3>1
    <3>3. q \in DOMAIN w => w[q] = a[Rest(e, q)]
      BY <1>3, <1>10, <1>11, <1>13, <3>1
    <3> QED BY <3>1, <3>2, <3>3
  <2>2. CASE k # j
    <3>1. k \in i .. j - 1 /\ k \in i .. j
      BY <2>2
    <3>2. ~IsPrefix(e, q)
      BY <1>3, <1>13, <2>2, <3>1
    <3>3. /\ q \in DOMAIN u <=> Rest(Slot(p, k), q) \in DOMAIN At(t, p, IndexKey(k + 1))
          /\ q \in DOMAIN u => u[q] = At(t, p, IndexKey(k + 1))[Rest(Slot(p, k), q)]
      BY <1>13, <3>1 DEF Shifted
    <3>4. (q \in DOMAIN w <=> q \in DOMAIN u) /\ (q \in DOMAIN u => w[q] = u[q])
      BY <1>10, <3>2
    <3> QED BY <3>3, <3>4
  <2> QED BY <2>1, <2>2
<1> QED BY <1>9, <1>12, <1>13 DEF Shifted

\* The loop as a whole: there is no element left in the last place.
LEMMA ShiftedLeftFacts ==
    ASSUME NEW t, IsTree(t), NEW p \in DOMAIN t, t[p].type = "array", NEW i \in 0 .. MaxIndex,
           Slot(p, i) \in DOMAIN t, NEW u, u = ShiftedLeft(t, p, i), NEW last, last = size(t, p) - 1
    PROVE  /\ last \in i .. MaxIndex /\ IsTree(u)
           /\ \E w : /\ Shifted(t, p, i, last, w)
                     /\ \A q : q \in DOMAIN u <=> q \in DOMAIN w /\ ~IsPrefix(Slot(p, last), q)
                     /\ \A q \in DOMAIN u : u[q] = w[q]
<1>1. p \in Path /\ MaxIndex \in Nat /\ i \in 0 .. MaxIndex + 1
  BY TreeFacts, BoundsAssumption
<1>2. last \in i .. MaxIndex
  <2>1. /\ size(t, p) \in 0 .. MaxIndex + 1
        /\ \A k \in Text : Append(p, k) \in DOMAIN t => IndexOf(k) < size(t, p)
    BY SizeFacts
  <2>2. IndexKey(i) \in Text /\ IndexOf(IndexKey(i)) = i
    BY <1>1, KeyFacts
  <2>3. i < size(t, p)
    BY <2>1, <2>2 DEF Slot
  <2> QED BY <1>1, <2>1, <2>3
<1>3. PICK g : g = CHOOSE f : IsShifting(f, t, p, i, last)
  OBVIOUS
<1>4. IsShifting(g, t, p, i, last)
  <2>1. i \in Nat /\ last \in Nat /\ i <= last
    BY <1>1, <1>2
  <2> QED BY <1>3, <2>1, ShiftingExists
<1>5. u = Without(g[last], Slot(p, last))
  BY <1>3 DEF ShiftedLeft, IsShifting, Slot
<1>6. /\ g[i] = t
      /\ \A j \in i .. last : j # i =>
            g[j] = With(g[j - 1], Slot(p, j - 1), At(t, p, IndexKey(j)), 0)
  BY <1>1, <1>2, <1>4 DEF IsShifting, Slot
<1>7. Shifted(t, p, i, i, t)
  <2>1. i .. i - 1 = {}
    BY <1>1
  <2> QED BY <2>1 DEF Shifted
<1> DEFINE X == {j \in Nat : j \in i .. last /\ ~Shifted(t, p, i, j, g[j])}
<1>8. X = {}
  <2> SUFFICES ASSUME X # {} PROVE FALSE
    OBVIOUS
  <2>1. PICK m \in X : \A k \in X : m <= k
    BY LeastElement
  <2>2. m # i
    BY <1>6, <1>7, <2>1
  <2>3. PICK j : j = m - 1
    OBVIOUS
  <2>4. j \in Nat /\ j \in i .. last /\ j \in i .. MaxIndex /\ j + 1 = m /\ ~(m <= j)
    BY <1>1, <1>2, <2>1, <2>2, <2>3
  <2>5. Shifted(t, p, i, j, g[j])
    BY <2>1, <2>4
  <2>6. g[m] = With(g[j], Slot(p, j), At(t, p, IndexKey(j + 1)), 0)
    BY <1>6, <2>1, <2>2, <2>3, <2>4
  <2>7. Shifted(t, p, i, j + 1, g[m])
    BY <2>4, <2>5, <2>6, ShiftTurn
  <2> QED BY <2>1, <2>4, <2>7
<1>9. PICK w : w = g[last]
  OBVIOUS
<1>10. Shifted(t, p, i, last, w)
  BY <1>1, <1>2, <1>8, <1>9
<1>11. PICK e, gone : e = Slot(p, last) /\ gone = Under(w, e)
  OBVIOUS
<1>12. e \in Path /\ e # << >> /\ IsTree(w) /\ u = Keep(w, gone)
  <2>1. last \in 0 .. MaxIndex + 1
    BY <1>1, <1>2
  <2> QED BY <1>1, <1>5, <1>9, <1>10, <1>11, <2>1, SlotFacts DEF Shifted, Without
<1>13. \A q : q \in gone <=> q \in DOMAIN w /\ IsPrefix(e, q)
  BY <1>11 DEF Under
<1>14. IsTree(u)
  <2>1. {e} \in SUBSET Path /\ << >> \notin {e}
    BY <1>12
  <2>2. \A q : q \in gone <=> q \in DOMAIN w /\ \E r \in {e} : IsPrefix(r, q)
    BY <1>13
  <2>3. /\ gone \in SUBSET DOMAIN w /\ << >> \notin gone
        /\ \A q \in DOMAIN w : q # << >> /\ Front(q) \in gone => q \in gone
    BY <1>12, <2>1, <2>2, UnderFacts
  <2> QED BY <1>12, <2>3, KeepIsTree
<1>15. /\ \A q : q \in DOMAIN u <=> q \in DOMAIN w /\ ~IsPrefix(e, q)
       /\ \A q \in DOMAIN u : u[q] = w[q]
  BY <1>12, <1>13, KeepFacts
<1> QED BY <1>2, <1>10, <1>11, <1>14, <1>15

\* ShiftedLeft(), place by place.
LEMMA ShiftedLeftPlaces ==
    ASSUME NEW t, IsTree(t), NEW p \in DOMAIN t, t[p].type = "array", NEW i \in 0 .. MaxIndex,
           Slot(p, i) \in DOMAIN t, NEW u, u = ShiftedLeft(t, p, i), NEW last, last = size(t, p) - 1
    PROVE  /\ last \in i .. MaxIndex /\ IsTree(u)
           /\ \A q \in Path : (\A k \in i .. last : ~IsPrefix(Slot(p, k), q)) =>
                (q \in DOMAIN u <=> q \in DOMAIN t) /\ (q \in DOMAIN t => u[q] = t[q])
           /\ \A k \in i .. last - 1, q \in Path : IsPrefix(Slot(p, k), q) =>
                /\ q \in DOMAIN u <=> Rest(Slot(p, k), q) \in DOMAIN At(t, p, IndexKey(k + 1))
                /\ q \in DOMAIN u => u[q] = At(t, p, IndexKey(k + 1))[Rest(Slot(p, k), q)]
           /\ \A q \in DOMAIN u : ~IsPrefix(Slot(p, last), q)
<1>1. p \in Path /\ MaxIndex \in Nat
  BY TreeFacts, BoundsAssumption
<1>2. last \in i .. MaxIndex /\ IsTree(u)
  BY ShiftedLeftFacts
<1>3. PICK w : /\ Shifted(t, p, i, last, w)
               /\ \A q : q \in DOMAIN u <=> q \in DOMAIN w /\ ~IsPrefix(Slot(p, last), q)
               /\ \A q \in DOMAIN u : u[q] = w[q]
  BY ShiftedLeftFacts
<1>4. ASSUME NEW q \in Path, \A k \in i .. last : ~IsPrefix(Slot(p, k), q)
      PROVE  (q \in DOMAIN u <=> q \in DOMAIN t) /\ (q \in DOMAIN t => u[q] = t[q])
  <2>1. last \in i .. last /\ \A k \in i .. last - 1 : k \in i .. last
    BY <1>2
  <2>2. ~IsPrefix(Slot(p, last), q) /\ \A k \in i .. last - 1 : ~IsPrefix(Slot(p, k), q)
    BY <1>4, <2>1
  <2>3. (q \in DOMAIN w <=> q \in DOMAIN t) /\ (q \in DOMAIN t => w[q] = t[q])
    BY <1>3, <2>2 DEF Shifted
  <2> QED BY <1>3, <2>2, <2>3
<1>5. ASSUME NEW k \in i .. last - 1, NEW q \in Path, IsPrefix(Slot(p, k), q)
      PROVE  /\ q \in DOMAIN u <=> Rest(Slot(p, k), q) \in DOMAIN At(t, p, IndexKey(k + 1))
             /\ q \in DOMAIN u => u[q] = At(t, p, IndexKey(k + 1))[Rest(Slot(p, k), q)]
  <2>1. k \in 0 .. MaxIndex + 1 /\ last \in 0 .. MaxIndex + 1 /\ k # last
    BY <1>1, <1>2
  <2>2. ~IsPrefix(Slot(p, last), q)
    BY <1>1, <1>5, <2>1, SlotFacts
  <2>3. /\ q \in DOMAIN w <=> Rest(Slot(p, k), q) \in DOMAIN At(t, p, IndexKey(k + 1))
        /\ q \in DOMAIN w => w[q] = At(t, p, IndexKey(k + 1))[Rest(Slot(p, k), q)]
    BY <1>3, <1>5 DEF Shifted
  <2> QED BY <1>3, <2>2, <2>3
<1> QED BY <1>2, <1>3, <1>4, <1>5

\* What an element of an array owns. It has no name.
LEMMA AtHolds ==
    ASSUME NEW t, IsTree(t), NEW p \in DOMAIN t, t[p].type = "array", NEW j \in 0 .. MaxIndex + 1,
           NEW a, a = At(t, p, IndexKey(j)), NEW r, NEW f, NEW b
    PROVE  Holds(a, r, f, b) <=> r \in Path /\ Holds(t, Slot(p, j) \o r, f, b)
<1>1. p \in Path
  BY TreeFacts
<1>2. PICK e : e = Slot(p, j)
  OBVIOUS
<1>3. e \in Path /\ e # << >> /\ Front(e) = p
  BY <1>1, <1>2, SlotFacts
<1>4. CASE e \in DOMAIN t
  <2>1. a = Sub(t, e)
    BY <1>2, <1>4, AtFacts
  <2>2. Holds(a, r, f, b) <=> r \in Path /\ Holds(t, e \o r, f, b) /\ ~(r = << >> /\ f = "key")
    BY <1>4, <2>1, SubHolds
  <2>3. t[e].key = 0 /\ e \o << >> = e
    BY <1>3, <1>4, ParentFacts, SubFacts
  <2>4. ~Holds(t, e \o << >>, "key", b)
    BY <2>3 DEF Holds
  <2> QED BY <1>2, <2>2, <2>4
<1>5. CASE e \notin DOMAIN t
  <2>1. ~Holds(a, r, f, b)
    BY <1>2, <1>5, AtFacts, SingleFacts
  <2>2. ASSUME r \in Path PROVE e \o r \notin DOMAIN t
    BY <1>3, <1>5, <2>2, CatFacts, PrefixClosed
  <2> QED BY <1>2, <2>1, <2>2 DEF Holds
<1> QED BY <1>4, <1>5

\* Where the value at q was before: the loop moves what is under one element
\* to the element before.
From(p, i, last, q, r) ==
    \/ q = r /\ \A k \in i .. last : ~IsPrefix(Slot(p, k), q)
    \/ \E k \in i .. last - 1 : \E s \in Path : q = Slot(p, k) \o s /\ r = Slot(p, k + 1) \o s

LEMMA FromFacts ==
    ASSUME NEW p \in Path, NEW i \in 0 .. MaxIndex, NEW last \in i .. MaxIndex
    PROVE  /\ \A q1, q2, r : From(p, i, last, q1, r) /\ From(p, i, last, q2, r) => q1 = q2
           /\ \A q, r : From(p, i, last, q, r) => ~IsPrefix(Slot(p, i), r)
<1>1. MaxIndex \in Nat /\ i \in i .. last
  BY BoundsAssumption
<1>2. \A k \in i .. last - 1 : /\ k \in 0 .. MaxIndex + 1 /\ k + 1 \in 0 .. MaxIndex + 1 /\ k + 1 # i
                              /\ k + 1 \in i .. last
  BY <1>1
<1>3. ASSUME NEW k \in i .. last - 1, NEW s \in Path
      PROVE  /\ IsPrefix(Slot(p, k + 1), Slot(p, k + 1) \o s)
             /\ Slot(p, k + 1) \o s \in Path /\ Rest(Slot(p, k + 1), Slot(p, k + 1) \o s) = s
  <2>1. Slot(p, k + 1) \in Path
    BY <1>2, SlotFacts
  <2> QED BY <2>1, CatFacts
<1>4. ASSUME NEW j \in 0 .. MaxIndex + 1, NEW k \in 0 .. MaxIndex + 1, NEW q \in Path,
             IsPrefix(Slot(p, j), q), IsPrefix(Slot(p, k), q)
      PROVE  j = k
  BY <1>4, SlotFacts
<1>5. ASSUME NEW q1, NEW q2, NEW r, From(p, i, last, q1, r), From(p, i, last, q2, r) PROVE q1 = q2
  <2>1. ASSUME NEW k \in i .. last - 1, NEW s \in Path, r = Slot(p, k + 1) \o s
        PROVE  ~\A j \in i .. last : ~IsPrefix(Slot(p, j), r)
    BY <1>2, <1>3, <2>1
  <2>2. ASSUME NEW k1 \in i .. last - 1, NEW s1 \in Path, q1 = Slot(p, k1) \o s1, r = Slot(p, k1 + 1) \o s1,
               NEW k2 \in i .. last - 1, NEW s2 \in Path, q2 = Slot(p, k2) \o s2, r = Slot(p, k2 + 1) \o s2
        PROVE  q1 = q2
    <3>1. PICK j1, j2 : j1 = k1 + 1 /\ j2 = k2 + 1
      OBVIOUS
    <3>2. /\ r \in Path /\ IsPrefix(Slot(p, j1), r) /\ IsPrefix(Slot(p, j2), r)
          /\ Rest(Slot(p, j1), r) = s1 /\ Rest(Slot(p, j2), r) = s2
      BY <1>3, <2>2, <3>1
    <3>3. j1 \in 0 .. MaxIndex + 1 /\ j2 \in 0 .. MaxIndex + 1
      BY <1>2, <3>1
    <3>4. j1 = j2
      BY <1>4, <3>2, <3>3
    <3>5. k1 = k2
      BY <3>1, <3>4
    <3> QED BY <2>2, <3>2, <3>4, <3>5
  <2> QED BY <1>5, <2>1, <2>2 DEF From
<1>6. ASSUME NEW q, NEW r, From(p, i, last, q, r) PROVE ~IsPrefix(Slot(p, i), r)
  <2>1. ASSUME NEW k \in i .. last - 1, NEW s \in Path, r = Slot(p, k + 1) \o s, IsPrefix(Slot(p, i), r)
        PROVE  FALSE
    <3>1. PICK j : j = k + 1
      OBVIOUS
    <3>2. r \in Path /\ IsPrefix(Slot(p, j), r) /\ j \in 0 .. MaxIndex + 1 /\ j # i /\ i \in 0 .. MaxIndex + 1
      BY <1>1, <1>2, <1>3, <2>1, <3>1
    <3> QED BY <1>4, <2>1, <3>2
  <2> QED BY <1>1, <1>6, <2>1 DEF From
<1> QED BY <1>5, <1>6

LEMMA ShiftTrades ==
    ASSUME NEW t, IsTree(t), Unique(t), NEW p \in DOMAIN t, t[p].type = "array", NEW i \in 0 .. MaxIndex,
           Slot(p, i) \in DOMAIN t
    PROVE  Trades(t, ShiftedLeft(t, p, i), {}, Freed(t, Under(t, Slot(p, i))))
<1>1. PICK u, last : u = ShiftedLeft(t, p, i) /\ last = size(t, p) - 1
  OBVIOUS
<1>2. /\ last \in i .. MaxIndex /\ IsTree(u)
      /\ \A q \in Path : (\A k \in i .. last : ~IsPrefix(Slot(p, k), q)) =>
           (q \in DOMAIN u <=> q \in DOMAIN t) /\ (q \in DOMAIN t => u[q] = t[q])
      /\ \A k \in i .. last - 1, q \in Path : IsPrefix(Slot(p, k), q) =>
           /\ q \in DOMAIN u <=> Rest(Slot(p, k), q) \in DOMAIN At(t, p, IndexKey(k + 1))
           /\ q \in DOMAIN u => u[q] = At(t, p, IndexKey(k + 1))[Rest(Slot(p, k), q)]
      /\ \A q \in DOMAIN u : ~IsPrefix(Slot(p, last), q)
  BY <1>1, ShiftedLeftPlaces
<1>3. p \in Path /\ MaxIndex \in Nat /\ DOMAIN t \subseteq Path /\ DOMAIN u \subseteq Path
  BY <1>2, TreeFacts, BoundsAssumption
<1>4. ASSUME NEW k \in i .. last PROVE k \in 0 .. MaxIndex + 1 /\ Slot(p, k) \in Path
  <2>1. k \in 0 .. MaxIndex + 1
    BY <1>2, <1>3
  <2> QED BY <1>3, <2>1, SlotFacts
<1>5. ASSUME NEW k \in i .. last - 1, NEW s \in Path, NEW f, NEW b
      PROVE  Holds(u, Slot(p, k) \o s, f, b) <=> Holds(t, Slot(p, k + 1) \o s, f, b)
  <2>1. PICK e, q, j, a : e = Slot(p, k) /\ q = e \o s /\ j = k + 1 /\ a = At(t, p, IndexKey(j))
    OBVIOUS
  <2>2. e \in Path /\ j \in 0 .. MaxIndex + 1
    <3>1. k \in i .. last /\ j \in i .. last
      BY <1>2, <2>1
    <3> QED BY <1>4, <2>1, <3>1
  <2>3. q \in Path /\ IsPrefix(e, q) /\ Rest(e, q) = s
    BY <2>1, <2>2, CatFacts
  <2>4. (q \in DOMAIN u <=> s \in DOMAIN a) /\ (q \in DOMAIN u => u[q] = a[s])
    BY <1>2, <2>1, <2>3
  <2>5. Holds(u, q, f, b) <=> Holds(a, s, f, b)
    BY <2>4 DEF Holds
  <2>6. Holds(a, s, f, b) <=> Holds(t, Slot(p, j) \o s, f, b)
    BY <2>1, <2>2, AtHolds
  <2> QED BY <2>1, <2>5, <2>6
<1>6. ASSUME NEW q, NEW f, NEW b, Holds(u, q, f, b)
      PROVE  \E r : From(p, i, last, q, r) /\ Holds(t, r, f, b)
  <2>1. q \in Path /\ q \in DOMAIN u
    BY <1>3, <1>6 DEF Holds
  <2>2. CASE \A k \in i .. last : ~IsPrefix(Slot(p, k), q)
    <3>1. Holds(t, q, f, b)
      BY <1>2, <1>6, <2>1, <2>2 DEF Holds
    <3>2. From(p, i, last, q, q)
      BY <2>2 DEF From
    <3> QED BY <3>1, <3>2
  <2>3. ASSUME NEW k \in i .. last, IsPrefix(Slot(p, k), q)
        PROVE  \E r : From(p, i, last, q, r) /\ Holds(t, r, f, b)
    <3>1. k # last
      BY <1>2, <2>1, <2>3
    <3>2. k \in i .. last - 1
      BY <1>2, <3>1
    <3>3. PICK s : s = Rest(Slot(p, k), q)
      OBVIOUS
    <3>4. s \in Path /\ q = Slot(p, k) \o s
      BY <1>4, <2>1, <2>3, <3>3, RestFacts
    <3>5. Holds(t, Slot(p, k + 1) \o s, f, b)
      BY <1>5, <1>6, <3>2, <3>4
    <3>6. From(p, i, last, q, Slot(p, k + 1) \o s)
      BY <3>2, <3>4 DEF From
    <3> QED BY <3>5, <3>6
  <2> QED BY <2>2, <2>3
<1>7. ASSUME NEW r, NEW f, NEW b, Holds(t, r, f, b), ~IsPrefix(Slot(p, i), r)
      PROVE  \E q : From(p, i, last, q, r) /\ Holds(u, q, f, b)
  <2>1. r \in Path /\ r \in DOMAIN t
    BY <1>3, <1>7 DEF Holds
  <2>2. CASE \A k \in i .. last : ~IsPrefix(Slot(p, k), r)
    <3>1. Holds(u, r, f, b)
      BY <1>2, <1>7, <2>1, <2>2 DEF Holds
    <3>2. From(p, i, last, r, r)
      BY <2>2 DEF From
    <3> QED BY <3>1, <3>2
  <2>3. ASSUME NEW j \in i .. last, IsPrefix(Slot(p, j), r)
        PROVE  \E q : From(p, i, last, q, r) /\ Holds(u, q, f, b)
    <3>1. PICK k : k = j - 1
      OBVIOUS
    <3>2. k \in i .. last - 1 /\ k + 1 = j
      BY <1>2, <1>7, <2>3, <3>1
    <3>3. PICK s : s = Rest(Slot(p, j), r)
      OBVIOUS
    <3>4. s \in Path /\ r = Slot(p, j) \o s
      BY <1>4, <2>1, <2>3, <3>3, RestFacts
    <3>5. r = Slot(p, k + 1) \o s
      BY <3>2, <3>4
    <3>6. Holds(u, Slot(p, k) \o s, f, b)
      BY <1>5, <1>7, <3>2, <3>4, <3>5
    <3>7. From(p, i, last, Slot(p, k) \o s, r)
      BY <3>2, <3>4, <3>5 DEF From
    <3> QED BY <3>6, <3>7
  <2> QED BY <2>2, <2>3
<1>8. PICK gone, F : gone = Under(t, Slot(p, i)) /\ F = Freed(t, gone)
  OBVIOUS
<1>9. ASSUME NEW b PROVE b \in F <=> \E q, f : IsPrefix(Slot(p, i), q) /\ Holds(t, q, f, b)
  <2>1. gone \in SUBSET DOMAIN t /\ \A q : q \in gone <=> q \in DOMAIN t /\ IsPrefix(Slot(p, i), q)
    BY <1>8 DEF Under
  <2>2. b \in F <=> \E q \in gone : \E f : Holds(t, q, f, b)
    BY <1>8, <2>1, FreedIsHeld
  <2>3. \A q, f : Holds(t, q, f, b) => q \in DOMAIN t
    BY DEF Holds
  <2> QED BY <2>1, <2>2, <2>3
<1>10. /\ \A q1, q2, r : From(p, i, last, q1, r) /\ From(p, i, last, q2, r) => q1 = q2
       /\ \A q, r : From(p, i, last, q, r) => ~IsPrefix(Slot(p, i), r)
  BY <1>2, <1>3, FromFacts
<1>11. Unique(u)
  <2> SUFFICES ASSUME NEW q1, NEW f1, NEW q2, NEW f2, NEW b, Holds(u, q1, f1, b), Holds(u, q2, f2, b)
               PROVE  q1 = q2 /\ f1 = f2
    BY DEF Unique
  <2>1. PICK r1 : From(p, i, last, q1, r1) /\ Holds(t, r1, f1, b)
    BY <1>6
  <2>2. PICK r2 : From(p, i, last, q2, r2) /\ Holds(t, r2, f2, b)
    BY <1>6
  <2>3. r1 = r2 /\ f1 = f2
    BY <2>1, <2>2 DEF Unique
  <2> QED BY <1>10, <2>1, <2>2, <2>3
<1>12. ASSUME NEW b
       PROVE  (\E q, f : Holds(u, q, f, b)) <=>
                b \in {} \/ (b \notin F /\ \E q, f : Holds(t, q, f, b))
  <2>1. ASSUME NEW q, NEW f, Holds(u, q, f, b) PROVE b \notin F /\ \E r, g : Holds(t, r, g, b)
    <3>1. PICK r : From(p, i, last, q, r) /\ Holds(t, r, f, b)
      BY <1>6, <2>1
    <3>2. ~IsPrefix(Slot(p, i), r)
      BY <1>10, <3>1
    <3>3. ASSUME NEW r1, NEW g1, Holds(t, r1, g1, b) PROVE r1 = r
      BY <3>1, <3>3 DEF Unique
    <3> QED BY <1>9, <3>1, <3>2, <3>3
  <2>2. ASSUME NEW r, NEW f, Holds(t, r, f, b), b \notin F PROVE \E q, g : Holds(u, q, g, b)
    <3>1. ~IsPrefix(Slot(p, i), r)
      BY <1>9, <2>2
    <3> QED BY <1>7, <2>2, <3>1
  <2> QED BY <2>1, <2>2
<1>13. \A b \in F : \E q, f : Holds(t, q, f, b)
  BY <1>9
<1>14. Trades(t, u, {}, F)
  BY <1>2, <1>11, <1>12, <1>13, Zenon DEF Trades
<1> QED BY <1>1, <1>8, <1>14

LEMMA RemoveIndexStep ==
    ASSUME Inv, NEW x \in Vars, NEW p \in DOMAIN vals[x], NEW i \in 0 .. MaxIndex, NEW y \in Vars,
           remove_index(x, p, i, y)
    PROVE  Inv'
<1>1. PICK old, e, s, t, F :
        /\ old = vals[x] /\ e = Slot(p, i) /\ s = Copy(Sub(vals[x], e))
        /\ t = ShiftedLeft(old, p, i) /\ F = Freed(old, Under(old, e))
  OBVIOUS
<1>2. /\ x # y /\ old[p].type = "array" /\ e \in DOMAIN vals[x] /\ HasRoom(Owners(Sub(vals[x], e)))
      /\ vals' = [vals EXCEPT ![x] = t, ![y] = s]
      /\ heap' = ((heap \cup Owned(s)) \ Owned(vals[y])) \ F /\ aborted' = aborted
  BY <1>1 DEF remove_index, Slot
<1>3. IsNew(s)
  BY <1>1, <1>2, CopyIsNew
<1>4. IsTree(old) /\ Unique(old) /\ p \in DOMAIN old
  BY <1>1, InvFacts
<1>5. Trades(vals[x], t, {}, F)
  BY <1>1, <1>2, <1>4, ShiftTrades
<1> QED BY <1>2, <1>3, <1>5, TwoStep
-----------------------------------------------------------------------------
LEMMA InvHolds == Spec => []Inv
<1>1. Init => Inv
  <2> SUFFICES ASSUME Init PROVE Inv
    OBVIOUS
  <2>1. vals = [x \in Vars |-> Single(Null)] /\ heap = {} /\ aborted = FALSE
    BY DEF Init
  <2>2. vals = [x \in Vars |-> vals[x]] /\ \A x \in Vars : vals[x] = Single(Null)
    BY <2>1
  <2>3. TypeOK
    BY <2>1, <2>2, SingleFacts DEF TypeOK
  <2>4. /\ \A b : b \in heap <=> \E x \in Vars : \E q, f : Holds(vals[x], q, f, b)
        /\ \A x, y \in Vars : \A q, f, r, g, b :
              Holds(vals[x], q, f, b) /\ Holds(vals[y], r, g, b) => x = y /\ q = r /\ f = g
    BY <2>1, <2>2, SingleFacts
  <2>5. OwnsOnce(vals, heap)
    BY <2>4, OwnsOnceIs, Zenon
  <2> QED BY <2>3, <2>5 DEF Inv, OneOwner, OwnsOnce
<1>2. Inv /\ [Next]_vars => Inv'
  <2> SUFFICES ASSUME Inv, [Next]_vars PROVE Inv'
    OBVIOUS
  <2>1. CASE UNCHANGED vars
    BY <2>1 DEF vars, Inv, TypeOK, OneOwner
  <2>2. ASSUME NEW x \in Vars, NEW args \in Paths, MakePath(x, args) PROVE Inv'
    BY <2>2, MakePathStep
  <2>3. ASSUME NEW x \in Vars, NEW y \in Vars, swap(x, y) PROVE Inv'
    BY <2>3, SwapStep
  <2>4. ASSUME NEW x \in Vars, NEW p \in DOMAIN vals[x], NEW s \in Scalars, AssignScalar(x, p, s) PROVE Inv'
    BY <2>4, AssignScalarStep
  <2>5. ASSUME NEW x \in Vars, NEW p \in DOMAIN vals[x], NEW y \in Vars, NEW q \in DOMAIN vals[y],
               AssignValue(x, p, y, q) \/ AppendValue(x, p, y, q)
        PROVE  Inv'
    BY <2>5, AssignValueStep, AppendValueStep
  <2>6. ASSUME NEW x \in Vars, NEW p \in DOMAIN vals[x], NEW i \in 0 .. MaxIndex,
               IndexValue(x, p, i) \/ resize(x, p, i)
        PROVE  Inv'
    BY <2>6, IndexValueStep, ResizeStep
  <2>7. \A i \in DOMAIN Names : Names[i] \in Members
    BY DEF Members
  <2>8. ASSUME NEW x \in Vars, NEW p \in DOMAIN vals[x], NEW i \in DOMAIN Names, NEW static \in BOOLEAN,
               Member(x, p, Names[i], static)
        PROVE  Inv'
    BY <2>7, <2>8, MemberStep
  <2>9. ASSUME NEW x \in Vars, NEW p \in DOMAIN vals[x], clear(x, p) PROVE Inv'
    BY <2>9, ClearStep
  <2>10. ASSUME NEW x \in Vars, NEW p \in DOMAIN vals[x], NEW y \in Vars, NEW i \in DOMAIN Names,
                remove_member(x, p, Names[i], y)
         PROVE  Inv'
    BY <2>7, <2>10, RemoveMemberStep
  <2>11. ASSUME NEW x \in Vars, NEW p \in DOMAIN vals[x], NEW y \in Vars, NEW i \in 0 .. MaxIndex,
                remove_index(x, p, i, y)
         PROVE  Inv'
    BY <2>11, RemoveIndexStep
  <2> QED BY <2>1, <2>2, <2>3, <2>4, <2>5, <2>6, <2>8, <2>9, <2>10, <2>11 DEF Next
<1> QED BY <1>1, <1>2, PTL DEF Spec

\* Whatever a variable holds is a tree with a root, whose values are elements of
\* arrays under indices or members of objects under names: none of the
\* operations of json::value leaves a value without a container, or a null
\* value or a scalar with elements.
THEOREM ValueTypeOK == Spec => []TypeOK
BY InvHolds, PTL DEF Inv

\* Every duplicated string has exactly one owner, and every buffer that is
\* allocated has one: the copy constructor, operator=, swap(), append(),
\* resize(), clear(), remove_member(), remove_index() and path::make() neither
\* share a buffer, nor lose one, nor free one twice, also where a value is
\* assigned to a part of itself.
THEOREM ValueOneOwner == Spec => []OneOwner
BY InvHolds, PTL DEF Inv

-----------------------------------------------------------------------------
\* What the operations on containers leave

LEMMA AtPlaces ==
    ASSUME NEW t, IsTree(t), NEW p \in DOMAIN t, NEW j \in 0 .. MaxIndex + 1, Slot(p, j) \in DOMAIN t,
           NEW a, a = At(t, p, IndexKey(j))
    PROVE  /\ \A r : r \in DOMAIN a <=> r \in Path /\ Slot(p, j) \o r \in DOMAIN t
           /\ \A r \in DOMAIN a : /\ a[r].type = t[Slot(p, j) \o r].type
                                  /\ a[r].num = t[Slot(p, j) \o r].num
<1>1. PICK e : e = Slot(p, j)
  OBVIOUS
<1>2. e \in DOMAIN t /\ a = Sub(t, e)
  BY <1>1, AtFacts
<1>3. /\ \A r : r \in DOMAIN a <=> r \in Path /\ e \o r \in DOMAIN t
      /\ a[<< >>] = [t[e] EXCEPT !.key = 0] /\ e \o << >> = e
      /\ \A r \in DOMAIN a : r # << >> => a[r] = t[e \o r]
  BY <1>2, SubFacts
<1>4. a[<< >>].type = t[e].type /\ a[<< >>].num = t[e].num
  BY <1>2, <1>3, TreeFacts, NodeFacts, NullFacts
<1>5. ASSUME NEW r \in DOMAIN a PROVE a[r].type = t[e \o r].type /\ a[r].num = t[e \o r].num
  <2>1. CASE r = << >>
    BY <1>3, <1>4, <2>1
  <2>2. CASE r # << >>
    BY <1>3, <2>2
  <2> QED BY <2>1, <2>2
<1> QED BY <1>1, <1>3, <1>5

\* The elements of u and of t in two places are the same.
LEMMA AtAgree ==
    ASSUME NEW u, IsTree(u), NEW p \in DOMAIN u, NEW j \in 0 .. MaxIndex + 1, Slot(p, j) \in DOMAIN u,
           NEW c, DOMAIN c \subseteq Path,
           \A r \in Path : (Slot(p, j) \o r \in DOMAIN u <=> r \in DOMAIN c),
           \A r \in DOMAIN c : /\ u[Slot(p, j) \o r].type = c[r].type
                               /\ u[Slot(p, j) \o r].num = c[r].num
    PROVE  SameTree(At(u, p, IndexKey(j)), c)
<1>1. PICK a : a = At(u, p, IndexKey(j))
  OBVIOUS
<1>2. /\ \A r : r \in DOMAIN a <=> r \in Path /\ Slot(p, j) \o r \in DOMAIN u
      /\ \A r \in DOMAIN a : /\ a[r].type = u[Slot(p, j) \o r].type
                             /\ a[r].num = u[Slot(p, j) \o r].num
  BY <1>1, AtPlaces
<1>3. \A r : r \in DOMAIN a <=> r \in DOMAIN c
  BY <1>2
<1>4. DOMAIN a = DOMAIN c
  BY <1>3
<1>5. \A r \in DOMAIN a : a[r].type = c[r].type /\ a[r].num = c[r].num
  BY <1>2, <1>3
<1> QED BY <1>1, <1>4, <1>5 DEF SameTree

LEMMA RemoveIndexKeeps ==
    ASSUME Inv, NEW x \in Vars, NEW y \in Vars, NEW p \in DOMAIN vals[x], NEW i \in 0 .. MaxIndex,
           remove_index(x, p, i, y)
    PROVE  /\ SameTree(vals'[y], At(vals[x], p, IndexKey(i)))
           /\ \A j \in 0 .. MaxIndex :
                SameTree(At(vals'[x], p, IndexKey(j)),
                      At(vals[x], p, IndexKey(IF j < i THEN j ELSE j + 1)))
<1>1. PICK t, e, s, c, u :
        /\ t = vals[x] /\ e = Slot(p, i) /\ s = Sub(t, e) /\ c = Copy(s) /\ u = ShiftedLeft(t, p, i)
  OBVIOUS
<1>2. /\ x # y /\ t[p].type = "array" /\ e \in DOMAIN t /\ HasRoom(Owners(s))
      /\ vals' = [vals EXCEPT ![x] = u, ![y] = c]
  BY <1>1 DEF remove_index, Slot
<1>3. IsTree(t) /\ p \in DOMAIN t /\ p \in Path /\ DOMAIN t \subseteq Path /\ MaxIndex \in Nat
  BY <1>1, InvFacts, TreeFacts, BoundsAssumption
<1>4. vals'[x] = u /\ vals'[y] = c
  BY <1>2, InvFacts
<1>5. SameTree(c, At(t, p, IndexKey(i)))
  <2>1. IsTree(s) /\ s[<< >>].key = 0
    BY <1>1, <1>2, <1>3, SubIsTree
  <2>2. DOMAIN c = DOMAIN s /\ \A q \in DOMAIN s : c[q].type = s[q].type /\ c[q].num = s[q].num
    BY <1>1, <1>2, <2>1, CopyFacts
  <2>3. At(t, p, IndexKey(i)) = s
    BY <1>1, <1>2 DEF At, Slot
  <2> QED BY <2>2, <2>3 DEF SameTree
<1>6. PICK last : last = size(t, p) - 1
  OBVIOUS
<1>7. /\ last \in i .. MaxIndex /\ IsTree(u)
      /\ \A q \in Path : (\A k \in i .. last : ~IsPrefix(Slot(p, k), q)) =>
           (q \in DOMAIN u <=> q \in DOMAIN t) /\ (q \in DOMAIN t => u[q] = t[q])
      /\ \A k \in i .. last - 1, q \in Path : IsPrefix(Slot(p, k), q) =>
           /\ q \in DOMAIN u <=> Rest(Slot(p, k), q) \in DOMAIN At(t, p, IndexKey(k + 1))
           /\ q \in DOMAIN u => u[q] = At(t, p, IndexKey(k + 1))[Rest(Slot(p, k), q)]
      /\ \A q \in DOMAIN u : ~IsPrefix(Slot(p, last), q)
  BY <1>1, <1>2, <1>3, <1>6, ShiftedLeftPlaces
<1>8. p \in DOMAIN u
  <2>1. \A k \in i .. last : k \in 0 .. MaxIndex + 1
    BY <1>3, <1>7
  <2>2. \A k \in i .. last : ~IsPrefix(Slot(p, k), p)
    BY <1>3, <2>1, SlotFacts
  <2> QED BY <1>3, <1>7, <2>2
<1>9. ASSUME NEW j \in 0 .. MaxIndex + 1, NEW r \in Path
      PROVE  /\ Slot(p, j) \in Path /\ Slot(p, j) \o r \in Path /\ Slot(p, j) \o << >> = Slot(p, j)
             /\ IsPrefix(Slot(p, j), Slot(p, j) \o r) /\ Rest(Slot(p, j), Slot(p, j) \o r) = r
             /\ IsPrefix(Slot(p, j), Slot(p, j)) /\ Rest(Slot(p, j), Slot(p, j)) = << >>
  <2>1. Slot(p, j) \in Path /\ IsPrefix(Slot(p, j), Slot(p, j)) /\ Rest(Slot(p, j), Slot(p, j)) = << >>
    BY <1>3, SlotFacts
  <2>2. << >> \in Path
    BY DEF Path
  <2> QED BY <2>1, <2>2, CatFacts
<1>10. ASSUME NEW j \in 0 .. MaxIndex + 1, j \notin i .. last, NEW q \in Path, IsPrefix(Slot(p, j), q)
       PROVE  (q \in DOMAIN u <=> q \in DOMAIN t) /\ (q \in DOMAIN t => u[q] = t[q])
  <2>1. ASSUME NEW k \in i .. last PROVE ~IsPrefix(Slot(p, k), q)
    <3>1. k \in 0 .. MaxIndex + 1 /\ k # j
      BY <1>3, <1>7, <1>10
    <3> QED BY <1>3, <1>10, <3>1, SlotFacts
  <2> QED BY <1>7, <2>1
<1>11. ASSUME NEW j \in 0 .. MaxIndex + 1, j > last PROVE Slot(p, j) \notin DOMAIN t
  <2>1. \A k \in Text : Append(p, k) \in DOMAIN t => IndexOf(k) < size(t, p)
    BY <1>2, <1>3, SizeFacts
  <2>2. IndexKey(j) \in Text /\ IndexOf(IndexKey(j)) = j
    BY <1>3, KeyFacts
  <2>3. size(t, p) \in 0 .. MaxIndex + 1
    BY <1>2, <1>3, SizeFacts
  <2> QED BY <1>3, <1>6, <1>11, <2>1, <2>2, <2>3 DEF Slot
<1>12. ASSUME NEW j \in 0 .. MaxIndex
       PROVE  SameTree(At(u, p, IndexKey(j)), At(t, p, IndexKey(IF j < i THEN j ELSE j + 1)))
  <2>1. j \in 0 .. MaxIndex + 1 /\ j + 1 \in 0 .. MaxIndex + 1
    BY <1>3
  <2>2. CASE j < i
    <3>0. PICK f, a : f = Slot(p, j) /\ a = At(t, p, IndexKey(j))
      OBVIOUS
    <3>1. j \notin i .. last
      BY <1>3, <2>2
    <3>2. CASE f \in DOMAIN t
      <4>1. f \in DOMAIN u
        BY <1>3, <1>9, <1>10, <2>1, <3>0, <3>1, <3>2
      <4>2. /\ \A r : r \in DOMAIN a <=> r \in Path /\ f \o r \in DOMAIN t
            /\ \A r \in DOMAIN a : a[r].type = t[f \o r].type /\ a[r].num = t[f \o r].num
        BY <1>3, <2>1, <3>0, <3>2, AtPlaces
      <4>3. \A r \in Path : (f \o r \in DOMAIN u <=> f \o r \in DOMAIN t)
                            /\ (f \o r \in DOMAIN t => u[f \o r] = t[f \o r])
        BY <1>9, <1>10, <2>1, <3>0, <3>1
      <4>4. /\ DOMAIN a \subseteq Path /\ \A r \in Path : (f \o r \in DOMAIN u <=> r \in DOMAIN a)
            /\ \A r \in DOMAIN a : u[f \o r].type = a[r].type /\ u[f \o r].num = a[r].num
        BY <4>2, <4>3
      <4>5. SameTree(At(u, p, IndexKey(j)), a)
        BY <1>7, <1>8, <2>1, <3>0, <4>1, <4>4, AtAgree
      <4> QED BY <2>2, <3>0, <4>5
    <3>3. CASE f \notin DOMAIN t
      <4>1. f \notin DOMAIN u
        BY <1>3, <1>9, <1>10, <2>1, <3>0, <3>1, <3>3, <1>7, TreeFacts
      <4>2. At(u, p, IndexKey(j)) = Single(Null) /\ a = Single(Null)
        BY <1>3, <1>7, <1>8, <2>1, <3>0, <3>3, <4>1, AtFacts
      <4> QED BY <2>2, <3>0, <4>2 DEF SameTree
    <3> QED BY <3>2, <3>3
  <2>3. CASE j \in i .. last - 1
    <3>0. PICK f, k, a : f = Slot(p, j) /\ k = j + 1 /\ a = At(t, p, IndexKey(k))
      OBVIOUS
    <3>1. IsTree(a) /\ << >> \in DOMAIN a /\ DOMAIN a \subseteq Path
      <4>1. IsTree(a)
        BY <1>3, <2>1, <3>0, AtFacts
      <4> QED BY <4>1, TreeFacts
    <3>2. \A q \in Path : IsPrefix(f, q) =>
             (q \in DOMAIN u <=> Rest(f, q) \in DOMAIN a) /\ (q \in DOMAIN u => u[q] = a[Rest(f, q)])
      BY <1>7, <2>3, <3>0
    <3>3. f \in DOMAIN u
      BY <1>9, <2>1, <3>0, <3>1, <3>2
    <3>4. /\ \A r \in Path : (f \o r \in DOMAIN u <=> r \in DOMAIN a)
          /\ \A r \in DOMAIN a : u[f \o r].type = a[r].type /\ u[f \o r].num = a[r].num
      BY <1>9, <2>1, <3>0, <3>1, <3>2
    <3>5. SameTree(At(u, p, IndexKey(j)), a)
      BY <1>7, <1>8, <2>1, <3>0, <3>1, <3>3, <3>4, AtAgree
    <3>6. ~(j < i)
      BY <2>3
    <3> QED BY <3>0, <3>5, <3>6
  <2>4. CASE j >= last
    <3>1. ~(j < i) /\ j + 1 > last
      BY <1>7, <2>4
    <3>2. Slot(p, j + 1) \notin DOMAIN t
      BY <1>11, <2>1, <3>1
    <3>3. Slot(p, j) \notin DOMAIN u
      <4>1. CASE j = last
        BY <1>7, <1>9, <2>1, <4>1, <1>3
      <4>2. CASE j # last
        <5>1. j > last /\ j \notin i .. last
          BY <1>7, <2>4, <4>2
        <5>2. Slot(p, j) \notin DOMAIN t
          BY <1>11, <2>1, <5>1
        <5> QED BY <1>3, <1>9, <1>10, <2>1, <5>1, <5>2
      <4> QED BY <4>1, <4>2
    <3>4. At(u, p, IndexKey(j)) = Single(Null)
      BY <1>7, <1>8, <2>1, <3>3, AtFacts
    <3>5. At(t, p, IndexKey(j + 1)) = Single(Null)
      BY <1>3, <2>1, <3>2, AtFacts
    <3> QED BY <3>1, <3>4, <3>5 DEF SameTree
  <2> QED BY <1>3, <1>7, <2>2, <2>3, <2>4
<1> QED BY <1>1, <1>4, <1>5, <1>12

\* The places on the way that the arguments of a path describe.
LEMMA PlaceFacts ==
    ASSUME NEW args \in Seq(Arguments)
    PROVE  /\ Where(args) \in Path
           /\ \A n \in 0 .. Len(args) : Place(args, n) \in Path /\ IsPrefix(Place(args, n), Where(args))
           /\ \A n \in 1 .. Len(args) :
                /\ Place(args, n) # << >> /\ Front(Place(args, n)) = Place(args, n - 1)
                /\ Last(Place(args, n)) = args[n].key
                /\ Append(Place(args, n - 1), args[n].key) = Place(args, n)
<1>1. Len(args) \in Nat /\ \A n \in 1 .. Len(args) : args[n] \in Arguments
  OBVIOUS
<1>2. \A n \in 1 .. Len(args) : args[n].key \in Text
  BY <1>1, ArgumentFacts, KeyFacts
<1>3. PICK w : w = Where(args)
  OBVIOUS
<1>4. /\ w \in Path /\ Len(w) = Len(args) /\ \A n \in 1 .. Len(args) : w[n] = args[n].key
  <2>1. DOMAIN args = 1 .. Len(args)
    OBVIOUS
  <2>2. w = [n \in 1 .. Len(args) |-> args[n].key]
    BY <1>3, <2>1 DEF Where
  <2>3. w \in [1 .. Len(args) -> Text]
    BY <1>2, <2>2
  <2> QED BY <1>1, <2>2, <2>3 DEF Path
<1>5. ASSUME NEW n \in 0 .. Len(args)
      PROVE  /\ Place(args, n) \in Path /\ Len(Place(args, n)) = n
             /\ \A k \in 1 .. n : Place(args, n)[k] = w[k]
  BY <1>1, <1>3, <1>4 DEF Place, Path
<1>6. ASSUME NEW n \in 0 .. Len(args) PROVE IsPrefix(Place(args, n), w)
  <2>1. PICK q : q = Place(args, n)
    OBVIOUS
  <2>2. q \in Path /\ Len(q) <= Len(w) /\ \A k \in 1 .. Len(q) : q[k] = w[k]
    BY <1>1, <1>4, <1>5, <2>1
  <2> QED BY <1>4, <2>1, <2>2, PrefixDef
<1>7. ASSUME NEW n \in 1 .. Len(args)
      PROVE  /\ Place(args, n) # << >> /\ Front(Place(args, n)) = Place(args, n - 1)
             /\ Last(Place(args, n)) = args[n].key
             /\ Append(Place(args, n - 1), args[n].key) = Place(args, n)
  <2>1. PICK q, r, m : q = Place(args, n) /\ m = n - 1 /\ r = Place(args, m)
    OBVIOUS
  <2>2. n \in 0 .. Len(args) /\ m \in 0 .. Len(args) /\ n # 0 /\ \A k \in 1 .. m : k \in 1 .. n
    BY <1>1, <2>1
  <2>3. /\ q \in Path /\ Len(q) = n /\ \A k \in 1 .. n : q[k] = w[k]
        /\ r \in Path /\ Len(r) = m /\ \A k \in 1 .. m : r[k] = w[k]
    BY <1>5, <2>1, <2>2
  <2>4. q # << >>
    BY <2>2, <2>3, LenFacts
  <2>5. /\ Front(q) \in Path /\ Len(Front(q)) = m /\ \A k \in 1 .. m : Front(q)[k] = q[k]
        /\ Append(Front(q), Last(q)) = q
    <3>1. /\ Front(q) \in Path /\ Len(Front(q)) = Len(q) - 1
          /\ \A k \in 1 .. Len(q) - 1 : Front(q)[k] = q[k]
          /\ Append(Front(q), Last(q)) = q
      BY <2>3, <2>4, FrontFacts
    <3>2. Len(q) - 1 = m
      BY <2>1, <2>3
    <3> QED BY <3>1, <3>2
  <2>6. Front(q) = r
    BY <2>2, <2>3, <2>5, PathsAgree
  <2>7. Last(q) = args[n].key
    BY <1>4, <2>3 DEF Last
  <2> QED BY <2>1, <2>4, <2>5, <2>6, <2>7
<1> QED BY <1>3, <1>4, <1>5, <1>6, <1>7

\* A place that a tree has is found by path::resolve().
LEMMA ResolveFinds ==
    ASSUME NEW t, IsTree(t), NEW args \in Seq(Arguments), Where(args) \in DOMAIN t
    PROVE  resolve(t, args) = Where(args)
<1>1. \A n \in 0 .. Len(args) : Place(args, n) \in DOMAIN t
  BY PlaceFacts, PrefixClosed
<1>2. ASSUME NEW n \in DOMAIN args
      PROVE  /\ Place(args, n - 1) \in DOMAIN t /\ t[Place(args, n - 1)].type = Expects(args[n])
             /\ args[n].kind = "index" => IndexOf(args[n].key) < size(t, Place(args, n - 1))
             /\ Place(args, n) \in DOMAIN t
  <2>1. n \in 1 .. Len(args) /\ Len(args) \in Nat
    OBVIOUS
  <2>2. n \in 0 .. Len(args) /\ n - 1 \in 0 .. Len(args)
    BY <2>1
  <2>3. PICK p, q, k : p = Place(args, n - 1) /\ q = Place(args, n) /\ k = args[n].key
    OBVIOUS
  <2>4. p \in DOMAIN t /\ q \in DOMAIN t
    BY <1>1, <2>2, <2>3
  <2>5. q # << >> /\ Front(q) = p /\ Last(q) = k /\ Append(p, k) = q
    BY <2>1, <2>3, PlaceFacts
  <2>6. /\ t[p].type \in Containers
        /\ t[p].type = "array" => k \in Elements
        /\ t[p].type = "object" => k \in Members
    BY <2>4, <2>5, ParentFacts
  <2>7. Elements \cap Members = {} /\ Elements \subseteq Text
    BY KeyFacts
  <2>8. args[n] \in Arguments
    BY <2>1
  <2>9. CASE args[n].kind = "index" /\ k \in Elements /\ Expects(args[n]) = "array"
    <3>1. t[p].type = "array"
      BY <2>6, <2>7, <2>9 DEF Containers
    <3>2. IndexOf(k) < size(t, p)
      BY <2>4, <2>5, <2>7, <2>9, <3>1, SizeFacts
    <3> QED BY <2>3, <2>4, <2>9, <3>1, <3>2
  <2>10. CASE args[n].kind = "key" /\ k \in Members /\ Expects(args[n]) = "object"
    <3>1. t[p].type = "object"
      BY <2>6, <2>7, <2>10 DEF Containers
    <3> QED BY <2>3, <2>4, <2>10, <3>1
  <2> QED BY <2>3, <2>8, <2>9, <2>10, ArgumentFacts
<1> QED BY <1>2 DEF resolve

LEMMA MakePathKeeps ==
    ASSUME Inv, NEW x \in Vars, NEW args \in Paths, MakePath(x, args)
    PROVE  /\ Where(args) \in DOMAIN vals'[x] => resolve(vals'[x], args) = Where(args)
           /\ \A p \in DOMAIN vals[x] :
                /\ p \in DOMAIN vals'[x]
                /\ vals[x][p].type \in {"null", vals'[x][p].type}
<1>1. PICK t, M, u, new :
        /\ t = make(vals[x], args) /\ M = NewMembers(t, vals[x]) /\ u = Named(t, vals[x])
        /\ new = NamesOf(u, M)
  OBVIOUS
<1>2. HasRoom(M) /\ vals' = [vals EXCEPT ![x] = u]
  BY <1>1 DEF MakePath, Becomes
<1>3. vals'[x] = u /\ IsTree(vals[x]) /\ args \in Seq(Arguments)
  BY <1>2, InvFacts, PathsAssumption
<1>4. Kept(vals[x], t)
  BY <1>1, <1>3, MakeKeeps
<1>5. DOMAIN u = DOMAIN t /\ (\A q \in DOMAIN t : u[q].type = t[q].type) /\ Trades(vals[x], u, new, {})
  BY <1>1, <1>2, <1>4, NamedFacts
<1>6. Where(args) \in DOMAIN u => resolve(u, args) = Where(args)
  BY <1>3, <1>5, ResolveFinds DEF Trades
<1>7. \A p \in DOMAIN vals[x] : p \in DOMAIN u /\ vals[x][p].type \in {"null", u[p].type}
  BY <1>4, <1>5 DEF Kept
<1> QED BY <1>3, <1>6, <1>7

\* remove_index() moves every element behind the removed one, with all that is
\* under it, one place to the front, changes no other element, and hands the
\* caller an equal copy of what it removed. path::make() loses nothing that was
\* there, and path::resolve() finds what it made. For arrays with any elements
\* missing, at any depth, and paths of any length.
THEOREM ValueContainersAreKept == Spec => ContainersAreKept
<1> DEFINE A == \A x, y \in Vars : \A p \in DOMAIN vals[x], i \in 0 .. MaxIndex :
                  vals'[x] # vals[x] /\ remove_index(x, p, i, y) =>
                    /\ SameTree(vals'[y], At(vals[x], p, IndexKey(i)))
                    /\ \A j \in 0 .. MaxIndex :
                         SameTree(At(vals'[x], p, IndexKey(j)),
                               At(vals[x], p, IndexKey(IF j < i THEN j ELSE j + 1)))
           B == \A x \in Vars, args \in Paths : vals'[x] # vals[x] /\ MakePath(x, args) =>
                  /\ Where(args) \in DOMAIN vals'[x] => resolve(vals'[x], args) = Where(args)
                  /\ \A p \in DOMAIN vals[x] :
                       /\ p \in DOMAIN vals'[x]
                       /\ vals[x][p].type \in {"null", vals'[x][p].type}
<1>1. Inv => A
  <2> SUFFICES ASSUME Inv, NEW x \in Vars, NEW y \in Vars, NEW p \in DOMAIN vals[x],
                      NEW i \in 0 .. MaxIndex, remove_index(x, p, i, y)
               PROVE  /\ SameTree(vals'[y], At(vals[x], p, IndexKey(i)))
                      /\ \A j \in 0 .. MaxIndex :
                           SameTree(At(vals'[x], p, IndexKey(j)),
                                 At(vals[x], p, IndexKey(IF j < i THEN j ELSE j + 1)))
    OBVIOUS
  <2> QED BY RemoveIndexKeeps
<1>2. Inv => B
  <2> SUFFICES ASSUME Inv, NEW x \in Vars, NEW args \in Paths, MakePath(x, args)
               PROVE  /\ Where(args) \in DOMAIN vals'[x] => resolve(vals'[x], args) = Where(args)
                      /\ \A p \in DOMAIN vals[x] :
                           /\ p \in DOMAIN vals'[x]
                           /\ vals[x][p].type \in {"null", vals'[x][p].type}
    OBVIOUS
  <2> QED BY MakePathKeeps
<1> HIDE DEF A, B
<1>3. Spec => [][A]_vars /\ [][B]_vars
  BY <1>1, <1>2, InvHolds, PTL
<1>4. ([][A]_vars <=> RemovesAtIndex) /\ ([][B]_vars <=> PathIsMade)
  BY DEF A, B, RemovesAtIndex, PathIsMade
<1> QED BY <1>3, <1>4 DEF ContainersAreKept

=============================================================================
