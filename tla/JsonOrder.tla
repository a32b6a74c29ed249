------------------------------ MODULE JsonOrder ------------------------------
(***************************************************************************)
(* core/data/json/value.cpp: the comparison of values, on which maps and   *)
(* sorted containers of values rely.                                       *)
(***************************************************************************)
EXTENDS JsonValue

CONSTANTS
    NaN,      \* the number that stands for a real that is none
    Probes    \* values that are compared in addition to those of the variables

ASSUME NaNAssumption == NaN \in Int

IsNaN(node) == node.type = "real" /\ node.num = NaN
HasNaN(t, p) == \E q \in Under(t, p) : IsNaN(t[q])

Rank(type) == CHOOSE i \in DOMAIN Types : Types[i] = type
KeyRank(t, p, k) == IF t[p].type = "array" THEN IndexOf(k)
                    ELSE CHOOSE i \in DOMAIN Names : Names[i] = k
Ordered(t, p) == SetToSortSeq(Keys(t, p), LAMBDA k, l : KeyRank(t, p, k) < KeyRank(t, p, l))

\* operator< of the pairs of a map, at place i of two containers of one size
PairLess(Lt(_, _), t, p, u, q, i) ==
    LET k == Ordered(t, p)[i]
        l == Ordered(u, q)[i]
    IN  \/ KeyRank(t, p, k) < KeyRank(u, q, l)
        \/ k = l /\ Lt(Append(p, k), Append(q, l))

\* operator<: by type, then by payload; containers by the size of their map,
\* then as sequences of pairs. A string without a buffer comes first.
RECURSIVE Less(_, _, _, _)
Less(t, p, u, q) ==
    LET Up(r, s) == Less(t, r, u, s)
        Down(s, r) == Less(u, s, t, r)
        sizes == <<Cardinality(Keys(t, p)), Cardinality(Keys(u, q))>>
    IN  CASE t[p].type # u[q].type -> Rank(t[p].type) < Rank(u[q].type)
          [] t[p].type = u[q].type /\ t[p].type \notin Containers ->
               t[p].num < u[q].num /\ ~IsNaN(t[p]) /\ ~IsNaN(u[q])
          [] OTHER ->
               \/ sizes[1] < sizes[2]
               \/ /\ sizes[1] = sizes[2]
                  /\ \E i \in 1 .. sizes[1] :
                       /\ PairLess(Up, t, p, u, q, i)
                       /\ \A j \in 1 .. i - 1 : ~PairLess(Down, u, q, t, p, j)
-----------------------------------------------------------------------------
\* Faulty variant: containers of one size are equal.
EqualBySize(t, p, u, q) ==
    /\ t[p].type = u[q].type /\ t[p].num = u[q].num
    /\ Cardinality(Keys(t, p)) = Cardinality(Keys(u, q))
    /\ ~HasNaN(t, p)

\* operator==: the same payload all the way down, where no real is equal to a
\* NaN.
Equal(t, p, u, q) == SameTree(Sub(t, p), Sub(u, q)) /\ ~HasNaN(t, p)
-----------------------------------------------------------------------------
\* What is asked of the comparison of any two of some values, each given as a
\* tree and a place in it: < and > exclude each other; of values without a NaN
\* exactly one of <, > and == holds, and < is transitive; a value with a NaN is
\* equal to none, itself included.
AreOrdered(values) ==
    LET Lt(a, b) == Less(a[1], a[2], b[1], b[2])
        Eq(a, b) == Equal(a[1], a[2], b[1], b[2])
        Numbers == {a \in values : ~HasNaN(a[1], a[2])}
        less == {ab \in values \X values : Lt(ab[1], ab[2])}
    IN  /\ \A a, b \in values :
             /\ ~(<<a, b>> \in less /\ <<b, a>> \in less)
             /\ Eq(a, b) => {a, b} \subseteq Numbers
        /\ \A a, b \in Numbers :
             /\ Eq(a, b) <=> <<a, b>> \notin less /\ <<b, a>> \notin less
             /\ \A c \in Numbers : <<a, b>> \in less /\ <<b, c>> \in less => <<a, c>> \in less

ProbesAreOrdered == AreOrdered({<<t, << >>>> : t \in Probes})

\* compare() tells any two values apart or finds them equal, and puts them in a
\* total order, as long as they hold no NaN. This is asked of all values that
\* the program has at a time, and of containers of several elements and members
\* with numbers, strings and NaN in them.
OrderIsTotal ==
    /\ AreOrdered(UNION {{<<vals[x], p>> : p \in DOMAIN vals[x]} : x \in Vars})
    /\ ProbesAreOrdered
-----------------------------------------------------------------------------
\* Refuted statement

\* compare() returns 0 only for values that are equal. For a NaN it returns 0
\* whatever the other real is, and then == does not hold.
ZeroMeansEqual ==
    \A t, u \in Probes :
        ~Less(t, << >>, u, << >>) /\ ~Less(u, << >>, t, << >>) => Equal(t, << >>, u, << >>)
=============================================================================
