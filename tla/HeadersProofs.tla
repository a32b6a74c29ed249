---------------------------- MODULE HeadersProofs ----------------------------
(***************************************************************************)
(* The reference counts of Headers, for any number of handles and layers.  *)
(*                                                                         *)
(* The inductive invariant says, beside the counts, what the operation     *)
(* under way relies on: its handles are constructed, the handle that is    *)
(* read is not the one that is written, and free memory refers to nothing. *)
(***************************************************************************)
EXTENDS Headers, FiniteSetTheorems, TLAPS

\* What the operation under way relies on.
JobIsSound ==
    /\ job.op = "none" => job = NoJob
    /\ job.op # "none" => job.h \in born
    /\ job.op \in {"assign", "move", "defaults"} =>
          job.g \in born /\ job.g # job.h /\ impl[job.g] # Null
    /\ job.op = "defaults" => impl[job.h] # Null /\ impl[job.h] # impl[job.g]

\* Free memory holds no reference that a new layer could inherit.
FreeIsClean == \A i \in Impls : ref_count[i] = 0 => defaults[i] = Null

HeadersInv == TypeOK /\ JobIsSound /\ FreeIsClean /\ RefCountIsExact
-----------------------------------------------------------------------------
\* Every non-empty set of naturals has a least element: induction without a
\* predicate to be instantiated.
LEMMA LeastElement ==
    ASSUME NEW X \in SUBSET Nat, X # {}
    PROVE  \E m \in X : \A k \in X : m <= k
<1> DEFINE R == OpToRel(<, Nat)
<1>1. \A x, y \in Nat : x < y => <<x, y>> \in R
  BY DEF OpToRel
<1>2. IsWellFoundedOn(R, Nat)
  BY NatLessThanWellFounded
<1> HIDE DEF R
<1>3. PICK m \in X : \A k \in X : ~(<<k, m>> \in R)
  BY <1>2, WFMin
<1>4. \A k \in X : ~(k < m)
  BY <1>1, <1>3
<1> QED BY <1>4

\* A walk of n steps from i along the defaults d.
IsWalk(hop, d, i, n) ==
    hop = [k \in 0 .. n |-> IF k = 0 THEN i
                            ELSE IF hop[k - 1] = Null THEN Null ELSE d[hop[k - 1]]]

\* There are walks of any length.
LEMMA WalkExists ==
    ASSUME NEW d, NEW i, NEW n \in Nat
    PROVE  \E hop : IsWalk(hop, d, i, n)
<1> DEFINE Is(hop, m) == IsWalk(hop, d, i, m)
           X == {m \in Nat : ~\E hop : Is(hop, m)}
<1> USE DEF IsWalk
<1> SUFFICES X = {}
  OBVIOUS
<1> SUFFICES ASSUME X # {} PROVE FALSE
  OBVIOUS
<1>1. PICK m \in X : \A k \in X : m <= k
  BY LeastElement
<1>2. CASE m = 0
  <2> DEFINE f == [k \in 0 .. 0 |-> i]
  <2>1. Is(f, 0)
    OBVIOUS
  <2> HIDE DEF f
  <2> QED BY <1>1, <1>2, <2>1
<1>3. CASE m # 0
  <2>1. m \in Nat /\ m - 1 \in Nat /\ m - 1 \notin X
    BY <1>1, <1>3
  <2>2. PICK f : Is(f, m - 1)
    BY <2>1
  <2> DEFINE g == [k \in 0 .. m |-> IF k = m THEN IF f[m - 1] = Null THEN Null ELSE d[f[m - 1]]
                                    ELSE f[k]]
  <2>3. ASSUME NEW k \in 0 .. m
        PROVE  g[k] = IF k = 0 THEN i ELSE IF g[k - 1] = Null THEN Null ELSE d[g[k - 1]]
    <3>1. CASE k = m
      <4>1. m - 1 \in 0 .. m /\ m - 1 # m /\ g[m - 1] = f[m - 1]
        BY <2>1
      <4> QED BY <1>3, <3>1, <4>1
    <3>2. CASE k # m
      <4>1. k \in 0 .. m - 1 /\ g[k] = f[k]
        BY <2>1, <3>2
      <4>2. f[k] = IF k = 0 THEN i ELSE IF f[k - 1] = Null THEN Null ELSE d[f[k - 1]]
        BY <2>2, <4>1
      <4>3. k # 0 => k - 1 \in 0 .. m /\ k - 1 # m /\ g[k - 1] = f[k - 1]
        BY <2>1, <4>1
      <4> QED BY <4>1, <4>2, <4>3
    <3> QED BY <3>1, <3>2
  <2>4. Is(g, m)
    BY <2>3
  <2> HIDE DEF g
  <2> QED BY <1>1, <2>4
<1> QED BY <1>2, <1>3

\* So Hop follows its definition.
LEMMA HopSteps ==
    ASSUME NEW i, NEW k \in 0 .. Cardinality(Impls)
    PROVE  /\ Hop(i)[0] = i
           /\ k # 0 => Hop(i)[k] = IF Hop(i)[k - 1] = Null THEN Null ELSE defaults[Hop(i)[k - 1]]
<1> DEFINE n == Cardinality(Impls)
<1>1. n \in Nat
  BY ImplsAssumption, FS_CardinalityType
<1>2. \E hop : IsWalk(hop, defaults, i, n)
  BY <1>1, WalkExists
<1>3. Hop(i) = CHOOSE hop : IsWalk(hop, defaults, i, n)
  BY DEF Hop, IsWalk
<1>4. IsWalk(Hop(i), defaults, i, n)
  BY <1>2, <1>3
<1> HIDE DEF n
<1> QED BY <1>1, <1>4 DEF n, IsWalk

\* A layer is its own ancestor, so is_ancestor() rules out that a handle is
\* assigned from a handle to the same layer.
LEMMA AncestorIsReflexive ==
    ASSUME TypeOK, NEW i \in Impls
    PROVE  is_ancestor(i, i)
<1>1. 0 \in 0 .. Cardinality(Impls) /\ i # Null
  BY ImplsAssumption, FS_CardinalityType
<1>2. Hop(i)[0] = i
  BY <1>1, HopSteps
<1> QED BY <1>1, <1>2 DEF is_ancestor, Chain
-----------------------------------------------------------------------------
\* Counting

\* Only finitely many refer to a layer.
LEMMA RefsAreFinite ==
    ASSUME TypeOK, NEW i
    PROVE  /\ IsFiniteSet(HandlesTo(i)) /\ Cardinality(HandlesTo(i)) \in Nat
           /\ IsFiniteSet(LayersOver(i)) /\ Cardinality(LayersOver(i)) \in Nat
<1>1. HandlesTo(i) \subseteq Handles /\ LayersOver(i) \subseteq Impls
  BY DEF TypeOK, HandlesTo, LayersOver, Live
<1> QED BY <1>1, ImplsAssumption, FS_Subset, FS_CardinalityType

\* One more and one less.
LEMMA OneMore ==
    ASSUME NEW S, NEW x, IsFiniteSet(S), x \notin S
    PROVE  Cardinality(S \cup {x}) = Cardinality(S) + 1
BY FS_AddElement

LEMMA OneLess ==
    ASSUME NEW S, NEW x, IsFiniteSet(S), x \in S
    PROVE  Cardinality(S \ {x}) = Cardinality(S) - 1
BY FS_RemoveElement

\* Whoever is referred to is in memory: handles outside the operation, layers
\* and the reference that is being given up.
LEMMA ReferencedIsLive ==
    ASSUME HeadersInv, NEW i \in Impls,
           HandlesTo(i) # {} \/ LayersOver(i) # {} \/ job.cell = i
    PROVE  i \in Live
<1>1. /\ IsFiniteSet(HandlesTo(i)) /\ Cardinality(HandlesTo(i)) \in Nat
      /\ IsFiniteSet(LayersOver(i)) /\ Cardinality(LayersOver(i)) \in Nat
  BY RefsAreFinite DEF HeadersInv
<1>2. /\ HandlesTo(i) # {} => Cardinality(HandlesTo(i)) # 0
      /\ LayersOver(i) # {} => Cardinality(LayersOver(i)) # 0
  BY <1>1, FS_EmptySet
<1>3. InFlight(i) \in Nat /\ (job.cell = i => InFlight(i) > 0)
  BY DEF InFlight
<1>4. ref_count[i] = Cardinality(HandlesTo(i)) + Cardinality(LayersOver(i)) + InFlight(i)
  BY DEF HeadersInv, RefCountIsExact
<1>5. ref_count[i] > 0
  BY <1>1, <1>2, <1>3, <1>4
<1> QED BY <1>5 DEF Live

\* In particular the layer that an operation reads from, and the one whose
\* defaults are replaced.
LEMMA JobLayersAreLive ==
    ASSUME HeadersInv
    PROVE  /\ job.op \in {"assign", "move", "defaults"} => impl[job.g] \in Live
           /\ job.op = "defaults" => impl[job.h] \in Live
<1>1. ASSUME job.op \in {"assign", "move", "defaults"} PROVE impl[job.g] \in Live
  <2>1. impl[job.g] \in Impls /\ job.g \in HandlesTo(impl[job.g])
    BY <1>1 DEF HeadersInv, TypeOK, JobIsSound, HandlesTo
  <2> QED BY <2>1, ReferencedIsLive
<1>2. ASSUME job.op = "defaults" PROVE impl[job.h] \in Live
  <2>1. impl[job.h] \in Impls /\ job.h \in HandlesTo(impl[job.h])
    BY <1>2 DEF HeadersInv, TypeOK, JobIsSound, HandlesTo
  <2> QED BY <2>1, ReferencedIsLive
<1> QED BY <1>1, <1>2
-----------------------------------------------------------------------------
\* Everything but the counts

\* Every step keeps the types and what the operation under way relies on.
LEMMA StepKeepsSound ==
    ASSUME HeadersInv, Next
    PROVE  TypeOK' /\ JobIsSound' /\ FreeIsClean'
<1>0. /\ TypeOK /\ JobIsSound /\ FreeIsClean /\ Null \notin Impls
  BY ImplsAssumption DEF HeadersInv
<1> USE DEF TypeOK, JobIsSound, FreeIsClean, layers
<1>1. ASSUME NEW h \in Handles, Construct(h) PROVE TypeOK' /\ JobIsSound' /\ FreeIsClean'
  BY <1>0, <1>1 DEF Construct, NoJob, Live
<1>2. ASSUME NEW h \in Handles, NEW g \in Handles, CopyConstruct(h, g)
      PROVE  TypeOK' /\ JobIsSound' /\ FreeIsClean'
  BY <1>0, <1>2 DEF CopyConstruct, NoJob
<1>3. ASSUME NEW h \in Handles, NEW n \in Names, Set(h, n)
      PROVE  TypeOK' /\ JobIsSound' /\ FreeIsClean'
  BY <1>0, <1>3 DEF Set
<1>4. ASSUME NEW h \in Handles, LookUp(h) PROVE TypeOK' /\ JobIsSound' /\ FreeIsClean'
  BY <1>0, <1>4 DEF LookUp
<1>5. ASSUME NEW h \in Handles, NEW g \in Handles, NEW op \in {"assign", "move"},
             BeginAssign(op, h, g)
      PROVE  TypeOK' /\ JobIsSound' /\ FreeIsClean'
  <2>1. impl[h] # Null /\ ~is_ancestor(impl[h], impl[g]) => impl[h] # impl[g]
    BY <1>0, AncestorIsReflexive
  <2>2. CASE UNCHANGED job
    BY <1>0, <1>5, <2>2 DEF BeginAssign
  <2>3. CASE /\ impl[h] # Null => ~is_ancestor(impl[h], impl[g])
             /\ job' = [op |-> op, h |-> h, g |-> g, cell |-> impl[h]]
             /\ UNCHANGED fault
    BY <1>0, <1>5, <2>1, <2>3 DEF BeginAssign, Ops
  <2> QED BY <1>5, <2>2, <2>3 DEF BeginAssign
<1>6. CASE FinishAssign
  BY <1>0, <1>6 DEF FinishAssign, NoJob, Ops
<1>7. CASE FinishMove
  BY <1>0, <1>7 DEF FinishMove, NoJob, Ops
<1>8. ASSUME NEW h \in Handles, BeginDestroy(h) PROVE TypeOK' /\ JobIsSound' /\ FreeIsClean'
  BY <1>0, <1>8 DEF BeginDestroy, Ops
<1>9. CASE FinishDestroy
  BY <1>0, <1>9 DEF FinishDestroy, NoJob, Ops
<1>10. ASSUME NEW h \in Handles, NEW g \in Handles, BeginDefaults(h, g)
       PROVE  TypeOK' /\ JobIsSound' /\ FreeIsClean'
  <2>1. impl[h] # Null /\ ~is_ancestor(impl[h], impl[g]) => impl[h] # impl[g]
    BY <1>0, AncestorIsReflexive
  <2>2. CASE UNCHANGED <<ref_count, job>>
    BY <1>0, <1>10, <2>2 DEF BeginDefaults
  <2>3. CASE /\ impl[g] # Null /\ impl[h] # Null /\ ~is_ancestor(impl[h], impl[g])
             /\ ref_count' = [ref_count EXCEPT ![impl[g]] = @ + 1]
             /\ job' = [op |-> "defaults", h |-> h, g |-> g, cell |-> defaults[impl[h]]]
             /\ UNCHANGED fault
    BY <1>0, <1>10, <2>1, <2>3 DEF BeginDefaults, Ops
  <2> QED BY <1>10, <2>2, <2>3 DEF BeginDefaults
<1>11. CASE FinishDefaults
  <2>1. impl[job.h] \in Live
    BY <1>11, JobLayersAreLive DEF FinishDefaults
  <2> QED BY <1>0, <1>11, <2>1 DEF FinishDefaults, NoJob, Ops, Live
<1>12. CASE ReleaseRef
  <2>1. job.cell \in Live
    BY <1>0, <1>12, ReferencedIsLive DEF ReleaseRef
  <2>2. ref_count[job.cell] - 1 \in Nat /\ job.op # "none"
    BY <1>0, <1>12, <2>1 DEF ReleaseRef, Live, NoJob
  <2> QED BY <1>0, <1>12, <2>1, <2>2 DEF ReleaseRef, Live
<1> QED BY <1>1, <1>2, <1>3, <1>4, <1>5, <1>6, <1>7, <1>8, <1>9, <1>10, <1>11, <1>12 DEF Next
-----------------------------------------------------------------------------
\* The counts

\* Steps that change nothing that is counted.
LEMMA NothingCounted ==
    ASSUME HeadersInv, UNCHANGED <<born, impl, ref_count, defaults, job>>
    PROVE  RefCountIsExact'
BY DEF HeadersInv, RefCountIsExact, HandlesTo, LayersOver, InFlight, Live

\* A new handle to layer i, which may be new as well: one more refers to i.
LEMMA OneMoreHandle ==
    ASSUME HeadersInv, TypeOK', job = NoJob, NEW h \in Handles, h \notin born, NEW i \in Impls,
           born' = born \cup {h}, impl' = [impl EXCEPT ![h] = i],
           ref_count' = [ref_count EXCEPT ![i] = @ + 1],
           UNCHANGED <<defaults, job>>
    PROVE  RefCountIsExact'
<1>0. TypeOK /\ FreeIsClean /\ RefCountIsExact /\ Null \notin Impls
  BY ImplsAssumption DEF HeadersInv
<1> SUFFICES ASSUME NEW x \in Impls
             PROVE  ref_count'[x] = Cardinality(HandlesTo(x)') + Cardinality(LayersOver(x)')
                                      + InFlight(x)'
  BY DEF RefCountIsExact
<1>1. /\ IsFiniteSet(HandlesTo(x)) /\ Cardinality(HandlesTo(x)) \in Nat
      /\ IsFiniteSet(LayersOver(x)) /\ Cardinality(LayersOver(x)) \in Nat
  BY <1>0, RefsAreFinite
<1>2. LayersOver(x)' = LayersOver(x)
  BY <1>0 DEF TypeOK, FreeIsClean, LayersOver, Live, NoJob
<1>3. InFlight(x)' = 0 /\ InFlight(x) = 0
  BY <1>0 DEF InFlight, NoJob
<1>4. HandlesTo(x)' = (IF x = i THEN HandlesTo(x) \cup {h} ELSE HandlesTo(x)) /\ h \notin HandlesTo(x)
  BY <1>0 DEF TypeOK, HandlesTo, NoJob
<1>5. ref_count'[x] = (IF x = i THEN ref_count[x] + 1 ELSE ref_count[x]) /\ ref_count[x] \in Nat
  BY <1>0 DEF TypeOK
<1>6. ref_count[x] = Cardinality(HandlesTo(x)) + Cardinality(LayersOver(x)) + InFlight(x)
  BY <1>0 DEF RefCountIsExact
<1>7. CASE x = i
  <2>1. Cardinality(HandlesTo(x)') = Cardinality(HandlesTo(x)) + 1
    BY <1>1, <1>4, <1>7, OneMore
  <2> QED BY <1>1, <1>2, <1>3, <1>5, <1>6, <1>7, <2>1
<1>8. CASE x # i
  BY <1>1, <1>2, <1>3, <1>4, <1>5, <1>6, <1>8
<1> QED BY <1>7, <1>8

\* An assignment or a destructor begins: the handle's own reference becomes
\* the one that is being given up.
LEMMA HandleLetsGo ==
    ASSUME HeadersInv, TypeOK', job = NoJob, NEW h \in born,
           NEW op \in {"assign", "move", "destroy"}, NEW g,
           job' = [op |-> op, h |-> h, g |-> g, cell |-> impl[h]],
           UNCHANGED <<born, impl, ref_count, defaults>>
    PROVE  RefCountIsExact'
<1>0. TypeOK /\ RefCountIsExact /\ Null \notin Impls /\ h \in Handles
  BY ImplsAssumption DEF HeadersInv, TypeOK
<1> SUFFICES ASSUME NEW x \in Impls
             PROVE  ref_count'[x] = Cardinality(HandlesTo(x)') + Cardinality(LayersOver(x)')
                                      + InFlight(x)'
  BY DEF RefCountIsExact
<1>1. /\ IsFiniteSet(HandlesTo(x)) /\ Cardinality(HandlesTo(x)) \in Nat
      /\ IsFiniteSet(LayersOver(x)) /\ Cardinality(LayersOver(x)) \in Nat
  BY <1>0, RefsAreFinite
<1>2. LayersOver(x)' = LayersOver(x)
  BY <1>0 DEF LayersOver, Live, NoJob
<1>3. InFlight(x) = 0 /\ InFlight(x)' = IF impl[h] = x THEN 1 ELSE 0
  BY <1>0 DEF InFlight, NoJob
<1>4. HandlesTo(x)' = HandlesTo(x) \ {h} /\ (h \in HandlesTo(x) <=> impl[h] = x)
  BY <1>0 DEF HandlesTo, NoJob
<1>5. ref_count[x] = Cardinality(HandlesTo(x)) + Cardinality(LayersOver(x)) + InFlight(x)
  BY <1>0 DEF RefCountIsExact
<1>6. CASE impl[h] = x
  <2>1. Cardinality(HandlesTo(x)') = Cardinality(HandlesTo(x)) - 1
    BY <1>1, <1>4, <1>6, OneLess
  <2> QED BY <1>1, <1>2, <1>3, <1>5, <1>6, <2>1
<1>7. CASE impl[h] # x
  <2>1. HandlesTo(x)' = HandlesTo(x)
    BY <1>4, <1>7
  <2> QED BY <1>1, <1>2, <1>3, <1>5, <1>7, <2>1
<1> QED BY <1>6, <1>7

\* The last step of the copy assignment.
LEMMA FinishAssignCounts ==
    ASSUME HeadersInv, TypeOK', FinishAssign
    PROVE  RefCountIsExact'
<1>0. TypeOK /\ JobIsSound /\ RefCountIsExact /\ Null \notin Impls
  BY ImplsAssumption DEF HeadersInv
<1> DEFINE h == job.h
           i == impl[job.g]
<1>a. i \in Live /\ i \in Impls /\ h \in born /\ h \in Handles
  BY <1>0, JobLayersAreLive DEF FinishAssign, JobIsSound, TypeOK, Live
<1> SUFFICES ASSUME NEW x \in Impls
             PROVE  ref_count'[x] = Cardinality(HandlesTo(x)') + Cardinality(LayersOver(x)')
                                      + InFlight(x)'
  BY DEF RefCountIsExact
<1>1. /\ IsFiniteSet(HandlesTo(x)) /\ Cardinality(HandlesTo(x)) \in Nat
      /\ IsFiniteSet(LayersOver(x)) /\ Cardinality(LayersOver(x)) \in Nat
  BY <1>0, RefsAreFinite
<1>2. LayersOver(x)' = LayersOver(x)
  BY <1>0, <1>a DEF TypeOK, FinishAssign, LayersOver, Live, NoJob
<1>3. InFlight(x) = 0 /\ InFlight(x)' = 0
  BY <1>0 DEF FinishAssign, InFlight, NoJob
<1>4. HandlesTo(x)' = (IF x = i THEN HandlesTo(x) \cup {h} ELSE HandlesTo(x)) /\ h \notin HandlesTo(x)
  BY <1>0, <1>a DEF TypeOK, FinishAssign, HandlesTo, NoJob
<1>5. ref_count'[x] = (IF x = i THEN ref_count[x] + 1 ELSE ref_count[x]) /\ ref_count[x] \in Nat
  BY <1>0, <1>a DEF TypeOK, FinishAssign
<1>6. ref_count[x] = Cardinality(HandlesTo(x)) + Cardinality(LayersOver(x)) + InFlight(x)
  BY <1>0 DEF RefCountIsExact
<1>7. CASE x = i
  <2>1. Cardinality(HandlesTo(x)') = Cardinality(HandlesTo(x)) + 1
    BY <1>1, <1>4, <1>7, OneMore
  <2> QED BY <1>1, <1>2, <1>3, <1>5, <1>6, <1>7, <2>1
<1>8. CASE x # i
  BY <1>1, <1>2, <1>3, <1>4, <1>5, <1>6, <1>8
<1> QED BY <1>7, <1>8

\* The last step of the move assignment: one handle takes the place of the
\* other.
LEMMA FinishMoveCounts ==
    ASSUME HeadersInv, TypeOK', FinishMove
    PROVE  RefCountIsExact'
<1>0. TypeOK /\ JobIsSound /\ RefCountIsExact /\ Null \notin Impls
  BY ImplsAssumption DEF HeadersInv
<1> DEFINE h == job.h
           g == job.g
           i == impl[job.g]
<1>a. i \in Impls /\ h \in born /\ h \in Handles /\ g \in born /\ g \in Handles /\ g # h
  BY <1>0 DEF FinishMove, JobIsSound, TypeOK
<1> SUFFICES ASSUME NEW x \in Impls
             PROVE  ref_count'[x] = Cardinality(HandlesTo(x)') + Cardinality(LayersOver(x)')
                                      + InFlight(x)'
  BY DEF RefCountIsExact
<1>1. /\ IsFiniteSet(HandlesTo(x)) /\ Cardinality(HandlesTo(x)) \in Nat
      /\ IsFiniteSet(LayersOver(x)) /\ Cardinality(LayersOver(x)) \in Nat
  BY <1>0, RefsAreFinite
<1>2. LayersOver(x)' = LayersOver(x) /\ ref_count' = ref_count
  BY <1>0 DEF FinishMove, LayersOver, Live, NoJob, layers
<1>3. InFlight(x) = 0 /\ InFlight(x)' = 0
  BY <1>0 DEF FinishMove, InFlight, NoJob
<1>4. /\ HandlesTo(x)' = IF x = i THEN (HandlesTo(x) \ {g}) \cup {h} ELSE HandlesTo(x)
      /\ h \notin HandlesTo(x) /\ (x = i => g \in HandlesTo(x))
  BY <1>0, <1>a DEF TypeOK, FinishMove, HandlesTo, NoJob
<1>5. ref_count[x] = Cardinality(HandlesTo(x)) + Cardinality(LayersOver(x)) + InFlight(x)
  BY <1>0 DEF RefCountIsExact
<1>6. CASE x = i
  <2>1. /\ Cardinality(HandlesTo(x) \ {g}) = Cardinality(HandlesTo(x)) - 1
        /\ IsFiniteSet(HandlesTo(x) \ {g})
    BY <1>1, <1>4, <1>6, FS_RemoveElement
  <2>2. Cardinality(HandlesTo(x)') = Cardinality(HandlesTo(x) \ {g}) + 1
    BY <1>4, <1>6, <2>1, OneMore
  <2> QED BY <1>1, <1>2, <1>3, <1>5, <2>1, <2>2
<1>7. CASE x # i
  BY <1>1, <1>2, <1>3, <1>4, <1>5, <1>7
<1> QED BY <1>6, <1>7

\* The last step of a destructor: the handle's reference was given up before.
LEMMA FinishDestroyCounts ==
    ASSUME HeadersInv, FinishDestroy
    PROVE  RefCountIsExact'
<1>0. TypeOK /\ JobIsSound /\ RefCountIsExact /\ Null \notin Impls
  BY ImplsAssumption DEF HeadersInv
<1>1. job.h \in born /\ job.h \in Handles
  BY <1>0 DEF FinishDestroy, JobIsSound, TypeOK
<1>2. ASSUME NEW x \in Impls
      PROVE  /\ HandlesTo(x)' = HandlesTo(x) /\ LayersOver(x)' = LayersOver(x)
             /\ InFlight(x)' = InFlight(x) /\ ref_count' = ref_count
  <2>1. HandlesTo(x)' = HandlesTo(x)
    BY <1>0, <1>1 DEF TypeOK, FinishDestroy, HandlesTo, NoJob
  <2>2. LayersOver(x)' = LayersOver(x) /\ InFlight(x)' = InFlight(x) /\ ref_count' = ref_count
    BY <1>0, <1>1 DEF TypeOK, FinishDestroy, LayersOver, InFlight, Live, NoJob, layers
  <2> QED BY <2>1, <2>2
<1> QED BY <1>0, <1>2 DEF RefCountIsExact

\* get_defaults_from() begins: its parameter is counted, and the reference to
\* the old defaults becomes the one that is being given up.
LEMMA LayerLetsGo ==
    ASSUME HeadersInv, TypeOK', job = NoJob, NEW h \in born, NEW g \in born,
           impl[h] # Null, impl[g] # Null,
           ref_count' = [ref_count EXCEPT ![impl[g]] = @ + 1],
           job' = [op |-> "defaults", h |-> h, g |-> g, cell |-> defaults[impl[h]]],
           UNCHANGED <<born, impl, defaults>>
    PROVE  RefCountIsExact'
<1>0. TypeOK /\ RefCountIsExact /\ Null \notin Impls /\ h \in Handles /\ g \in Handles
  BY ImplsAssumption DEF HeadersInv, TypeOK
<1> DEFINE i == impl[g]
           j == impl[h]
<1>a. i \in Live /\ j \in Live /\ i \in Impls /\ j \in Impls
  <2>1. i \in Impls /\ j \in Impls /\ g \in HandlesTo(i) /\ h \in HandlesTo(j)
    BY <1>0 DEF TypeOK, HandlesTo, NoJob
  <2> QED BY <2>1, ReferencedIsLive
<1> SUFFICES ASSUME NEW x \in Impls
             PROVE  ref_count'[x] = Cardinality(HandlesTo(x)') + Cardinality(LayersOver(x)')
                                      + InFlight(x)'
  BY DEF RefCountIsExact
<1>1. /\ IsFiniteSet(HandlesTo(x)) /\ Cardinality(HandlesTo(x)) \in Nat
      /\ IsFiniteSet(LayersOver(x)) /\ Cardinality(LayersOver(x)) \in Nat
  BY <1>0, RefsAreFinite
<1>2. HandlesTo(x)' = HandlesTo(x)
  BY <1>0 DEF HandlesTo, NoJob
<1>3. LayersOver(x)' = LayersOver(x) \ {j} /\ (j \in LayersOver(x) <=> defaults[j] = x)
  BY <1>0, <1>a DEF TypeOK, LayersOver, Live, NoJob
<1>4. /\ InFlight(x) = 0
      /\ InFlight(x)' = (IF defaults[j] = x THEN 1 ELSE 0) + (IF i = x THEN 1 ELSE 0)
  BY <1>0 DEF InFlight, NoJob
<1>5. ref_count'[x] = ref_count[x] + (IF i = x THEN 1 ELSE 0) /\ ref_count[x] \in Nat
  BY <1>0, <1>a DEF TypeOK
<1>6. ref_count[x] = Cardinality(HandlesTo(x)) + Cardinality(LayersOver(x)) + InFlight(x)
  BY <1>0 DEF RefCountIsExact
<1>7. Cardinality(LayersOver(x)') = Cardinality(LayersOver(x)) - (IF defaults[j] = x THEN 1 ELSE 0)
  <2>1. CASE defaults[j] = x
    BY <1>1, <1>3, <2>1, OneLess
  <2>2. CASE defaults[j] # x
    <3>1. LayersOver(x)' = LayersOver(x)
      BY <1>3, <2>2
    <3> QED BY <1>1, <2>2, <3>1
  <2> QED BY <2>1, <2>2
<1> HIDE DEF i, j
<1>8. CASE defaults[j] = x
  BY <1>1, <1>2, <1>4, <1>5, <1>6, <1>7, <1>8
<1>9. CASE defaults[j] # x
  BY <1>1, <1>2, <1>4, <1>5, <1>6, <1>7, <1>9
<1> QED BY <1>8, <1>9

\* The last step of get_defaults_from(): the new defaults are referred to by
\* the layer instead of the parameter.
LEMMA FinishDefaultsCounts ==
    ASSUME HeadersInv, TypeOK', FinishDefaults
    PROVE  RefCountIsExact'
<1>0. TypeOK /\ JobIsSound /\ RefCountIsExact /\ Null \notin Impls
  BY ImplsAssumption DEF HeadersInv
<1> DEFINE i == impl[job.g]
           j == impl[job.h]
<1>a. i \in Live /\ j \in Live /\ i \in Impls /\ j \in Impls
  BY <1>0, JobLayersAreLive DEF FinishDefaults, Live
<1>b. /\ job.op = "defaults" /\ job.cell = Null /\ job' = NoJob
      /\ defaults' = [defaults EXCEPT ![j] = i]
      /\ UNCHANGED <<born, impl, ref_count>>
  BY DEF FinishDefaults
<1> SUFFICES ASSUME NEW x \in Impls
             PROVE  ref_count'[x] = Cardinality(HandlesTo(x)') + Cardinality(LayersOver(x)')
                                      + InFlight(x)'
  BY DEF RefCountIsExact
<1>1. /\ IsFiniteSet(HandlesTo(x)) /\ Cardinality(HandlesTo(x)) \in Nat
      /\ IsFiniteSet(LayersOver(x)) /\ Cardinality(LayersOver(x)) \in Nat
  BY <1>0, RefsAreFinite
<1>2. HandlesTo(x)' = HandlesTo(x)
  BY <1>0, <1>b DEF HandlesTo, NoJob
<1>3. /\ LayersOver(x)' = IF x = i THEN LayersOver(x) \cup {j} ELSE LayersOver(x)
      /\ j \notin LayersOver(x)
  BY <1>0, <1>a, <1>b DEF TypeOK, LayersOver, Live, NoJob
<1>4. InFlight(x)' = 0 /\ InFlight(x) = IF x = i THEN 1 ELSE 0
  BY <1>0, <1>b DEF InFlight, NoJob
<1>5. ref_count[x] = Cardinality(HandlesTo(x)) + Cardinality(LayersOver(x)) + InFlight(x)
  BY <1>0 DEF RefCountIsExact
<1>6. CASE x = i
  <2>1. Cardinality(LayersOver(x)') = Cardinality(LayersOver(x)) + 1
    BY <1>1, <1>3, <1>6, OneMore
  <2> QED BY <1>1, <1>2, <1>4, <1>5, <1>6, <1>b, <2>1
<1>7. CASE x # i
  BY <1>1, <1>2, <1>3, <1>4, <1>5, <1>7, <1>b
<1> QED BY <1>6, <1>7

\* release_ref() on a layer with other references: one less.
LEMMA ReleaseCounts ==
    ASSUME HeadersInv, TypeOK', job.cell # Null, ref_count[job.cell] # 1,
           ref_count' = [ref_count EXCEPT ![job.cell] = @ - 1],
           job' = [job EXCEPT !.cell = Null],
           UNCHANGED <<born, impl, defaults>>
    PROVE  RefCountIsExact'
<1>0. TypeOK /\ JobIsSound /\ RefCountIsExact /\ Null \notin Impls
  BY ImplsAssumption DEF HeadersInv
<1> DEFINE c == job.cell
<1>1. c \in Impls /\ c \in Live /\ ref_count[c] > 1
  BY <1>0, ReferencedIsLive DEF TypeOK, Live
<1>2. job'.op = job.op /\ job'.h = job.h /\ job'.g = job.g /\ job'.cell = Null
  BY <1>0 DEF TypeOK
<1> SUFFICES ASSUME NEW x \in Impls
             PROVE  ref_count'[x] = Cardinality(HandlesTo(x)') + Cardinality(LayersOver(x)')
                                      + InFlight(x)'
  BY DEF RefCountIsExact
<1>3. HandlesTo(x)' = HandlesTo(x)
  BY <1>2 DEF HandlesTo
<1>4. LayersOver(x)' = LayersOver(x)
  BY <1>0, <1>1, <1>2 DEF TypeOK, LayersOver, Live
<1>5. InFlight(x) = InFlight(x)' + (IF x = c THEN 1 ELSE 0) /\ InFlight(x)' \in Nat
  BY <1>0, <1>2 DEF InFlight
<1>6. /\ Cardinality(HandlesTo(x)) \in Nat /\ Cardinality(LayersOver(x)) \in Nat
      /\ ref_count[x] = Cardinality(HandlesTo(x)) + Cardinality(LayersOver(x)) + InFlight(x)
  BY <1>0, RefsAreFinite DEF RefCountIsExact
<1>7. ref_count'[x] = ref_count[x] - (IF x = c THEN 1 ELSE 0)
  BY <1>0, <1>1 DEF TypeOK
<1> HIDE DEF c
<1> QED BY <1>3, <1>4, <1>5, <1>6, <1>7

\* release_ref() on a layer with no other reference: it is deleted, and its
\* own reference to its defaults is given up next.
LEMMA DeleteCounts ==
    ASSUME HeadersInv, TypeOK', job.cell # Null, ref_count[job.cell] = 1,
           ref_count' = [ref_count EXCEPT ![job.cell] = @ - 1],
           job' = [job EXCEPT !.cell = defaults[job.cell]],
           defaults' = [defaults EXCEPT ![job.cell] = Null],
           UNCHANGED <<born, impl>>
    PROVE  RefCountIsExact'
<1>0. TypeOK /\ JobIsSound /\ RefCountIsExact /\ Null \notin Impls
  BY ImplsAssumption DEF HeadersInv
<1> DEFINE c == job.cell
           d == defaults[c]
<1>1. c \in Impls /\ c \in Live
  BY <1>0 DEF TypeOK, Live
<1>2. job'.op = job.op /\ job'.h = job.h /\ job'.g = job.g /\ job'.cell = d
  BY <1>0 DEF TypeOK
\* Nobody else refers to the layer, so it is not its own defaults and not the
\* layer that get_defaults_from() is about.
<1>3. HandlesTo(c) = {} /\ LayersOver(c) = {} /\ InFlight(c) = 1
  <2>1. /\ Cardinality(HandlesTo(c)) \in Nat /\ Cardinality(LayersOver(c)) \in Nat
        /\ IsFiniteSet(HandlesTo(c)) /\ IsFiniteSet(LayersOver(c))
    BY <1>0, RefsAreFinite
  <2>2. 1 = Cardinality(HandlesTo(c)) + Cardinality(LayersOver(c)) + InFlight(c)
    BY <1>0, <1>1 DEF RefCountIsExact
  <2>3. InFlight(c) \in Nat /\ InFlight(c) > 0
    BY DEF InFlight
  <2>4. Cardinality(HandlesTo(c)) = 0 /\ Cardinality(LayersOver(c)) = 0 /\ InFlight(c) = 1
    BY <2>1, <2>2, <2>3
  <2> QED BY <2>1, <2>4, FS_EmptySet
<1>4. job.op = "defaults" => impl[job.h] # c
  BY <1>0, <1>3 DEF JobIsSound, HandlesTo
<1>5. d # c
  BY <1>1, <1>3, <1>4 DEF LayersOver
<1> SUFFICES ASSUME NEW x \in Impls
             PROVE  ref_count'[x] = Cardinality(HandlesTo(x)') + Cardinality(LayersOver(x)')
                                      + InFlight(x)'
  BY DEF RefCountIsExact
<1>6. HandlesTo(x)' = HandlesTo(x)
  BY <1>2 DEF HandlesTo
<1>7. LayersOver(x)' = LayersOver(x) \ {c} /\ (c \in LayersOver(x) <=> d = x)
  BY <1>0, <1>1, <1>2, <1>4 DEF TypeOK, LayersOver, Live
<1>8. InFlight(x)' + (IF x = c THEN 1 ELSE 0) = InFlight(x) + (IF x = d THEN 1 ELSE 0)
  BY <1>0, <1>2 DEF InFlight
<1>9. /\ Cardinality(HandlesTo(x)) \in Nat /\ Cardinality(LayersOver(x)) \in Nat
      /\ IsFiniteSet(LayersOver(x))
      /\ ref_count[x] = Cardinality(HandlesTo(x)) + Cardinality(LayersOver(x)) + InFlight(x)
  BY <1>0, RefsAreFinite DEF RefCountIsExact
<1>10. ref_count'[x] = ref_count[x] - (IF x = c THEN 1 ELSE 0)
  BY <1>0, <1>1 DEF TypeOK
<1>11. InFlight(x) \in Nat /\ InFlight(x)' \in Nat
  BY DEF InFlight
<1>12. Cardinality(LayersOver(x)') = Cardinality(LayersOver(x)) - (IF d = x THEN 1 ELSE 0)
  <2>1. CASE d = x
    BY <1>7, <1>9, <2>1, OneLess
  <2>2. CASE d # x
    <3>1. LayersOver(x)' = LayersOver(x)
      BY <1>7, <2>2
    <3> QED BY <1>9, <2>2, <3>1
  <2> QED BY <2>1, <2>2
<1> HIDE DEF c, d
<1>13. CASE x = d
  BY <1>5, <1>6, <1>8, <1>9, <1>10, <1>11, <1>12, <1>13
<1>14. CASE x # d
  BY <1>6, <1>8, <1>9, <1>10, <1>11, <1>12, <1>14
<1> QED BY <1>13, <1>14
-----------------------------------------------------------------------------
\* Every step keeps the invariant.
LEMMA NextKeepsInv == HeadersInv /\ [Next]_vars => HeadersInv'
<1> SUFFICES ASSUME HeadersInv, [Next]_vars PROVE HeadersInv'
  OBVIOUS
<1>1. CASE UNCHANGED vars
  <2>1. TypeOK' /\ JobIsSound' /\ FreeIsClean'
    BY <1>1 DEF HeadersInv, TypeOK, JobIsSound, FreeIsClean, vars, layers
  <2>2. RefCountIsExact'
    BY <1>1, NothingCounted DEF vars, layers
  <2> QED BY <2>1, <2>2 DEF HeadersInv
<1>2. CASE Next
  <2>1. TypeOK' /\ JobIsSound' /\ FreeIsClean'
    BY <1>2, StepKeepsSound
  <2>2. TypeOK /\ JobIsSound /\ Null \notin Impls
    BY ImplsAssumption DEF HeadersInv
  <2>3. ASSUME NEW h \in Handles, Construct(h) PROVE RefCountIsExact'
    <3>1. PICK i \in Impls \ Live : /\ impl' = [impl EXCEPT ![h] = i]
                                     /\ ref_count' = [ref_count EXCEPT ![i] = 1]
      BY <2>3 DEF Construct
    <3>2. ref_count' = [ref_count EXCEPT ![i] = @ + 1]
      <4>1. ref_count[i] = 0
        BY <2>2, <3>1 DEF TypeOK, Live
      <4> QED BY <3>1, <4>1
    <3> QED BY <2>1, <2>3, <3>1, <3>2, OneMoreHandle DEF Construct
  <2>4. ASSUME NEW h \in Handles, NEW g \in Handles, CopyConstruct(h, g) PROVE RefCountIsExact'
    <3>1. CASE impl[g] = Null
      BY <2>4, <3>1, NothingCounted DEF CopyConstruct
    <3>2. CASE impl[g] # Null
      <4>1. impl[g] \in Impls
        BY <2>2, <3>2 DEF TypeOK
      <4> QED BY <2>1, <2>4, <3>2, <4>1, OneMoreHandle DEF CopyConstruct
    <3> QED BY <3>1, <3>2
  <2>5. ASSUME NEW h \in Handles, NEW n \in Names, Set(h, n) PROVE RefCountIsExact'
    BY <2>5, NothingCounted DEF Set
  <2>6. ASSUME NEW h \in Handles, LookUp(h) PROVE RefCountIsExact'
    BY <2>6, NothingCounted DEF LookUp, layers
  <2>7. ASSUME NEW h \in Handles, NEW g \in Handles, NEW op \in {"assign", "move"},
               BeginAssign(op, h, g)
        PROVE  RefCountIsExact'
    <3>1. CASE UNCHANGED job
      BY <2>7, <3>1, NothingCounted DEF BeginAssign, layers
    <3>2. CASE job' = [op |-> op, h |-> h, g |-> g, cell |-> impl[h]]
      BY <2>1, <2>7, <3>2, HandleLetsGo DEF BeginAssign, layers
    <3> QED BY <2>7, <3>1, <3>2 DEF BeginAssign
  <2>8. ASSUME NEW h \in Handles, BeginDestroy(h) PROVE RefCountIsExact'
    <3>1. CASE UNCHANGED job
      BY <2>8, <3>1, NothingCounted DEF BeginDestroy, layers
    <3>2. CASE job' = [op |-> "destroy", h |-> h, g |-> Null, cell |-> impl[h]]
      BY <2>1, <2>8, <3>2, HandleLetsGo DEF BeginDestroy, layers
    <3> QED BY <2>8, <3>1, <3>2 DEF BeginDestroy
  <2>9. ASSUME NEW h \in Handles, NEW g \in Handles, BeginDefaults(h, g) PROVE RefCountIsExact'
    <3>1. CASE UNCHANGED <<ref_count, job>>
      BY <2>9, <3>1, NothingCounted DEF BeginDefaults
    <3>2. CASE /\ impl[g] # Null /\ impl[h] # Null
               /\ ref_count' = [ref_count EXCEPT ![impl[g]] = @ + 1]
               /\ job' = [op |-> "defaults", h |-> h, g |-> g, cell |-> defaults[impl[h]]]
      BY <2>1, <2>9, <3>2, LayerLetsGo DEF BeginDefaults
    <3> QED BY <2>9, <3>1, <3>2 DEF BeginDefaults
  <2>10. ASSUME ReleaseRef PROVE RefCountIsExact'
    <3>1. CASE ref_count[job.cell] = 1
      BY <2>1, <2>10, <3>1, DeleteCounts DEF ReleaseRef
    <3>2. CASE ref_count[job.cell] # 1
      BY <2>1, <2>10, <3>2, ReleaseCounts DEF ReleaseRef
    <3> QED BY <3>1, <3>2
  <2>11. RefCountIsExact'
    BY <1>2, <2>1, <2>3, <2>4, <2>5, <2>6, <2>7, <2>8, <2>9, <2>10,
       FinishAssignCounts, FinishMoveCounts, FinishDestroyCounts, FinishDefaultsCounts
       DEF Next
  <2> QED BY <2>1, <2>11 DEF HeadersInv
<1> QED BY <1>1, <1>2

\* The invariant holds of every history of operations.
LEMMA HeadersInvariant == Spec => []HeadersInv
<1>1. Init => HeadersInv
  <2> SUFFICES ASSUME Init PROVE HeadersInv
    OBVIOUS
  <2>1. TypeOK /\ JobIsSound /\ FreeIsClean
    BY DEF Init, TypeOK, JobIsSound, FreeIsClean, NoJob, Ops
  <2>2. ASSUME NEW i \in Impls
        PROVE  HandlesTo(i) = {} /\ LayersOver(i) = {} /\ InFlight(i) = 0 /\ ref_count[i] = 0
    BY <2>2, ImplsAssumption DEF Init, HandlesTo, LayersOver, InFlight, Live, NoJob
  <2>3. RefCountIsExact
    BY <2>2, FS_EmptySet DEF RefCountIsExact
  <2> QED BY <2>1, <2>3 DEF HeadersInv
<1> QED BY <1>1, NextKeepsInv, PTL DEF Spec

\* Type correctness: no release_ref() takes a reference count below zero.
THEOREM HeadersTypeOK == Spec => []TypeOK
<1>1. HeadersInv => TypeOK
  BY DEF HeadersInv
<1> QED BY <1>1, HeadersInvariant, PTL

\* Through any sequence of copies, moves, re-layering and cascades of deletions
\* the reference count of every layer is exactly the number of those who refer
\* to it, for any number of handles and layers, cycles of defaults included.
THEOREM HeadersRefCountIsExact == Spec => []RefCountIsExact
<1>1. HeadersInv => RefCountIsExact
  BY DEF HeadersInv
<1> QED BY <1>1, HeadersInvariant, PTL

\* The layer that an assignment or get_defaults_from() is about to take over
\* is never deleted by the release of the old one that comes before.
THEOREM HeadersSourceStaysAlive == Spec => []SourceStaysAlive
<1>1. HeadersInv => SourceStaysAlive
  BY JobLayersAreLive DEF SourceStaysAlive
<1> QED BY <1>1, HeadersInvariant, PTL
-----------------------------------------------------------------------------
\* Leaks

\* The walk from a layer goes on like the walk from its defaults.
LEMMA HopShifts ==
    ASSUME TypeOK, NEW j \in Impls, NEW n \in Nat, n + 1 <= Cardinality(Impls)
    PROVE  Hop(j)[n + 1] = Hop(defaults[j])[n]
<1> DEFINE C == Cardinality(Impls)
           i == defaults[j]
           X == {m \in Nat : m + 1 <= C /\ Hop(j)[m + 1] # Hop(i)[m]}
<1>0. C \in Nat /\ j # Null
  BY ImplsAssumption, FS_CardinalityType
<1> SUFFICES ASSUME X # {} PROVE FALSE
  OBVIOUS
<1>1. PICK m \in X : \A k \in X : m <= k
  BY LeastElement
<1>2. CASE m = 0
  <2>1. 1 \in 0 .. C /\ 0 \in 0 .. C
    BY <1>0, <1>1, <1>2
  <2>2. Hop(j)[1] = defaults[j] /\ Hop(i)[0] = i
    BY <1>0, <2>1, HopSteps
  <2> QED BY <1>1, <1>2, <2>2
<1>3. CASE m # 0
  <2>1. /\ m \in 0 .. C /\ m + 1 \in 0 .. C /\ m + 1 # 0
        /\ m - 1 \in Nat /\ (m - 1) + 1 <= C /\ (m - 1) + 1 = m /\ (m + 1) - 1 = m
        /\ ~(m <= m - 1)
    BY <1>0, <1>1, <1>3
  <2>2. Hop(j)[m] = Hop(i)[m - 1]
    BY <1>1, <2>1
  <2>3. Hop(j)[m + 1] = IF Hop(j)[m] = Null THEN Null ELSE defaults[Hop(j)[m]]
    BY <2>1, HopSteps
  <2>4. Hop(i)[m] = IF Hop(i)[m - 1] = Null THEN Null ELSE defaults[Hop(i)[m - 1]]
    BY <1>3, <2>1, HopSteps
  <2> QED BY <1>1, <2>2, <2>3, <2>4
<1> QED BY <1>2, <1>3

\* A set of layers each of which is the defaults of another one in the set
\* holds a layer from which the walk never ends.
LEMMA NoFirstLayer ==
    ASSUME TypeOK, NEW U \in SUBSET Impls, U # {},
           \A i \in U : \E j \in U : defaults[j] = i
    PROVE  \E i \in U : Endless(i)
<1> DEFINE C == Cardinality(Impls)
           X == {n \in Nat : n <= C /\ \A i \in U : Hop(i)[n] = Null}
<1>0. C \in Nat /\ Null \notin Impls
  BY ImplsAssumption, FS_CardinalityType
<1> SUFFICES ASSUME \A i \in U : ~Endless(i) PROVE FALSE
  OBVIOUS
<1>1. C \in X
  BY <1>0 DEF Endless
<1>2. PICK n \in X : \A k \in X : n <= k
  BY <1>1, LeastElement
<1>3. n # 0
  <2>1. PICK i \in U : TRUE
    OBVIOUS
  <2>2. Hop(i)[0] = i /\ i # Null
    BY <1>0, HopSteps
  <2> QED BY <1>2, <2>2
<1>4. n - 1 \in Nat /\ n - 1 <= C /\ (n - 1) + 1 = n /\ ~(n <= n - 1)
  BY <1>0, <1>2, <1>3
<1>5. PICK i \in U : Hop(i)[n - 1] # Null
  BY <1>2, <1>4
<1>6. PICK j \in U : defaults[j] = i
  BY <1>5
<1>7. Hop(j)[n] = Hop(i)[n - 1]
  BY <1>2, <1>4, <1>6, HopShifts
<1> QED BY <1>2, <1>5, <1>7

\* Between operations, and as long as no walk along the defaults is endless,
\* every layer in memory is reachable from a handle: nothing leaks, for any
\* number of handles and layers. A layer that is not reachable would have
\* another such layer above it, and that one another, without end.
THEOREM HeadersNoLeak == Spec => []NoLeak
<1>1. HeadersInv => NoLeak
  <2> SUFFICES ASSUME HeadersInv, job = NoJob, \A i \in Live : ~Endless(i)
               PROVE  \A i \in Live : \E h \in born : impl[h] # Null /\ i \in Chain(impl[h])
    BY DEF NoLeak
  <2> DEFINE C == Cardinality(Impls)
             Reached(i) == \E h \in born : impl[h] # Null /\ i \in Chain(impl[h])
             U == {i \in Live : ~Reached(i)}
  <2>0. TypeOK /\ RefCountIsExact /\ Null \notin Impls /\ C \in Nat
    BY ImplsAssumption, FS_CardinalityType DEF HeadersInv
  <2>1. ASSUME NEW i \in U PROVE \E j \in U : defaults[j] = i
    <3>1. i \in Impls /\ ref_count[i] > 0 /\ InFlight(i) = 0
      BY <2>0 DEF Live, InFlight, NoJob
    <3>2. HandlesTo(i) = {}
      <4> SUFFICES ASSUME NEW h \in HandlesTo(i) PROVE FALSE
        OBVIOUS
      <4>1. h \in born /\ impl[h] = i
        BY DEF HandlesTo
      <4>2. i \in Chain(i) /\ i # Null
        BY <2>0, <3>1, AncestorIsReflexive DEF is_ancestor
      <4> QED BY <4>1, <4>2
    <3>3. PICK j \in LayersOver(i) : TRUE
      <4>1. Cardinality(HandlesTo(i)) = 0
        BY <3>2, FS_EmptySet
      <4>2. Cardinality(LayersOver(i)) # 0
        <5>1. ref_count[i] = Cardinality(HandlesTo(i)) + Cardinality(LayersOver(i)) + InFlight(i)
          BY <2>0, <3>1 DEF RefCountIsExact
        <5> QED BY <2>0, <3>1, <4>1, <5>1
      <4> QED BY <4>2, FS_EmptySet
    <3>4. j \in Live /\ defaults[j] = i /\ j \in Impls
      BY DEF LayersOver, Live
    <3>5. ~Reached(j)
      <4> SUFFICES ASSUME NEW h \in born, impl[h] # Null, j \in Chain(impl[h]) PROVE FALSE
        OBVIOUS
      <4>1. impl[h] \in Impls /\ impl[h] \in Live
        <5>1. impl[h] \in Impls /\ h \in HandlesTo(impl[h])
          BY <2>0 DEF TypeOK, HandlesTo, NoJob
        <5> QED BY <5>1, ReferencedIsLive
      <4>2. PICK n \in 0 .. C : Hop(impl[h])[n] = j
        BY DEF Chain
      <4>3. Hop(impl[h])[C] = Null
        BY <4>1 DEF Endless
      <4>4. n + 1 \in 0 .. C /\ n + 1 # 0 /\ (n + 1) - 1 = n
        BY <2>0, <3>4, <4>2, <4>3
      <4>5. Hop(impl[h])[n + 1] = i
        BY <2>0, <3>4, <4>2, <4>4, HopSteps
      <4>6. i \in Chain(impl[h])
        BY <2>0, <3>1, <4>4, <4>5 DEF Chain
      <4> QED BY <4>6
    <3> QED BY <3>4, <3>5
  <2>2. U = {}
    <3> SUFFICES ASSUME U # {} PROVE FALSE
      OBVIOUS
    <3>1. U \in SUBSET Impls
      BY DEF Live
    <3>2. \E i \in U : Endless(i)
      <4> HIDE DEF U
      <4> QED BY <2>0, <2>1, <3>1, NoFirstLayer
    <3> QED BY <3>2
  <2> QED BY <2>2
<1> QED BY <1>1, HeadersInvariant, PTL
=============================================================================
