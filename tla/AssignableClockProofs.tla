------------------------ MODULE AssignableClockProofs ------------------------
(* The session counter of AssignableClock, for any number of sessions and    *)
(* threads and any width of the counter.                                     *)
EXTENDS AssignableClock, FiniteSetTheorems, TLAPS

\* Every step keeps the variables in their types: in particular ++ and
\* fetch_sub stay inside the unsigned type.
LEMMA CounterArithmetic ==
    ASSUME NEW n \in 0 .. Modulus - 1
    PROVE  /\ Increment(n) \in 0 .. Modulus - 1
           /\ Decrement(n) \in 0 .. Modulus - 1
           /\ n < Modulus - 1 => Increment(n) = n + 1
           /\ n > 0 => Decrement(n) = n - 1
<1>1. Modulus \in Nat /\ Modulus > 0
  BY FS_CardinalityType, SessionsAssumption, WidthAssumption
<1>2. CASE n < Modulus - 1
  BY <1>1, <1>2 DEF Increment, Decrement
<1>3. CASE n = Modulus - 1
  BY <1>1, <1>3 DEF Increment, Decrement
<1> QED BY <1>1, <1>2, <1>3

\* Type correctness of the clock: the counter never leaves the unsigned type
\* and the fake time never leaves its range, forced deactivation included.
THEOREM ClockTypeOK == Spec => []TypeOK
<1>1. Init => TypeOK
  BY FS_CardinalityType, SessionsAssumption, WidthAssumption, TimeAssumption
     DEF Init, TypeOK, Times, Lives, Ops
<1>2. TypeOK /\ [Next]_vars => TypeOK'
  <2> SUFFICES ASSUME TypeOK, [Next]_vars PROVE TypeOK'
    OBVIOUS
  <2>1. ASSUME NEW s \in Sessions, Construct(s) PROVE TypeOK'
    BY <2>1, CounterArithmetic DEF TypeOK, Construct, Lives
  <2>2. ASSUME NEW s \in Sessions, SetInitialTime(s) PROVE TypeOK'
    BY <2>2 DEF TypeOK, SetInitialTime, Lives
  <2>3. ASSUME NEW s \in Sessions, Destroy(s) PROVE TypeOK'
    BY <2>3, CounterArithmetic DEF TypeOK, Destroy, Lives
  <2>4. ASSUME NEW s \in Sessions, CorrectUnderflow(s) PROVE TypeOK'
    BY <2>4, CounterArithmetic DEF TypeOK, CorrectUnderflow, Lives
  <2>5. CASE DeactivateForced
    BY <2>5, FS_CardinalityType, SessionsAssumption, WidthAssumption DEF TypeOK, DeactivateForced
  <2>6. CASE SetNow
    BY <2>6 DEF TypeOK, SetNow
  <2>7. ASSUME NEW t \in Threads, NEW o \in Ops, Check(t, o) PROVE TypeOK'
    BY <2>7 DEF TypeOK, Check
  <2>8. ASSUME NEW t \in Threads, ReadNow(t) \/ Elapse(t) \/ SleepUntil(t) PROVE TypeOK'
    BY <2>8 DEF TypeOK, ReadNow, Elapse, SleepUntil, Ops
  <2>9. CASE UNCHANGED vars
    BY <2>9 DEF TypeOK, vars
  <2> QED BY <2>1, <2>2, <2>3, <2>4, <2>5, <2>6, <2>7, <2>8, <2>9 DEF Next
<1> QED BY <1>1, <1>2, PTL DEF Spec

\* As long as nobody calls deactivate(true), session_count is the number of live
\* session objects in every reachable state and no destructor underflows: the
\* sum of concurrent ++ and fetch_sub(1) is exact, for any number of sessions
\* below the limit of is_active().
THEOREM SessionCountIsExact == Spec => []CountIsLive
<1> DEFINE Inv == TypeOK /\ CountIsLive
<1> DEFINE Exact == session_count = Cardinality(Live) /\ \A s \in Sessions : life[s] # "undo"
<1>1. Init => Inv
  <2> SUFFICES ASSUME Init PROVE CountIsLive
    BY FS_CardinalityType, SessionsAssumption, WidthAssumption, TimeAssumption
       DEF Init, TypeOK, Times, Lives, Ops
  <2>1. Live = {}
    BY DEF Init, Live
  <2> QED BY <2>1, FS_EmptySet DEF Init, CountIsLive
<1>2. Inv /\ TypeOK' /\ [Next]_vars => CountIsLive'
  <2> SUFFICES ASSUME Inv, TypeOK', [Next]_vars, forced' = "no" PROVE Exact'
    BY DEF CountIsLive
  <2>e. ASSUME UNCHANGED forced PROVE Exact
    BY <2>e DEF CountIsLive
  <2>0. /\ IsFiniteSet(Live) /\ Cardinality(Live) <= Cardinality(Sessions)
        /\ Cardinality(Live) \in Nat /\ Cardinality(Sessions) \in Nat
    BY FS_Subset, FS_CardinalityType, SessionsAssumption DEF Live
  <2>1. ASSUME NEW s \in Sessions, Construct(s) PROVE Exact'
    <3>0. Exact
      BY <2>e, <2>1 DEF Construct
    <3>1. Live' = Live \cup {s} /\ s \notin Live
      BY <2>1 DEF TypeOK, Construct, Live
    <3>2. Cardinality(Live') = Cardinality(Live) + 1
      BY <2>0, <3>1, FS_AddElement
    <3>3. session_count' = session_count + 1
      BY <2>0, <2>1, <3>0, CounterArithmetic, WidthAssumption DEF TypeOK, Construct
    <3> QED BY <2>1, <3>0, <3>2, <3>3 DEF TypeOK, Construct
  <2>2. ASSUME NEW s \in Sessions, SetInitialTime(s) PROVE Exact'
    <3>0. Exact
      BY <2>e, <2>2 DEF SetInitialTime
    <3>1. Live' = Live
      BY <2>2 DEF TypeOK, SetInitialTime, Live
    <3> QED BY <2>2, <3>0, <3>1 DEF TypeOK, SetInitialTime
  <2>3. ASSUME NEW s \in Sessions, Destroy(s) PROVE Exact'
    <3>0. Exact
      BY <2>e, <2>3 DEF Destroy
    <3>1. s \in Live
      BY <2>3 DEF TypeOK, Destroy, Live
    <3>2. /\ Cardinality(Live \ {s}) = Cardinality(Live) - 1
          /\ Cardinality(Live \ {s}) \in Nat
      BY <2>0, <3>1, FS_RemoveElement, FS_CardinalityType
    <3>3. session_count > 0 /\ ~Underflowed(session_count)
      BY <2>0, <3>0, <3>2 DEF Underflowed
    <3>4. session_count' = session_count - 1 /\ life' = [life EXCEPT ![s] = "none"]
      BY <2>3, <3>3, CounterArithmetic DEF TypeOK, Destroy
    <3>5. Live' = Live \ {s}
      BY <3>4 DEF TypeOK, Live
    <3> QED BY <3>0, <3>2, <3>4, <3>5 DEF TypeOK
  <2>4. ASSUME NEW s \in Sessions, CorrectUnderflow(s) PROVE Exact'
    <3>0. Exact
      BY <2>e, <2>4 DEF CorrectUnderflow
    <3> QED BY <2>4, <3>0 DEF CorrectUnderflow
  <2>5. CASE UNCHANGED <<session_count, life, forced>>
    BY <2>e, <2>5 DEF Live
  <2> QED BY <2>1, <2>2, <2>3, <2>4, <2>5
         DEF Next, vars, DeactivateForced, SetNow, Check, ReadNow, Elapse, SleepUntil
<1> QED BY <1>1, <1>2, ClockTypeOK, PTL DEF Spec
-----------------------------------------------------------------------------
\* Forced deactivation

\* The number of sessions, and the sessions half way through the correction of
\* an underflow.
N == Cardinality(Sessions)
Undoing == {s \in Sessions : life[s] = "undo"}

\* How far the counter is from zero, on either side.
Signed(n) == IF n <= 2 * N THEN n ELSE n - Modulus

\* The inductive invariant: the drift is that of the live sessions, give or
\* take one for every session there is; a correction that is still to come
\* will add one more.
DriftInv ==
    /\ Cardinality(Live) - N <= Signed(session_count)
    /\ Signed(session_count) <= Cardinality(Live) + N - Cardinality(Undoing)

\* ++ and fetch_sub(1) move the drift by one, as long as it is bounded.
LEMMA SignedSteps ==
    ASSUME NEW n \in 0 .. Modulus - 1, Modulus > 4 * N
    PROVE  /\ Signed(n) \in Int
           /\ Signed(n) < 2 * N => Signed(Increment(n)) = Signed(n) + 1
           /\ Signed(n) > -(2 * N) => Signed(Decrement(n)) = Signed(n) - 1
           /\ n = 0 <=> Signed(n) = 0
<1>0. N \in Nat /\ Modulus \in Nat /\ Modulus > 0
  BY FS_CardinalityType, SessionsAssumption, WidthAssumption DEF N
<1>1. /\ Increment(n) = IF n = Modulus - 1 THEN 0 ELSE n + 1
      /\ Decrement(n) = IF n = 0 THEN Modulus - 1 ELSE n - 1
  <2>1. n < Modulus - 1 => Increment(n) = n + 1
    BY CounterArithmetic
  <2>2. n = Modulus - 1 => Increment(n) = 0
    BY <1>0 DEF Increment
  <2>3. n > 0 => Decrement(n) = n - 1
    BY CounterArithmetic
  <2>4. n = 0 => Decrement(n) = Modulus - 1
    BY <1>0 DEF Decrement
  <2> QED BY <1>0, <2>1, <2>2, <2>3, <2>4
<1> QED BY <1>0, <1>1 DEF Signed

\* Live sessions and sessions that undo are different ones.
LEMMA SessionCounts ==
    ASSUME TypeOK
    PROVE  /\ IsFiniteSet(Live) /\ IsFiniteSet(Undoing)
           /\ Cardinality(Live) \in Nat /\ Cardinality(Undoing) \in Nat /\ N \in Nat
           /\ Cardinality(Live) + Cardinality(Undoing) <= N
<1>1. Live \subseteq Sessions /\ Undoing \subseteq Sessions /\ Live \cap Undoing = {}
  BY DEF Live, Undoing
<1>2. /\ IsFiniteSet(Live) /\ IsFiniteSet(Undoing)
      /\ Cardinality(Live) \in Nat /\ Cardinality(Undoing) \in Nat /\ N \in Nat
  BY <1>1, SessionsAssumption, FS_Subset, FS_CardinalityType DEF N
<1>3. Cardinality(Live \cup Undoing) = Cardinality(Live) + Cardinality(Undoing) - Cardinality({})
  BY <1>1, <1>2, FS_Union
<1>4. Cardinality(Live \cup Undoing) <= N
  BY <1>1, SessionsAssumption, FS_Subset DEF N
<1> QED BY <1>2, <1>3, <1>4, FS_EmptySet

\* However constructors, destructors, their corrections and deactivate(true)
\* follow each other, the counter stays within twice the number of sessions of
\* zero: for any number of sessions and any width of the counter.
THEOREM ClockDriftIsBounded == Spec => []DriftIsBounded
<1>0. N \in Nat /\ Modulus \in Nat /\ Modulus > 0
  BY FS_CardinalityType, SessionsAssumption, WidthAssumption DEF N
\* A counter that is so narrow has no room to be out of bounds.
<1>1. CASE Modulus <= 4 * N
  <2>1. TypeOK => DriftIsBounded
    BY <1>0, <1>1 DEF TypeOK, DriftIsBounded, N
  <2> QED BY <2>1, ClockTypeOK, PTL
<1>2. CASE Modulus > 4 * N
  <2>1. Init => DriftInv
    <3> SUFFICES ASSUME Init PROVE DriftInv
      OBVIOUS
    <3>1. Live = {} /\ Undoing = {} /\ session_count = 0
      BY DEF Init, Live, Undoing
    <3> QED BY <1>0, <3>1, FS_EmptySet DEF DriftInv, Signed
  <2>2. TypeOK /\ DriftInv /\ [Next]_vars => DriftInv'
    <3> SUFFICES ASSUME TypeOK, DriftInv, [Next]_vars PROVE DriftInv'
      OBVIOUS
    <3> DEFINE a == Cardinality(Live)
               u == Cardinality(Undoing)
               k == Signed(session_count)
    <3>0. /\ IsFiniteSet(Live) /\ IsFiniteSet(Undoing)
          /\ a \in Nat /\ u \in Nat /\ a + u <= N
          /\ k \in Int /\ a - N <= k /\ k <= a + N - u
          /\ session_count \in 0 .. Modulus - 1
      BY <1>2, SessionCounts, SignedSteps DEF TypeOK, DriftInv
    <3>1. ASSUME NEW s \in Sessions, Construct(s) PROVE DriftInv'
      <4>1. Live' = Live \cup {s} /\ s \notin Live /\ Undoing' = Undoing /\ s \notin Undoing
        BY <3>1 DEF TypeOK, Construct, Live, Undoing
      <4>2. Cardinality(Live') = a + 1 /\ Cardinality(Undoing') = u
        BY <3>0, <4>1, FS_AddElement
      <4>3. a + 1 <= N
        <5>1. Live \cup {s} \subseteq Sessions
          BY DEF Live
        <5> QED BY <4>1, <4>2, <5>1, SessionsAssumption, FS_Subset DEF N
      <4> HIDE DEF a, u, k
      <4>4. k < 2 * N
        BY <1>0, <3>0, <4>3
      <4>5. Signed(session_count') = k + 1
        BY <1>2, <3>0, <3>1, <4>4, SignedSteps DEF Construct, k
      <4> QED BY <1>0, <3>0, <4>2, <4>5 DEF DriftInv
    <3>2. ASSUME NEW s \in Sessions, Destroy(s) PROVE DriftInv'
      <4>1. s \in Live /\ s \notin Undoing /\ Live' = Live \ {s}
        BY <3>2 DEF TypeOK, Destroy, Live, Undoing
      <4>2. Cardinality(Live') = a - 1 /\ a >= 1
        <5>1. Cardinality(Live \ {s}) = a - 1 /\ IsFiniteSet(Live \ {s})
          BY <3>0, <4>1, FS_RemoveElement
        <5>2. Cardinality(Live \ {s}) \in Nat
          BY <5>1, FS_CardinalityType
        <5> QED BY <3>0, <4>1, <5>1, <5>2
      <4>3. CASE session_count = 0
        <5>1. Undoing' = Undoing \cup {s}
          BY <3>2, <4>3 DEF TypeOK, Destroy, Undoing, Underflowed
        <5>2. Cardinality(Undoing') = u + 1
          BY <3>0, <4>1, <5>1, FS_AddElement
        <5> HIDE DEF a, u
        <5>3. k = 0
          BY <1>2, <3>0, <4>3, SignedSteps DEF k
        <5> HIDE DEF k
        <5>4. Signed(session_count') = -1
          <6>1. k > -(2 * N)
            BY <1>0, <3>0, <4>2, <5>3
          <6> QED BY <1>2, <3>0, <3>2, <5>3, <6>1, SignedSteps DEF Destroy, k
        <5> QED BY <1>0, <3>0, <4>2, <5>2, <5>4 DEF DriftInv
      <4>4. CASE session_count # 0
        <5>1. Undoing' = Undoing
          BY <3>2, <4>1, <4>4 DEF TypeOK, Destroy, Undoing, Underflowed
        <5> HIDE DEF a, k
        <5>2. k > -(2 * N)
          BY <1>0, <3>0, <4>2
        <5>3. Signed(session_count') = k - 1
          BY <1>2, <3>0, <3>2, <5>2, SignedSteps DEF Destroy, k
        <5> QED BY <1>0, <3>0, <4>2, <5>1, <5>3 DEF DriftInv
      <4> QED BY <4>3, <4>4
    <3>3. ASSUME NEW s \in Sessions, CorrectUnderflow(s) PROVE DriftInv'
      <4>1. Live' = Live /\ Undoing' = Undoing \ {s} /\ s \in Undoing
        BY <3>3 DEF TypeOK, CorrectUnderflow, Live, Undoing
      <4>2. Cardinality(Undoing') = u - 1 /\ u >= 1
        <5>1. Cardinality(Undoing \ {s}) = u - 1 /\ IsFiniteSet(Undoing \ {s})
          BY <3>0, <4>1, FS_RemoveElement
        <5>2. Cardinality(Undoing \ {s}) \in Nat
          BY <5>1, FS_CardinalityType
        <5> QED BY <3>0, <4>1, <5>1, <5>2
      <4> HIDE DEF u, k
      <4>3. k < 2 * N
        BY <1>0, <3>0, <4>2
      <4>4. Signed(session_count') = k + 1
        BY <1>2, <3>0, <3>3, <4>3, SignedSteps DEF CorrectUnderflow, k
      <4> QED BY <1>0, <3>0, <4>1, <4>2, <4>4 DEF DriftInv
    <3>4. ASSUME NEW s \in Sessions, SetInitialTime(s) PROVE DriftInv'
      <4>1. Live' = Live /\ Undoing' = Undoing /\ session_count' = session_count
        BY <3>4 DEF TypeOK, SetInitialTime, Live, Undoing
      <4> QED BY <4>1 DEF DriftInv
    <3>5. CASE DeactivateForced
      <4>1. Live' = Live /\ Undoing' = Undoing /\ Signed(session_count') = 0
        BY <1>0, <3>5 DEF DeactivateForced, Live, Undoing, Signed
      <4> HIDE DEF a, u
      <4>2. a - N <= 0 /\ 0 <= a + N - u
        BY <1>0, <3>0
      <4> QED BY <4>1, <4>2 DEF DriftInv, a, u
    <3>6. CASE UNCHANGED <<session_count, life>>
      BY <3>6 DEF DriftInv, Live, Undoing
    <3> QED BY <3>1, <3>2, <3>3, <3>4, <3>5, <3>6
           DEF Next, vars, SetNow, Check, ReadNow, Elapse, SleepUntil
  <2>3. TypeOK /\ DriftInv => DriftIsBounded
    <3> SUFFICES ASSUME TypeOK, DriftInv PROVE DriftIsBounded
      OBVIOUS
    <3> DEFINE a == Cardinality(Live)
               u == Cardinality(Undoing)
    <3>1. /\ a \in Nat /\ u \in Nat /\ a + u <= N
          /\ a - N <= Signed(session_count) /\ Signed(session_count) <= a + N - u
          /\ session_count \in 0 .. Modulus - 1
      BY SessionCounts DEF TypeOK, DriftInv
    <3> HIDE DEF a, u
    <3>2. session_count \in 0 .. 2 * N \cup Modulus - 2 * N .. Modulus - 1
      BY <1>0, <3>1 DEF Signed
    <3> QED BY <3>2 DEF DriftIsBounded, N
  <2> QED BY <2>1, <2>2, <2>3, ClockTypeOK, PTL DEF Spec
<1> QED BY <1>0, <1>1, <1>2
=============================================================================
