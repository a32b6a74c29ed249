--------------------------- MODULE AssignableClock ---------------------------
(***************************************************************************)
(* core/time/assignable_clock: a process-wide clock that tests can set.    *)
(* Live `session` objects are counted in an unsigned atomic; the free      *)
(* functions now(), sleep_for() and sleep_until() look at that count and   *)
(* then, in a second step, use the fake clock or the steady one.           *)
(*                                                                         *)
(* deactivate() is two atomic operations, fetch_sub and a correcting ++,   *)
(* and deactivate(true) may come between them; both orders are here.       *)
(***************************************************************************)
EXTENDS Integers, FiniteSets

CONSTANTS
    Sessions,   \* assignable_clock::session objects
    Threads,    \* threads that call now(), sleep_for() and sleep_until()
    Modulus,    \* 2^32: the width of the unsigned counter
    Limit,      \* 1000000: counts from here on are read as "inactive"
    MaxTime     \* bound: the latest fake time

ASSUME SessionsAssumption == IsFiniteSet(Sessions)
ASSUME WidthAssumption ==
    /\ Modulus \in Nat /\ Limit \in Nat
    /\ Cardinality(Sessions) < Limit /\ Limit < Modulus
ASSUME TimeAssumption == MaxTime \in Nat

VARIABLES
    session_count,  \* std::atomic<unsigned> session_count
    value,          \* the fake time, under now_mutex
    life,           \* where each session object is in its life
    op,             \* what each thread does after it saw the clock active
    forced          \* history: whether deactivate(true) was ever called

vars == <<session_count, value, life, op, forced>>

Times == 0 .. MaxTime
Lives == {"none", "setting", "live", "undo"}
Ops == {"idle", "now", "sleep_for", "sleep_until"}

Init ==
    /\ session_count = 0
    /\ value = 0
    /\ life = [s \in Sessions |-> "none"]
    /\ op = [t \in Threads |-> "idle"]
    /\ forced = "no"

\* A session object counts from its constructor to its destructor.
Live == {s \in Sessions : life[s] \in {"setting", "live"}}

is_active == session_count > 0 /\ session_count < Limit
-----------------------------------------------------------------------------
\* Faulty variant: the counter has no width.
ActivateUnwrapped(n) == n + 1

\* ++session_count, and what fetch_sub(1) leaves behind, on the unsigned type.
Increment(n) == (n + 1) % Modulus
Decrement(n) == (n + Modulus - 1) % Modulus

\* session() activates; session(time_point) goes on to set the fake time.
Construct(s) ==
    /\ life[s] = "none"
    /\ session_count' = Increment(session_count)
    /\ \E next \in {"live", "setting"} : life' = [life EXCEPT ![s] = next]
    /\ UNCHANGED <<value, op, forced>>

SetInitialTime(s) ==
    /\ life[s] = "setting"
    /\ value' \in Times
    /\ life' = [life EXCEPT ![s] = "live"]
    /\ UNCHANGED <<session_count, op, forced>>

\* Faulty variants: every subtraction is undone, or one too many.
UndoAlways(n) == n >= 0
UndoOffByOne(n) == n <= 1

\* if (n == 0): the fetched count says that the subtraction underflowed.
Underflowed(n) == n = 0

\* ~session(), first atomic operation: fetch_sub.
Destroy(s) ==
    /\ life[s] = "live"
    /\ session_count' = Decrement(session_count)
    /\ life' = [life EXCEPT ![s] = IF Underflowed(session_count) THEN "undo" ELSE "none"]
    /\ UNCHANGED <<value, op, forced>>

\* ~session(), second atomic operation: the correction of an underflow.
CorrectUnderflow(s) ==
    /\ life[s] = "undo"
    /\ session_count' = Increment(session_count)
    /\ life' = [life EXCEPT ![s] = "none"]
    /\ UNCHANGED <<value, op, forced>>

\* deactivate(true): every open session is cancelled at once.
DeactivateForced ==
    /\ session_count' = 0
    /\ forced' = "yes"
    /\ UNCHANGED <<value, life, op>>

\* set_now() and elapse() are also public and ask nothing of is_active().
SetNow ==
    /\ value' \in Times
    /\ UNCHANGED <<session_count, life, op, forced>>

\* The first half of now(), sleep_for() and sleep_until(). A caller that finds
\* the clock inactive uses the steady clock and touches nothing of ours.
Check(t, o) ==
    /\ op[t] = "idle"
    /\ is_active
    /\ op' = [op EXCEPT ![t] = o]
    /\ UNCHANGED <<session_count, value, life, forced>>

ReadNow(t) ==
    /\ op[t] = "now"
    /\ op' = [op EXCEPT ![t] = "idle"]
    /\ UNCHANGED <<session_count, value, life, forced>>

Elapse(t) ==
    /\ op[t] = "sleep_for"
    /\ value' \in {v \in Times : v >= value}
    /\ op' = [op EXCEPT ![t] = "idle"]
    /\ UNCHANGED <<session_count, life, forced>>

SleepUntil(t) ==
    /\ op[t] = "sleep_until"
    /\ value' \in Times
    /\ op' = [op EXCEPT ![t] = "idle"]
    /\ UNCHANGED <<session_count, life, forced>>

Next ==
    \/ \E s \in Sessions :
          Construct(s) \/ SetInitialTime(s) \/ Destroy(s) \/ CorrectUnderflow(s)
    \/ DeactivateForced \/ SetNow
    \/ \E t \in Threads :
          \/ \E o \in Ops \ {"idle"} : Check(t, o)
          \/ ReadNow(t) \/ Elapse(t) \/ SleepUntil(t)

Spec == Init /\ [][Next]_vars
-----------------------------------------------------------------------------
TypeOK ==
    /\ session_count \in 0 .. Modulus - 1
    /\ value \in Times
    /\ life \in [Sessions -> Lives]
    /\ op \in [Threads -> Ops]
    /\ forced \in {"no", "yes"}

\* As long as nobody calls deactivate(true), the unsigned counter is exactly the
\* number of live session objects, whatever the order in which constructors
\* and destructors on different threads run, so no session is ever cancelled
\* by another one's destructor and no destructor takes the correction path.
CountIsLive ==
    forced = "no" =>
        /\ session_count = Cardinality(Live)
        /\ \A s \in Sessions : life[s] # "undo"

\* With forced deactivation the counter may drift, but never far: it stays
\* within twice the number of sessions of zero on either side, so that every
\* underflowed value is far above the limit of is_active() and a drifted
\* count never wraps into the other half of the range.
DriftIsBounded ==
    LET d == 2 * Cardinality(Sessions)
    IN  session_count \in 0 .. d \cup Modulus - d .. Modulus - 1

-----------------------------------------------------------------------------
\* What comments, documents and tests say and the code does not keep

\* "We correct the underflow here ... This makes the underflow harmless"
\* (comment in deactivate): a session object that is constructed when no other
\* session is alive and no destructor is half way makes the clock active.
FreshSessionActivates ==
    [][\A s \in Sessions :
          (Live = {} /\ (\A r \in Sessions : life[r] # "undo") /\ s \in Live')
              => is_active']_vars

\* "Behaves exactly like std::this_thread::sleep_until()" (comment on
\* sleep_until): sleeping never makes the clock that is slept on go back.
SleepNeverRewinds ==
    [][\A t \in Threads : SleepUntil(t) => value' >= value]_vars
=============================================================================
