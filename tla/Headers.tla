------------------------------- MODULE Headers -------------------------------
(***************************************************************************)
(* core/net/headers.cpp: handles (`headers' objects) to reference-counted  *)
(* layers (impl_t), each with a map and a pointer to the layer that its    *)
(* defaults come from.                                                     *)
(*                                                                         *)
(* Giving up a reference may delete a layer, which gives up its reference  *)
(* to its own defaults, and so on; the operation that began this goes on   *)
(* afterwards. So an operation that releases something is a job of several *)
(* steps here: begin, ReleaseRef once per layer, finish.                   *)
(*                                                                         *)
(* Values of headers are left out: a map is the set of names it defines.   *)
(* A failed precondition throws and changes nothing, so preconditions are  *)
(* guards. A null pointer that is followed, or a walk along the defaults   *)
(* that never ends, is recorded in `fault', and nothing happens after it.  *)
(***************************************************************************)
EXTENDS Integers, FiniteSets

CONSTANTS
    Handles,    \* headers objects
    Impls,      \* memory for impl_t objects; free memory has a ref_count of 0
    Names,      \* header names
    Null        \* the null pointer, and a handle that is not constructed

ASSUME ImplsAssumption == IsFiniteSet(Impls) /\ IsFiniteSet(Handles) /\ Null \notin Impls

VARIABLES
    born,       \* handles between constructor and destructor
    impl,       \* headers::impl
    ref_count,  \* impl_t::ref_count
    map,        \* impl_t::map: the names with a value
    defaults,   \* impl_t::defaults
    job,        \* the operation under way and the layer to be released next
    fault       \* "no", "null", "destructor" (of a null handle) or "endless"

layers == <<ref_count, map, defaults>>
vars == <<born, impl, layers, job, fault>>

NoJob == [op |-> "none", h |-> Null, g |-> Null, cell |-> Null]

Init ==
    /\ born = {}
    /\ impl = [h \in Handles |-> Null]
    /\ ref_count = [i \in Impls |-> 0]
    /\ map = [i \in Impls |-> {}]
    /\ defaults = [i \in Impls |-> Null]
    /\ job = NoJob
    /\ fault = "no"

Live == {i \in Impls : ref_count[i] > 0}
-----------------------------------------------------------------------------
\* Walks along the defaults

\* The n-th layer from i, or Null if there are not so many.
Hop(i) ==
    LET hop[n \in 0 .. Cardinality(Impls)] ==
            IF n = 0 THEN i
            ELSE IF hop[n - 1] = Null THEN Null ELSE defaults[hop[n - 1]]
    IN  hop

Chain(i) == {Hop(i)[n] : n \in 0 .. Cardinality(Impls)} \ {Null}
Endless(i) == Hop(i)[Cardinality(Impls)] # Null

\* Faulty variant: nothing is an ancestor of itself.
is_proper_ancestor(i, x) == x \in Chain(i) \ {i}

\* is_ancestor: whether x is i or one of the layers that i gets defaults from.
is_ancestor(i, x) == x \in Chain(i)

\* The walk of is_ancestor(i, x) comes to an end.
Answers(i, x) == is_ancestor(i, x) \/ ~Endless(i)
-----------------------------------------------------------------------------
\* Operations that only take references

Construct(h) ==
    /\ job = NoJob /\ h \notin born
    /\ \E i \in Impls \ Live :
          /\ impl' = [impl EXCEPT ![h] = i]
          /\ ref_count' = [ref_count EXCEPT ![i] = 1]
    /\ born' = born \cup {h}
    /\ UNCHANGED <<map, defaults, job, fault>>

\* headers(headers const &) and headers(headers &&), which copies as well.
\* Copying a null handle throws after the delegated constructor is done, and
\* so runs the destructor on a null impl.
CopyConstruct(h, g) ==
    /\ job = NoJob /\ h \notin born /\ g \in born
    /\ \/ /\ impl[g] = Null
          /\ fault' = "null"
          /\ UNCHANGED <<born, impl, ref_count>>
       \/ /\ impl[g] # Null
          /\ born' = born \cup {h}
          /\ impl' = [impl EXCEPT ![h] = impl[g]]
          /\ ref_count' = [ref_count EXCEPT ![impl[g]] = @ + 1]
          /\ UNCHANGED fault
    /\ UNCHANGED <<map, defaults, job>>

\* set(), and add() of a line with a colon.
Set(h, n) ==
    /\ job = NoJob /\ h \in born
    /\ \/ /\ impl[h] = Null
          /\ fault' = "null" /\ UNCHANGED map
       \/ /\ impl[h] # Null
          /\ map' = [map EXCEPT ![impl[h]] = @ \cup {n}] /\ UNCHANGED fault
    /\ UNCHANGED <<born, impl, ref_count, defaults, job>>

\* get(), contains() or is_empty() for something that no layer defines: the
\* walk goes to the end of the chain. Otherwise nothing happens.
LookUp(h) ==
    /\ job = NoJob /\ h \in born
    /\ impl[h] = Null \/ Endless(impl[h])
    /\ fault' = IF impl[h] = Null THEN "null" ELSE "endless"
    /\ UNCHANGED <<born, impl, layers, job>>
-----------------------------------------------------------------------------
\* Operations that also give up references

\* Both assignments, up to the release of the old layer.
BeginAssign(op, h, g) ==
    /\ job = NoJob /\ h \in born /\ g \in born
    /\ impl[g] # Null
    /\ \/ /\ impl[h] # Null /\ ~Answers(impl[h], impl[g])
          /\ fault' = "endless" /\ UNCHANGED job
       \/ /\ impl[h] # Null => Answers(impl[h], impl[g]) /\ ~is_ancestor(impl[h], impl[g])
          /\ job' = [op |-> op, h |-> h, g |-> g, cell |-> impl[h]]
          /\ UNCHANGED fault
    /\ UNCHANGED <<born, impl, layers>>

\* Faulty variant: the copy is not counted.
FinishAssignUncounted ==
    /\ job.op = "assign" /\ job.cell = Null
    /\ impl' = [impl EXCEPT ![job.h] = impl[job.g]]
    /\ job' = NoJob
    /\ UNCHANGED <<born, layers, fault>>

\* operator =(headers const &)
FinishAssign ==
    /\ job.op = "assign" /\ job.cell = Null
    /\ impl' = [impl EXCEPT ![job.h] = impl[job.g]]
    /\ ref_count' = [ref_count EXCEPT ![impl[job.g]] = @ + 1]
    /\ job' = NoJob
    /\ UNCHANGED <<born, map, defaults, fault>>

\* operator =(headers &&)
FinishMove ==
    /\ job.op = "move" /\ job.cell = Null
    /\ impl' = [impl EXCEPT ![job.h] = impl[job.g], ![job.g] = Null]
    /\ job' = NoJob
    /\ UNCHANGED <<born, layers, fault>>

\* ~headers(): no test for a null impl.
BeginDestroy(h) ==
    /\ job = NoJob /\ h \in born
    /\ \/ /\ impl[h] = Null
          /\ fault' = "destructor" /\ UNCHANGED job
       \/ /\ impl[h] # Null
          /\ job' = [op |-> "destroy", h |-> h, g |-> Null, cell |-> impl[h]]
          /\ UNCHANGED fault
    /\ UNCHANGED <<born, impl, layers>>

FinishDestroy ==
    /\ job.op = "destroy" /\ job.cell = Null
    /\ born' = born \ {job.h}
    /\ impl' = [impl EXCEPT ![job.h] = Null]
    /\ job' = NoJob
    /\ UNCHANGED <<layers, fault>>

\* get_defaults_from(headers): the parameter is a copy, which holds a
\* reference until the function returns.
BeginDefaults(h, g) ==
    /\ job = NoJob /\ h \in born /\ g \in born
    /\ \/ /\ impl[g] = Null \/ impl[h] = Null
          /\ fault' = "null" /\ UNCHANGED <<ref_count, job>>
       \/ /\ impl[g] # Null /\ impl[h] # Null
          /\ ~Answers(impl[h], impl[g])
          /\ fault' = "endless" /\ UNCHANGED <<ref_count, job>>
       \/ /\ impl[g] # Null /\ impl[h] # Null
          /\ Answers(impl[h], impl[g]) /\ ~is_ancestor(impl[h], impl[g])
          /\ ref_count' = [ref_count EXCEPT ![impl[g]] = @ + 1]
          /\ job' = [op |-> "defaults", h |-> h, g |-> g, cell |-> defaults[impl[h]]]
          /\ UNCHANGED fault
    /\ UNCHANGED <<born, impl, map, defaults>>

\* The new defaults are counted and the parameter is gone.
FinishDefaults ==
    /\ job.op = "defaults" /\ job.cell = Null
    /\ defaults' = [defaults EXCEPT ![impl[job.h]] = impl[job.g]]
    /\ job' = NoJob
    /\ UNCHANGED <<born, impl, ref_count, map, fault>>

\* Faulty variant: a deleted layer keeps its reference to its defaults.
ReleaseOnlyOne ==
    /\ job.cell # Null
    /\ ref_count' = [ref_count EXCEPT ![job.cell] = @ - 1]
    /\ job' = [job EXCEPT !.cell = Null]
    /\ map' = IF ref_count[job.cell] = 1 THEN [map EXCEPT ![job.cell] = {}] ELSE map
    /\ defaults' = IF ref_count[job.cell] = 1 THEN [defaults EXCEPT ![job.cell] = Null] ELSE defaults
    /\ UNCHANGED <<born, impl, fault>>

\* Faulty variant: the test for the last reference decrements a second time.
ReleaseTwice ==
    /\ job.cell # Null
    /\ ref_count' = [ref_count EXCEPT ![job.cell] = @ - 2]
    /\ job' = [job EXCEPT !.cell = Null]
    /\ UNCHANGED <<born, impl, map, defaults, fault>>

\* release_ref(), and ~impl_t() if this was the last reference.
ReleaseRef ==
    /\ job.cell # Null
    /\ ref_count' = [ref_count EXCEPT ![job.cell] = @ - 1]
    /\ \/ /\ ref_count[job.cell] = 1
          /\ job' = [job EXCEPT !.cell = defaults[job.cell]]
          /\ map' = [map EXCEPT ![job.cell] = {}]
          /\ defaults' = [defaults EXCEPT ![job.cell] = Null]
       \/ /\ ref_count[job.cell] # 1
          /\ job' = [job EXCEPT !.cell = Null]
          /\ UNCHANGED <<map, defaults>>
    /\ UNCHANGED <<born, impl, fault>>

Next ==
    /\ fault = "no"
    /\ \/ ReleaseRef \/ FinishAssign \/ FinishMove \/ FinishDestroy \/ FinishDefaults
       \/ \E h \in Handles :
             \/ Construct(h) \/ BeginDestroy(h) \/ LookUp(h)
             \/ \E n \in Names : Set(h, n)
             \/ \E g \in Handles :
                   \/ CopyConstruct(h, g) \/ BeginDefaults(h, g)
                   \/ \E op \in {"assign", "move"} : BeginAssign(op, h, g)

Spec == Init /\ [][Next]_vars
-----------------------------------------------------------------------------
\* get_header_count()

\* is_masked: the name is defined between i and the layer `before'.
is_masked(i, n, before) ==
    \E k \in 0 .. Cardinality(Impls) :
        /\ Hop(i)[k] # Null /\ n \in map[Hop(i)[k]]
        /\ \A j \in 0 .. k : Hop(i)[j] # before

\* The loop over the ancestors increments its iterator, which hides the
\* counter, so what they contribute is not counted. (With a last name that is
\* not masked the iterator even passes the end of the map; taking that as
\* harmless is the best case.)
get_header_count(i) == Cardinality(map[i])

\* The headers that get() finds, each in the layer whose value it returns.
Contributed(i) ==
    {e \in Chain(i) \X Names : e[2] \in map[e[1]] /\ ~is_masked(i, e[2], e[1])}
-----------------------------------------------------------------------------
Ops == {"none", "assign", "move", "destroy", "defaults"}

TypeOK ==
    /\ born \subseteq Handles
    /\ impl \in [Handles -> Impls \cup {Null}]
    /\ ref_count \in [Impls -> Nat]
    /\ map \in [Impls -> SUBSET Names]
    /\ defaults \in [Impls -> Impls \cup {Null}]
    /\ job \in [op : Ops, h : Handles \cup {Null}, g : Handles \cup {Null},
                cell : Impls \cup {Null}]
    /\ fault \in {"no", "null", "destructor", "endless"}

\* Who refers to layer i: handles, layers that get defaults from it, the
\* reference that is being given up, and the parameter of get_defaults_from.
\* The handle or the layer that a job is about has given up its own.
HandlesTo(i) ==
    {h \in born : impl[h] = i /\ ~(job.h = h /\ job.op \in {"assign", "move", "destroy"})}
LayersOver(i) ==
    {j \in Live : defaults[j] = i /\ ~(job.op = "defaults" /\ impl[job.h] = j)}
InFlight(i) ==
    (IF job.cell = i THEN 1 ELSE 0)
    + (IF job.op = "defaults" /\ impl[job.g] = i THEN 1 ELSE 0)

\* However copies, moves, re-layering and cascades of deletions follow each
\* other, the reference count of every layer is exactly the number of those
\* who refer to it; so a layer is deleted exactly when nobody does, and no
\* handle and no layer refers to a deleted one.
RefCountIsExact ==
    \A i \in Impls :
        ref_count[i] = Cardinality(HandlesTo(i)) + Cardinality(LayersOver(i)) + InFlight(i)

\* Assignments release the old layer before they count the new one: the new
\* layer is never deleted in between, because the other handle holds it, and
\* is_ancestor() rules out that the other handle is the same one.
SourceStaysAlive ==
    job.op \in {"assign", "move", "defaults"} => impl[job.g] \in Live

\* As long as the defaults form no cycle, nothing leaks: every layer in
\* memory is reachable from a handle between operations.
NoLeak ==
    job = NoJob /\ (\A i \in Live : ~Endless(i)) =>
        \A i \in Live : \E h \in born : impl[h] # Null /\ i \in Chain(impl[h])

-----------------------------------------------------------------------------
\* What comments, documents and tests say and the code does not keep

\* "TEST(headers_test, cycles_disallowed)", and the precondition on
\* is_ancestor in get_defaults_from(): defaults form no cycle.
DefaultsAreAcyclic == \A i \in Live : ~Endless(i)

\* "you can return or assign a headers object by value" (headers.h): an
\* object can be destroyed whatever was assigned from it.
DestructorIsSafe == fault # "destructor"

\* "Provides efficient value semantics" (headers.h): setting a header in one
\* object does not set it in another.
CopiesAreIndependent ==
    [][\A h, g \in born, n \in Names :
          h # g /\ impl[g] # Null /\ Set(h, n) => map'[impl[g]] = map[impl[g]]]_vars

\* "EXPECT_EQ(3u, child.get_header_count())" (headers_test.cpp, layers; two
\* headers of the child's own and one of its parent's): the count includes
\* what the defaults contribute.
CountIncludesDefaults ==
    job = NoJob =>
        \A h \in born : impl[h] # Null /\ ~Endless(impl[h]) =>
            get_header_count(impl[h]) = Cardinality(Contributed(impl[h]))
=============================================================================
