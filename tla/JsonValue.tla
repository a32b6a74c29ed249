----------------------------- MODULE JsonValue -----------------------------
(***************************************************************************)
(* core/data/json/value.cpp: json::value, a tree of values that own their  *)
(* strings, and path::make(). A variable of the program holds a tree: a    *)
(* map from the paths of its values to their nodes. A path is the sequence *)
(* of names and indices that lead to a value. Strings that were            *)
(* duplicated, as payload or as the name of a member, are in buffers of    *)
(* the heap with a number; 0 stands for a string that the value does not   *)
(* own. Texts of paths are read in JsonPath, values compared in JsonOrder. *)
(* Comments, whose buffers each value owns, copies and frees with itself,  *)
(* are left out, as are offsets.                                           *)
(***************************************************************************)
EXTENDS Integers, Sequences, FiniteSets, SequencesExt, FiniteSetsExt, TLC

CONSTANTS
    Vars,        \* variables of the program that hold a value
    Names,       \* a sequence of member names, in the order of their text
    IndexKeys,   \* the keys that stand for array indices
    Scalars,     \* nodes that constructors make; str = 1 asks for a duplicate
    Paths,       \* the arguments of paths, as path::make_path() leaves them
    MaxIndex,    \* bound: the largest array index
    MaxBuffers,  \* bound: string buffers at a time
    MaxNodes,    \* bound: values at a time
    MaxDepth     \* bound: the length of a path

Types == <<"null", "int", "uint", "real", "string", "bool", "array", "object">>
ValueTypes == {Types[i] : i \in DOMAIN Types}
Containers == {"array", "object"}

\* The keys of elements and members, and the arguments of a path.
Elements == {IndexKeys[i] : i \in 0 .. MaxIndex}
Members == {Names[i] : i \in DOMAIN Names}
Arguments == [kind : {"index"}, key : Elements] \cup [kind : {"key"}, key : Members]

ASSUME BoundsAssumption == Vars # {} /\ {MaxIndex, MaxBuffers, MaxNodes, MaxDepth} \subseteq Nat
ASSUME KeysAssumption ==
    /\ Names \in Seq(STRING)
    /\ IndexKeys \in Injection(0 .. MaxIndex + 1, STRING)
    /\ \A i \in 0 .. MaxIndex + 1 : IndexKeys[i] \notin Members
ASSUME ScalarsAssumption ==
    Scalars \subseteq [type : ValueTypes, num : Int, str : {0, 1}, key : {0}]
ASSUME PathsAssumption == Paths \subseteq Seq(Arguments)

VARIABLES
    vals,        \* the tree in each variable
    heap,        \* the buffers that are allocated
    aborted      \* an assert() failed

vars == <<vals, heap, aborted>>

Node(type, num) == [type |-> type, num |-> num, str |-> 0, key |-> 0]
Null == Node("null", 0)

IndexKey(i) == IndexKeys[i]
IndexOf(k) == CHOOSE i \in 0 .. MaxIndex + 1 : IndexKey(i) = k

\* The subtree at p, and a tree with another subtree there. The name belongs
\* to the map of the container and stays.
Sub(t, p) ==
    [q \in {SubSeq(r, Len(p) + 1, Len(r)) : r \in {r \in DOMAIN t : IsPrefix(p, r)}} |->
        IF q = << >> THEN [t[p] EXCEPT !.key = 0] ELSE t[p \o q]]

Under(t, p) == {q \in DOMAIN t : IsPrefix(p, q)}
Keep(t, gone) == [q \in DOMAIN t \ gone |-> t[q]]
Without(t, p) == Keep(t, Under(t, p))

With(t, p, s, key) ==
    [q \in DOMAIN Without(t, p) \cup {p \o r : r \in DOMAIN s} |->
        IF q = p THEN [s[<< >>] EXCEPT !.key = key]
        ELSE IF IsPrefix(p, q) THEN s[SubSeq(q, Len(p) + 1, Len(q))] ELSE t[q]]

Keys(t, p) == {Last(q) : q \in {q \in DOMAIN t : Len(q) = Len(p) + 1 /\ IsPrefix(p, q)}}

\* The buffers that the values of a tree and the names in it own.
Buffer(t, o) == t[o[1]][o[2]]
Owners(t) == {o \in (DOMAIN t) \X {"str", "key"} : Buffer(t, o) # 0}
Owned(t) == {Buffer(t, o) : o \in Owners(t)}
-----------------------------------------------------------------------------
\* Copies

\* Buffers that malloc() may return: one, or one for each member of S.
Free == (1 .. MaxBuffers) \ heap
NewBuffer == CHOOSE b \in Free : TRUE
NewBuffers(S) == CHOOSE f \in Injection(S, Free) : TRUE
HasRoom(S) == Injection(S, Free) # {}

\* Faulty variant: a copied container shares the strings of its elements.
ShallowCopy(t) ==
    [t EXCEPT ![<< >>].str = IF @ = 0 THEN 0 ELSE NewBuffer]

\* value(value const&): strings and names that are owned are duplicated, all
\* the way down; strings that are not stay shared.
Copy(t) ==
    LET duplicate == NewBuffers(Owners(t))
        New(p, f) == IF <<p, f>> \in Owners(t) THEN duplicate[<<p, f>>] ELSE 0
    IN  [p \in DOMAIN t |-> [t[p] EXCEPT !.str = New(p, "str"), !.key = New(p, "key")]]

\* What constructors make of a scalar: a duplicate in a new buffer if asked.
Single(node) == [p \in {<< >>} |-> node]
Construct(s) == Single([s EXCEPT !.str = IF s.str = 0 THEN 0 ELSE NewBuffer])

Fits(v) == /\ MapThenSumSet(LAMBDA x : Cardinality(DOMAIN v[x]), Vars) <= MaxNodes
           /\ \A x \in Vars : \A p \in DOMAIN v[x] : Len(p) <= MaxDepth

\* operator=(value other): the copy s is swapped in, and what was there is
\* destroyed with the copy.
Assign(x, p, s) ==
    LET old == Sub(vals[x], p)
    IN  /\ vals' = [vals EXCEPT ![x] = With(@, p, s, vals[x][p].key)]
        /\ heap' = (heap \cup Owned(s)) \ Owned(old)
        /\ Fits(vals')
        /\ UNCHANGED aborted

Init ==
    /\ vals = [x \in Vars |-> Single(Null)]
    /\ heap = {}
    /\ aborted = FALSE

\* x.p = a value made from a scalar
AssignScalar(x, p, s) ==
    /\ s.str # 0 => Free # {}
    /\ Assign(x, p, Construct(s))

\* x.p = y.q, where one may be a part of the other
AssignValue(x, p, y, q) ==
    /\ <<x, p>> # <<y, q>>
    /\ HasRoom(Owners(Sub(vals[y], q)))
    /\ Assign(x, p, Copy(Sub(vals[y], q)))

\* swap() of the values of two variables
swap(x, y) ==
    /\ x # y
    /\ vals' = [vals EXCEPT ![x] = vals[y], ![y] = vals[x]]
    /\ UNCHANGED <<heap, aborted>>
-----------------------------------------------------------------------------
\* Containers

\* Faulty variant: a null value gets elements and stays null.
AsIs(t, p, type) == t

\* "*this = value(vt_array)" or "value(vt_object)" if the value is null.
As(t, p, type) == IF t[p].type = "null" THEN [t EXCEPT ![p].type = type] ELSE t

\* Faulty variant: the elements of an array are counted.
SizeByCount(t, p) == Cardinality(Keys(t, p))

\* size(): of an array, the highest index plus one.
size(t, p) ==
    IF t[p].type = "array"
    THEN IF Keys(t, p) = {} THEN 0 ELSE Max({IndexOf(k) : k \in Keys(t, p)}) + 1
    ELSE Cardinality(Keys(t, p))

\* operator[](array_index) const: null where there is nothing.
At(t, p, k) == IF Append(p, k) \in DOMAIN t THEN Sub(t, Append(p, k)) ELSE Single(Null)

\* The entry of a map that an operator [] inserts where there is none.
Insert(t, q, node) == [r \in DOMAIN t \cup {q} |-> IF r \in DOMAIN t THEN t[r] ELSE node]

\* operator[](array_index): one null is inserted, and nothing before it.
Indexed(t, p, i) == Insert(As(t, p, "array"), Append(p, IndexKey(i)), Null)

\* resolve_reference(): the name is duplicated when it is inserted, unless it
\* is a static_string.
Resolved(t, p, name, key) ==
    Insert(As(t, p, "object"), Append(p, name), [Null EXCEPT !.key = key])

\* x becomes t; buffers are allocated and freed on the way.
Becomes(x, t, new, freed) ==
    /\ vals' = [vals EXCEPT ![x] = t]
    /\ heap' = (heap \cup new) \ freed
    /\ Fits(vals')
    /\ UNCHANGED aborted

\* The destructors of the entries of a map at the paths in gone.
Freed(t, gone) == Owned([q \in gone |-> t[q]])
Below(t, p) == {q \in DOMAIN t : IsStrictPrefix(p, q)}

IndexValue(x, p, i) ==
    /\ vals[x][p].type \in {"null", "array"}
    /\ Becomes(x, Indexed(vals[x], p, i), {}, {})

Member(x, p, name, static) ==
    LET copied == ~static /\ Append(p, name) \notin DOMAIN vals[x]
    IN  /\ vals[x][p].type \in {"null", "object"}
        /\ copied => Free # {}
        /\ Becomes(x, Resolved(vals[x], p, name, IF copied THEN NewBuffer ELSE 0),
                   IF copied THEN {NewBuffer} ELSE {}, {})

\* append(): the element behind the last becomes a copy.
AppendValue(x, p, y, q) ==
    LET s == Copy(Sub(vals[y], q))
        i == size(vals[x], p)
        t == Indexed(vals[x], p, i)
    IN  /\ vals[x][p].type \in {"null", "array"}
        /\ i <= MaxIndex /\ HasRoom(Owners(Sub(vals[y], q)))
        /\ Becomes(x, With(t, Append(p, IndexKey(i)), s, 0), Owned(s), {})

clear(x, p) ==
    /\ vals[x][p].type \in Containers \cup {"null"}
    /\ Becomes(x, Keep(vals[x], Below(vals[x], p)), {}, Freed(vals[x], Below(vals[x], p)))

\* What resize() erases: everything, or the indices between the new and the
\* old size.
Erased(t, p, n) ==
    IF n = 0 THEN Below(t, p)
    ELSE {q \in DOMAIN t : \E i \in n .. size(t, p) - 1 : IsPrefix(Append(p, IndexKey(i)), q)}

\* resize(), with the assertion at its end
resize(x, p, n) ==
    LET a == As(vals[x], p, "array")
        gone == Erased(a, p, n)
        t == IF n > size(a, p) THEN Indexed(a, p, n - 1) ELSE Keep(a, gone)
    IN  /\ vals[x][p].type \in {"null", "array"}
        /\ vals' = [vals EXCEPT ![x] = t]
        /\ heap' = heap \ Freed(a, gone)
        /\ Fits(vals')
        /\ aborted' = (n \in 1 .. size(a, p) /\ size(t, p) # n)

\* remove_member(key, removed): y gets a copy of what is erased.
remove_member(x, p, name, y) ==
    LET q == Append(p, name)
        s == Copy(Sub(vals[x], q))
    IN  /\ x # y /\ vals[x][p].type = "object" /\ q \in DOMAIN vals[x]
        /\ HasRoom(Owners(Sub(vals[x], q)))
        /\ vals' = [vals EXCEPT ![x] = Without(@, q), ![y] = s]
        /\ heap' = ((heap \cup Owned(s)) \ Owned(vals[y])) \ Freed(vals[x], Under(vals[x], q))
        /\ Fits(vals') /\ UNCHANGED aborted

\* Faulty variant: the elements behind the removed one stay where they are.
EraseOnly(t, p, i) == Without(t, Append(p, IndexKey(i)))

\* The loop of remove_index(): each element is assigned the one behind it, and
\* the last one is erased. The buffers move along, which is what copying and
\* destroying amounts to.
ShiftedLeft(t, p, i) ==
    LET last == size(t, p) - 1
        shifted[j \in i .. last] ==
            IF j = i THEN t
            ELSE With(shifted[j - 1], Append(p, IndexKey(j - 1)), At(t, p, IndexKey(j)), 0)
    IN  Without(shifted[last], Append(p, IndexKey(last)))

remove_index(x, p, i, y) ==
    LET q == Append(p, IndexKey(i))
        s == Copy(Sub(vals[x], q))
        t == ShiftedLeft(vals[x], p, i)
    IN  /\ x # y /\ vals[x][p].type = "array" /\ q \in DOMAIN vals[x]
        /\ HasRoom(Owners(Sub(vals[x], q)))
        /\ vals' = [vals EXCEPT ![x] = t, ![y] = s]
        /\ heap' = ((heap \cup Owned(s)) \ Owned(vals[y])) \ Freed(vals[x], Under(vals[x], q))
        /\ Fits(vals') /\ UNCHANGED aborted
-----------------------------------------------------------------------------
\* json::path

Expects(arg) == IF arg.kind = "index" THEN "array" ELSE "object"
Where(args) == [i \in DOMAIN args |-> args[i].key]
Place(args, n) == SubSeq(Where(args), 1, n)

\* One turn of the loop in path::make(): nothing happens behind a value that
\* is neither null nor of the type that is expected, where operator[] throws.
Enter(t, p, arg) ==
    CASE p \notin DOMAIN t \/ t[p].type \notin {"null", Expects(arg)} -> t
      [] OTHER -> IF arg.kind = "index" THEN Indexed(t, p, IndexOf(arg.key))
                  ELSE Resolved(t, p, arg.key, 0)

\* path::make(): what is missing is created. What was created stays when the
\* loop is left early.
make(t, args) ==
    LET made[n \in 0 .. Len(args)] ==
            IF n = 0 THEN t ELSE Enter(made[n - 1], Place(args, n - 1), args[n])
    IN  made[Len(args)]

\* A member that path::make() creates has a name of its own.
NewMembers(t, old) == {p \in DOMAIN t \ DOMAIN old : t[Front(p)].type = "object"}
Named(t, old) ==
    LET names == NewBuffers(NewMembers(t, old))
    IN  [p \in DOMAIN t |->
          IF p \in NewMembers(t, old) THEN [t[p] EXCEPT !.key = names[p]] ELSE t[p]]

MakePath(x, args) ==
    LET t == make(vals[x], args)
        u == Named(t, vals[x])
    IN  /\ HasRoom(NewMembers(t, vals[x]))
        /\ Becomes(x, u, {u[p].key : p \in NewMembers(t, vals[x])}, {})

\* path::resolve(root, default_value): the place, or <<"default">>.
resolve(t, args) ==
    LET found(n) == Place(args, n) \in DOMAIN t
        valid(n) == LET p == Place(args, n - 1)
                    IN  /\ found(n - 1) /\ t[p].type = Expects(args[n])
                        /\ args[n].kind = "index" => IndexOf(args[n].key) < size(t, p)
                        /\ args[n].kind = "key" => found(n)
    IN  IF \A n \in DOMAIN args : valid(n) THEN Where(args) ELSE <<"default">>
-----------------------------------------------------------------------------
Next ==
    /\ ~aborted
    /\ \E x \in Vars :
         \/ \E args \in Paths : MakePath(x, args)
         \/ \E y \in Vars : swap(x, y)
         \/ \E p \in DOMAIN vals[x] :
              \/ \E s \in Scalars : AssignScalar(x, p, s)
              \/ \E y \in Vars : \E q \in DOMAIN vals[y] :
                   AssignValue(x, p, y, q) \/ AppendValue(x, p, y, q)
              \/ \E i \in 0 .. MaxIndex : IndexValue(x, p, i) \/ resize(x, p, i)
              \/ \E i \in DOMAIN Names, static \in BOOLEAN : Member(x, p, Names[i], static)
              \/ clear(x, p)
              \/ \E y \in Vars :
                   \/ \E i \in DOMAIN Names : remove_member(x, p, Names[i], y)
                   \/ \E i \in 0 .. MaxIndex : remove_index(x, p, i, y)

Spec == Init /\ [][Next]_vars
-----------------------------------------------------------------------------
NodeRecord == [type : ValueTypes, num : Int, str : 0 .. MaxBuffers, key : 0 .. MaxBuffers]

\* A tree has a root, and whatever is below a value is an element of an array,
\* under an index, or a member of an object, under its name.
Attached(t, p) ==
    \/ p = << >> /\ t[p].key = 0
    \/ /\ p # << >> /\ Front(p) \in DOMAIN t
       /\ \/ t[Front(p)].type = "array" /\ Last(p) \in Elements /\ t[p].key = 0
          \/ t[Front(p)].type = "object" /\ Last(p) \in Members

IsTree(t) ==
    /\ t \in [DOMAIN t -> NodeRecord]
    /\ << >> \in DOMAIN t
    /\ \A p \in DOMAIN t : p \in Seq(STRING) /\ Attached(t, p)

\* Every variable holds a tree.
TypeOK ==
    /\ vals = [x \in Vars |-> vals[x]] /\ \A x \in Vars : IsTree(vals[x])
    /\ heap \subseteq 1 .. MaxBuffers
    /\ aborted \in BOOLEAN

\* Every duplicated string has exactly one owner, a value or the name of a
\* member, and none is left behind: copying, assigning a part of a value to the
\* value or the value to a part of itself, swapping, shifting elements and
\* erasing neither leak a buffer nor free it twice.
OneOwner ==
    /\ heap = UNION {Owned(vals[x]) : x \in Vars}
    /\ \A x, y \in Vars : \A o \in Owners(vals[x]), u \in Owners(vals[y]) :
          Buffer(vals[x], o) = Buffer(vals[y], u) => x = y /\ o = u

\* The same types and payloads everywhere; each has buffers of its own.
SameTree(t, u) ==
    /\ DOMAIN t = DOMAIN u
    /\ \A p \in DOMAIN t : t[p].type = u[p].type /\ t[p].num = u[p].num

\* remove_index() removes: afterwards each index holds what was there, or what
\* was behind it, also where the array had no element at all, and the caller
\* has the element that was removed.
RemovesAtIndex ==
    [][\A x, y \in Vars : \A p \in DOMAIN vals[x], i \in 0 .. MaxIndex :
         vals'[x] # vals[x] /\ remove_index(x, p, i, y) =>
           /\ SameTree(vals'[y], At(vals[x], p, IndexKey(i)))
           /\ \A j \in 0 .. MaxIndex :
                SameTree(At(vals'[x], p, IndexKey(j)),
                         At(vals[x], p, IndexKey(IF j < i THEN j ELSE j + 1)))]_vars

\* What path::make() has made path::resolve() finds; and when it stops at a
\* value of another type, nothing that was there is lost.
PathIsMade ==
    [][\A x \in Vars, args \in Paths : vals'[x] # vals[x] /\ MakePath(x, args) =>
         /\ Where(args) \in DOMAIN vals'[x] => resolve(vals'[x], args) = Where(args)
         /\ \A p \in DOMAIN vals[x] :
              /\ p \in DOMAIN vals'[x]
              /\ vals[x][p].type \in {"null", vals'[x][p].type}]_vars

\* The operations that change a container in place, remove_index() and
\* path::make(), change what they are asked to and leave the rest.
ContainersAreKept == RemovesAtIndex /\ PathIsMade
-----------------------------------------------------------------------------
\* Refuted statements

\* "assert(size() == newSize)" at the end of resize(): an array has no element
\* at the indices that were never asked for.
ResizeIsExact == ~aborted
=============================================================================
