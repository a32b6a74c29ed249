---------------------------- MODULE MCJsonValue ----------------------------
EXTENDS JsonOrder, JsonPath

MCNames == <<"]", "a">>
MCIndexKeys == [i \in 0 .. MaxIndex + 1 |-> ToString(i)]
MCScalars == {Node("int", 1), Node("string", -1), [Node("string", 1) EXCEPT !.str = 1]}
MCTexts == {<<".", "a", "[", "1", "]">>, <<".", "[", "%", "]">>, <<"%", ".", "a">>}
MCPaths == {make_path(text, arg) : text \in MCTexts, arg \in PathArgs}

\* Values of every kind, and arrays and objects of two elements or members.
Leaves == {Node("int", 1), Node("real", 1), Node("real", 2), Node("real", NaN)}
Pair(type, k, l, m, n) == << >> :> Node(type, 0) @@ <<k>> :> m @@ <<l>> :> n
Nested(k, m, n) == Pair("array", "0", "1", Node("array", 0), m) @@ <<"0", k>> :> n
MCProbes ==
    {Single(n) : n \in Leaves \cup {Null, Node("string", -1), Node("string", 1)}}
      \cup {Pair("array", "0", l, m, n) : l \in {"1", "2"}, m, n \in Leaves}
      \cup {Pair("object", "]", "a", m, n) : m, n \in Leaves \ {Node("real", 1)}}
      \cup {Nested(k, m, n) : k \in {"0", "1"}, m, n \in {Node("int", 1), Node("real", 2)}}
MCSymmetry == Permutations(Vars)
=============================================================================
