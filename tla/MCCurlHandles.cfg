CONSTANTS
    Sessions = {s1, s2}
    Requests = {q1, q2, q3}
    Responses = {p1, p2}
    Handles = {h1, h2}
    Strings = {x1, x2}
    Cap = 3
    Chunks = {2}
    Nobody = Nobody
SPECIFICATION Spec
SYMMETRY Symmetry
CHECK_DEADLOCK FALSE
INVARIANTS TypeOK RefCountIsExact CurrentsPointBack StringsHaveOneOwner
