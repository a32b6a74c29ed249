SPECIFICATION Spec
CONSTANTS
    h1 = h1
    h2 = h2
    h3 = h3
    h4 = h4
    i1 = i1
    i2 = i2
    i3 = i3
    i4 = i4
    n1 = n1
    Null = Null
    Handles <- MCHandles
    Impls <- MCImpls
    Names <- OneName
CHECK_DEADLOCK FALSE
INVARIANT
    DefaultsAreAcyclic
