SPECIFICATION Spec
CONSTANTS
    s1 = s1
    s2 = s2
    s3 = s3
    t1 = t1
    t2 = t2
    Sessions <- MCSessions
    Threads <- MCThreads
    Modulus = 16
    Limit = 8
    MaxTime = 2
INVARIANTS
    TypeOK
    CountIsLive
    DriftIsBounded
