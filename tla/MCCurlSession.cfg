SPECIFICATION Spec
CONSTANTS
    u1 = u1
    u2 = u2
    r1 = r1
    r2 = r2
    NoThread = NoThread
    Users <- TwoUsers
    Reactors <- TwoReactors
    Verbs = {"get", "bogus"}
    MayTimeOut = TRUE
    MaxChunks = 2
SYMMETRY ThreadSymmetry
CHECK_DEADLOCK FALSE
INVARIANTS
    TypeOK
    HandleRemovedOnce
    ReadyMeansFinal
    NoRepost
PROPERTIES
    ImplementsContract
    StateOnlyAdvances
    NoNewDataWhenReady
