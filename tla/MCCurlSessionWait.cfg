SPECIFICATION Spec
CONSTANTS
    u1 = u1
    u2 = u2
    r1 = r1
    r2 = r2
    NoThread = NoThread
    Users <- TwoUsers
    Reactors <- TwoReactors
    Verbs = {"get"}
    MayTimeOut = FALSE
    MaxChunks = 1
CHECK_DEADLOCK FALSE
INVARIANT
    WaitMeansFinal
