SPECIFICATION FairSpec
CONSTANTS
    u1 = u1
    u2 = u2
    r1 = r1
    r2 = r2
    NoThread = NoThread
    Users <- TwoUsers
    Reactors <- OneReactor
    Verbs = {"get"}
    MayTimeOut = FALSE
    MaxChunks = 2
CHECK_DEADLOCK FALSE
PROPERTIES
    EveryTransferEnds
    EveryWaiterReturns
