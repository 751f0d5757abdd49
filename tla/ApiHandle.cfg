CONSTANTS
    Thread = {t1, t2, t3}
    Manager = {m1, m2}
    Inst = {i1, i2}
    MaxSession = 2
    None = None
SPECIFICATION FairSpec
INVARIANTS
    TypeOK
    RefcountExact
    OwnersHaveLiveApi
    NoInterfaceOutlivesApi
    CallsReachLiveApi
    NothingLeaks
PROPERTIES
    InitOnlyWhenFree
    ImplementsSession
    OperationsComplete
