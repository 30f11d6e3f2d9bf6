CONSTANTS
    Null = Null
    Threads = {t1, t2, t3}
    Endpoints = {e1, e2}
    KThreads = {}
    InitialThreads = {t1, t2, t3}
    Callers = {t1, t2, t3}
    Receivers = {t1, t2, t3}
    SliceKinds = {"none"}
    NestedServe = TRUE
    ForkWhileServing = FALSE
SPECIFICATION Spec
SYMMETRY Symmetry
INVARIANTS
    NoStrandedWaiter
    NoMissedRendezvous
    QueuedAsleep
    ReplyOwedToWaiter
    RefcountExact
CHECK_DEADLOCK FALSE
