CONSTANTS
    Null = Null
    Threads = {t1, t2, t3}
    Endpoints = {e1}
    KThreads = {}
    InitialThreads = {t1, t2, t3}
    Callers = {t1, t2, t3}
    Receivers = {t2, t3}
    SliceKinds = {"none", "overflow"}
    NestedServe = FALSE
    ForkWhileServing = FALSE
SPECIFICATION Spec
INVARIANTS
    NoStrandedCaller
    ReplyFromServer
PROPERTY
    ImplementsRpc
CHECK_DEADLOCK FALSE
