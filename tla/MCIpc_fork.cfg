CONSTANTS
    Null = Null
    Threads = {t1, t2, t3}
    Endpoints = {e1}
    KThreads = {}
    InitialThreads = {t1, t2, t3}
    Callers = {t1, t2, t3}
    Receivers = {t1, t2, t3}
    SliceKinds = {"none"}
    NestedServe = FALSE
    ForkWhileServing = TRUE
SPECIFICATION Spec
SYMMETRY Symmetry
INVARIANT
    OwedCallerBlocked
CHECK_DEADLOCK FALSE
