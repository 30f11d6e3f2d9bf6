CONSTANTS
    Null = Null
    Threads = {c1, k1, s1}
    Endpoints = {e1}
    KThreads = {k1}
    InitialThreads = {c1, k1, s1}
    Callers = {c1, k1}
    Receivers = {s1}
    SliceKinds = {"fits", "overflow"}
    NestedServe = FALSE
    ForkWhileServing = FALSE
SPECIFICATION FairSpec
INVARIANT
    SliceWithMessage
PROPERTY
    SystemCallsEnd
CHECK_DEADLOCK FALSE
