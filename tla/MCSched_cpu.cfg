CONSTANTS
    Null = Null
    Idle = Idle
    Threads = {t1, t2, t3}
    MaxPrio = 3
    DefaultPrio = 1
    NewPrios = {3}
SPECIFICATION CooperativeSpec
INVARIANTS
    RunQueueExact
    ReadyQueuedOnce
    PreemptCountExact
PROPERTIES
    HighestPriorityRuns
    QueuedRuns
