\* Capability spaces, locks, files, kernel entry and program arguments,
\* one at a time.
SPECIFICATION MCSpec
SYMMETRY MCSymmetry
CONSTANTS
    Spaces = {s1, s2}
    CSPACE_SIZE = 2
    Objects = {o1}
    Rights = {"GRANT", "REVOKE", "SEND"}
    RightSets = {{"GRANT", "SEND"}, {"REVOKE", "SEND"}}
    Badges = {7}
    MaxRevokes = 2
    MaxIssued = 2
    CPUs = {1, 2, 3}
    TicketBits = 2
    Tasks = {"p1", "p2"}
    FirstTask = "p1"
    MAX_OPEN_FILES = 5
    BootModules <- MCModules
    Queries <- MCQueries
    OffsetBits = 4
    Offsets <- MCOffsets
    Counts = {0, 1, 2, 3}
    TriedFds = {0, 1, 3, 4, 5}
    ChunkSize = 2
    MaxInput = 3
    UserThreads = {"t1", "t2", "t3"}
    InitThread = "t1"
    Repertoires <- MCRepertoires
    EXEC_MAX_ARGS = 3
    EXEC_MAX_ARG_BYTES = 8
    ARG_ADDRS = 5
    WORD = 4
    STACK_TOP = 48
    MaxArgs = 4
    Lengths = {0, 1, 4}
INVARIANTS
    CspaceExact
    RightsDerived
    LocksExclusive
    FilesExact
    ReturnsToCaller
    ArgumentsArrive
PROPERTIES
    CapabilitiesKept
CHECK_DEADLOCK FALSE
