CONSTANTS
    Procs = {p1, p2, p3}
    Spaces = {m1, m2, m3}
    KernelSpace = KernelSpace
    Idle = Idle
    Null = Null
    PidMax = 4
    KThreadLimit = 1
    BootPaths = {"exec_init", "exec_elf"}
SPECIFICATION FairSpec
INVARIANTS
    FamilyConsistent
    ReaperExists
    NoMissedExit
    PidsExact
    LoadedSpaceExists
PROPERTY WaitReturns
