SPECIFICATION Spec
CONSTANTS
    Procs = {p1, p2, p3, p4}
    Spaces = {m1, m2, m3, m4}
    KernelSpace = KernelSpace
    Idle = Idle
    Null = Null
    PidMax = 5
    KThreadLimit = 0
    BootPaths = {"exec_elf"}
SYMMETRY Symmetry
INVARIANT ParentExists
