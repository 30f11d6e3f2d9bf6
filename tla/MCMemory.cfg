\* The page allocators, the kernel heap and the address spaces, one at a time.
SPECIFICATION MCSpec
CONSTANTS
    WordBits = 4
    PAGE_SIZE = 8
    NrBits = 6
    MaxRange = 3
    MAX_ORDER = 3
    ZoneEnd <- MCZoneEnd
    MemMaps <- MCMaps
    PageStruct = 1
    DriftCap = 16
    Frames = {0, 1, 2, 3}
    PageBytes = 4096
    HeaderBytes = 48
    Classes = {1024, 2048}
    Sizes = {0, 1024, 1025, 5000}
    Callers = {a, b}
    MaxLive = 3
    Procs = {1, 2}
    FrameCounts = {18, 30}
    Programs <- MCPrograms
    WINDOW = 12
    STACK_TOP = 62
    STACK_PAGES = 1
    GROWTH = 2
    MMAP_BASE = 4
    MMAP_STEP = 4
    USER_END = 63
    Mmaps <- MCMmaps
    FaultPages = {0, 2, 5, 59, 60}
    MaxSteps = 5
    Spans <- MCSpans
INVARIANTS
    BitmapExact
    ZonesExact
    NoFalseExhaustion
    SlabListsExact
    FramesOwnedOnce
    UserRangesExact
CHECK_DEADLOCK FALSE
