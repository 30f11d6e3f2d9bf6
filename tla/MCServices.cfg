\* The list and C libraries, the shell and the servers, one at a time.
SPECIFICATION MCSpec
CONSTANTS
    Heads = {"h1", "h2"}
    Entries = {"a", "b", "c"}
    HEAP_SIZE = 18
    HEAP_ALIGN = 2
    HEADER = 3
    SizeBits = 6
    Requests = {0, 1, 4, 63}
    Names = {"a", "b", "c"}
    MemBytes = 6
    WORD_BYTES = 2
    Chars = {1, 2}
    MAX_LINE = 6
    MAX_ARGS = 3
    MaxKeys = 7
    MAX_INODES = 5
    MAX_DATA_SIZE = 2
    MAX_DIR_ENTRIES = 4
    MAX_NAME = 4
    FileNames <- MCFileNames
    OffsetBits = 3
    FileBytes = {1}
    MAX_MOUNTS = 3
    MAX_VFS_FILES = 2
    Paths <- MCPaths
    Clients = {"p", "q"}
    PosBits = 2
    FakeSize = 2
    MAX_PROCS = 3
    MAX_ALLOCS = 3
    MaxPages = 2
    Owners = {"p", "q"}
    ExitCodes = {0, 1}
    MaxPid = 5
INVARIANTS
    HeapKeepsData
    StringsExact
    CommandAsTyped
    RamfsExact
    
PROPERTIES
    ListsImplementQueues
CHECK_DEADLOCK FALSE
