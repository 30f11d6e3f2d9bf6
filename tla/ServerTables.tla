---------------------------- MODULE ServerTables ----------------------------
(***************************************************************************)
(* The tables of the process server (servers/proc/main.c) and of the       *)
(* memory server (servers/mem/main.c), next to those of the VFS server.    *)
(* Each server answers one request at a time.                              *)
(* The physical addresses the memory server makes up are kept, since a     *)
(* client frees by address; sizes are in pages, the base address is 0.     *)
(***************************************************************************)
EXTENDS Vfs, FiniteSetsExt

CONSTANTS MAX_PROCS, MAX_ALLOCS, MaxPages, Owners, ExitCodes,
          MaxPid            \* bound on process ids handed out

VARIABLES procs,            \* the process table
          num_procs, next_pid,
          owed,             \* reckoning: exits reported and not yet waited for
          allocs,           \* the allocation table
          num_allocs, total_pages_allocated

procVars == <<procs, num_procs, next_pid, owed>>
allocVars == <<allocs, num_allocs, total_pages_allocated>>
tableVars == <<procs, num_procs, next_pid, owed, allocs, num_allocs, total_pages_allocated>>

ProcSlots == 0 .. MAX_PROCS - 1
AllocSlots == 0 .. MAX_ALLOCS - 1
FreeProc == [pid |-> 0, state |-> "FREE", ppid |-> 0, code |-> 0]
FreeAlloc == [addr |-> 0, pages |-> 0, owner |-> "none"]

First(S) == IF S = {} THEN -1 ELSE Min(S)

find_proc(pid) == First({i \in ProcSlots : procs[i].pid = pid /\ procs[i].state # "FREE"})
alloc_proc == First({i \in ProcSlots : procs[i].state = "FREE"})

proc_init ==
    [i \in ProcSlots |-> IF i = 0 THEN [FreeProc EXCEPT !.pid = 1, !.state = "RUNNING"]
                         ELSE FreeProc]

handle_spawn(parent) ==
    LET slot == alloc_proc
    IN  /\ find_proc(parent) >= 0
        /\ slot >= 0
        /\ next_pid <= MaxPid
        /\ procs' = [procs EXCEPT ![slot] = [pid |-> next_pid, state |-> "RUNNING",
                                             ppid |-> parent, code |-> 0]]
        /\ next_pid' = next_pid + 1
        /\ num_procs' = num_procs + 1
        /\ UNCHANGED owed

\* A second exit of the same process overwrites the first exit code.
handle_exit(pid, code) ==
    LET slot == find_proc(pid)
    IN  /\ slot >= 0
        /\ procs' = [procs EXCEPT ![slot].state = "ZOMBIE", ![slot].code = code]
        /\ owed' = {o \in owed : o[1] # pid} \union {<<pid, code>>}
        /\ UNCHANGED <<num_procs, next_pid>>

\* The first zombie that matches, whoever its parent is.  The freed entry
\* keeps its parent and its exit code.
handle_wait(wait_pid) ==
    LET slot == First({i \in ProcSlots : /\ procs[i].state = "ZOMBIE"
                                         /\ wait_pid \in {-1, procs[i].pid}})
    IN  /\ slot >= 0
        /\ procs' = [procs EXCEPT ![slot].state = "FREE", ![slot].pid = 0]
        /\ num_procs' = num_procs - 1
        /\ owed' = owed \ {<<procs[slot].pid, procs[slot].code>>}
        /\ UNCHANGED next_pid

find_free_slot == First({i \in AllocSlots : allocs[i].pages = 0})
find_alloc(addr) == First({i \in AllocSlots : allocs[i].addr = addr /\ allocs[i].pages > 0})

handle_alloc_phys(owner, pages) ==
    LET slot == find_free_slot
    IN  /\ pages \in 1 .. MaxPages
        /\ slot >= 0
        /\ allocs' = [allocs EXCEPT ![slot] = [addr |-> num_allocs * pages, pages |-> pages,
                                               owner |-> owner]]
        /\ num_allocs' = num_allocs + 1
        /\ total_pages_allocated' = total_pages_allocated + pages

handle_free_phys(owner, addr) ==
    LET slot == find_alloc(addr)
    IN  /\ slot >= 0
        /\ allocs[slot].owner = owner
        /\ total_pages_allocated' = total_pages_allocated - allocs[slot].pages
        /\ allocs' = [allocs EXCEPT ![slot] = FreeAlloc]
        /\ num_allocs' = num_allocs - 1

TablesInit ==
    /\ procs = proc_init
    /\ num_procs = 1
    /\ next_pid = 2
    /\ owed = {}
    /\ allocs = [i \in AllocSlots |-> FreeAlloc]
    /\ num_allocs = 0
    /\ total_pages_allocated = 0

ProcServerNext ==
    /\ \/ \E p \in 1 .. MaxPid : handle_spawn(p)
       \/ \E p \in 1 .. MaxPid, c \in ExitCodes : handle_exit(p, c)
       \/ \E w \in {-1} \union (1 .. MaxPid) : handle_wait(w)
    /\ UNCHANGED allocVars

MemServerNext ==
    /\ \/ \E o \in Owners, n \in 0 .. MaxPages + 1 : handle_alloc_phys(o, n)
       \/ \E o \in Owners, a \in 0 .. MAX_ALLOCS * MaxPages : handle_free_phys(o, a)
    /\ UNCHANGED procVars

TablesNext == ProcServerNext \/ MemServerNext

\* The server tables agree with what the clients were told: every exit that
\* was reported and not waited for is still there to be collected, once and
\* with its own code, and every process is known under one pid (handle_exit,
\* handle_wait, handle_spawn); num_procs, num_allocs and
\* total_pages_allocated count what the tables hold, so an allocation is
\* never charged twice nor left charged (handle_alloc_phys,
\* handle_free_phys).
TablesExact ==
    LET live == {i \in ProcSlots : procs[i].state # "FREE"}
        used == {i \in AllocSlots : allocs[i].pages > 0}
    IN  /\ num_procs = Cardinality(live)
        /\ \A i, j \in live : procs[i].pid = procs[j].pid => i = j
        /\ owed = {<<procs[i].pid, procs[i].code>> : i \in {k \in live : procs[k].state = "ZOMBIE"}}
        /\ num_allocs = Cardinality(used)
        /\ total_pages_allocated = MapThenSumSet(LAMBDA i : allocs[i].pages, used)

=============================================================================
