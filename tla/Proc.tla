-------------------------------- MODULE Proc --------------------------------
(***************************************************************************)
(* The life of processes: kernel/proc/process.c, the replacement of an     *)
(* address space in kernel/proc/exec.c, and what switch_to does to the     *)
(* loaded page tables.                                                     *)
(*                                                                         *)
(* A process has exactly one thread, so one name stands for both.  Between *)
(* two calls of schedule() nothing else runs: fork, exit, exec and each    *)
(* pass of the loop in process_wait are single steps.  Which runnable      *)
(* thread schedule() picks is left open; it picks the idle thread only     *)
(* when there is none (see Sched).  Waiting for messages is not told apart *)
(* from not being picked.                                                  *)
(***************************************************************************)
EXTENDS Integers, Sequences, FiniteSets

CONSTANTS
    Procs,         \* struct process objects, each with its main thread
    Spaces,        \* struct address_space objects
    KernelSpace,   \* kernel_space
    Idle,          \* the idle thread
    Null,          \* the NULL pointer
    PidMax,        \* PID_MAX: PIDs are 1 to PidMax - 1
    KThreadLimit,  \* how many kernel threads the boot code starts
    BootPaths      \* the functions the boot code may start init with

ASSUME ProcAssumption ==
    /\ IsFiniteSet(Procs)
    /\ Idle \notin Procs
    /\ Null \notin Procs \cup Spaces
    /\ KernelSpace \notin Spaces \cup {Null}
    /\ PidMax \in Nat \ {0, 1}
    /\ KThreadLimit \in Nat
    /\ BootPaths \subseteq {"exec_init", "exec_elf"}

VARIABLES
    state,         \* main_thread->state, or free: no such process
    wait_channel,  \* main_thread->wait_channel
    kthread,       \* TF_KTHREAD: no address space, runs in the kernel only
    pid,           \* process->pid
    parent,        \* process->parent
    children,      \* process->children, linked through sibling
    mm,            \* process->mm
    pid_bitmap,    \* the PIDs in use
    next_pid,      \* where the search for a PID starts
    init_process,  \* the process orphans go to
    booted,        \* init has been started
    current,       \* current_thread
    cr3,           \* the address space that is loaded
    spaces         \* the address spaces that exist

treeVars  == <<parent, children>>
pidVars   == <<pid, pid_bitmap, next_pid>>
bootVars  == <<init_process, booted>>
spaceVars == <<mm, cr3, spaces>>
vars == <<state, wait_channel, kthread, treeVars, pidVars, bootVars,
          spaceVars, current>>

States == {"free", "RUNNING", "INTERRUPTIBLE", "ZOMBIE"}

\* process_init, sched_init
Init ==
    /\ state = [p \in Procs |-> "free"]
    /\ wait_channel = [p \in Procs |-> Null]
    /\ kthread = [p \in Procs |-> FALSE]
    /\ pid = [p \in Procs |-> 0]
    /\ parent = [p \in Procs |-> Null]
    /\ children = [p \in Procs |-> <<>>]
    /\ mm = [p \in Procs |-> Null]
    /\ pid_bitmap = {0}
    /\ next_pid = 1
    /\ init_process = Null
    /\ booted = FALSE
    /\ current = Idle
    /\ cr3 = KernelSpace
    /\ spaces = {}

-----------------------------------------------------------------------------
(* PIDs *)

\* Variant of AllocPid: does not wrap around.
AllocPidNoWrap(b, n) ==
    LET above == {i \in n..(PidMax - 1) : i \notin b} IN
    IF above # {} THEN CHOOSE i \in above : \A j \in above : i <= j ELSE -1

\* The search of alloc_pid: upwards from n, then from 1; -1 if all are taken.
AllocPid(b, n) ==
    LET above == {i \in n..(PidMax - 1) : i \notin b}
        below == {i \in 1..(n - 1) : i \notin b}
        Lowest(S) == CHOOSE i \in S : \A j \in S : i <= j IN
    IF above # {} THEN Lowest(above)
    ELSE IF below # {} THEN Lowest(below) ELSE -1

\* The PID a new process gets.
NewPid == AllocPid(pid_bitmap, next_pid)

\* Where the next search starts.
PidAfter(i) == IF i + 1 >= PidMax THEN 1 ELSE i + 1

\* free_pid
FreePid(b, i) == b \ {i}

-----------------------------------------------------------------------------
(* The tree of processes *)

Members(q) == {q[i] : i \in 1..Len(q)}

\* list_del of c, which is on q.
Without(q, c) ==
    LET i == CHOOSE k \in 1..Len(q) : q[k] = c IN
    [k \in 1..(Len(q) - 1) |-> IF k < i THEN q[k] ELSE q[k + 1]]

\* list_add_tail of c to the children of p.
Link(ch, p, c) == [ch EXCEPT ![p] = Append(@, c)]

\* Variant of Unlink: forgets to.
UnlinkNot(ch, p, c) == ch

\* The unlinking of c from its parent p.
Unlink(ch, p, c) == [ch EXCEPT ![p] = Without(@, c)]

\* Variant of Reparents: orphans stay where they are.
ReparentsNever(p) == FALSE

\* Exiting p gives its children to init.
Reparents(p) == init_process # Null /\ init_process # p

\* The zombies of p in the order of its list.
ZombieIndices(p) == {i \in 1..Len(children[p]) : state[children[p][i]] = "ZOMBIE"}

-----------------------------------------------------------------------------
(* The CPU *)

Runnable(s) == {p \in Procs : s[p] = "RUNNING"}

\* What schedule() may pick when the threads are in states s.
Choices(s) == IF Runnable(s) = {} THEN {Idle} ELSE Runnable(s)

\* Variant of LoadedFor: loads nothing.
LoadedForNobody(n, m, old) == old

\* The address space switch_to leaves loaded: that of n, or the one that was,
\* if n has none.
LoadedFor(n, m, old) == IF n # Idle /\ m[n] # Null THEN m[n] ELSE old

\* schedule() goes from the current thread to n, with address spaces m and space
\* old loaded.
SwitchTo(n, s, m, old) ==
    /\ n \in Choices(s)
    /\ state' = s
    /\ current' = n
    /\ mm' = m
    /\ cr3' = IF n # current THEN LoadedFor(n, m, old) ELSE old

\* A thread executes that is not in the middle of process_wait.
Executing == current \in Procs /\ wait_channel[current] = Null

\* ... a process of its own address space, in a system call.
InUser == Executing /\ ~kthread[current]

-----------------------------------------------------------------------------
(* Starting processes *)

\* process_create and the making of its thread: a child c of process p, or of
\* none, with address space m.
Create(c, p, m, kernel) ==
    /\ state[c] = "free"
    /\ NewPid # -1
    /\ state' = [state EXCEPT ![c] = "RUNNING"]
    /\ wait_channel' = [wait_channel EXCEPT ![c] = Null]
    /\ kthread' = [kthread EXCEPT ![c] = kernel]
    /\ pid' = [pid EXCEPT ![c] = NewPid]
    /\ pid_bitmap' = pid_bitmap \cup {NewPid}
    /\ next_pid' = PidAfter(NewPid)
    /\ parent' = [parent EXCEPT ![c] = p]
    /\ mm' = [mm EXCEPT ![c] = m]
    /\ UNCHANGED <<current, cr3>>

(* kthread_create and thread_start, by the boot code *)
KthreadCreate(c) ==
    /\ current = Idle
    /\ ~booted
    /\ Cardinality({p \in Procs : kthread[p]}) < KThreadLimit
    /\ Create(c, Null, Null, TRUE)
    /\ children' = [children EXCEPT ![c] = <<>>]
    /\ UNCHANGED <<spaces, bootVars>>

(* The boot code starts init: with exec_elf, as limine.c does, or with        *)
(* exec_init, which also says which process it is.                           *)
ExecInit(c) ==
    /\ current = Idle
    /\ ~booted
    /\ booted' = TRUE
    /\ \E path \in BootPaths :
        init_process' = IF path = "exec_init" THEN c ELSE Null
    /\ \E m \in Spaces \ spaces :
        /\ Create(c, Null, m, FALSE)
        /\ spaces' = spaces \cup {m}
    /\ children' = [children EXCEPT ![c] = <<>>]

(* process_fork *)
ProcessFork(c) ==
    /\ InUser
    /\ \E m \in Spaces \ spaces :
        /\ Create(c, current, m, FALSE)
        /\ spaces' = spaces \cup {m}
    /\ children' = Link([children EXCEPT ![c] = <<>>], current, c)
    /\ UNCHANGED bootVars

(* process_fork with no memory for the file table, the address space, the    *)
(* thread or its stack: process_destroy takes back what was done, and only   *)
(* the place where the search for a PID starts has moved.                    *)
ProcessForkFails(c) ==
    /\ InUser
    /\ state[c] = "free"
    /\ NewPid # -1
    /\ pid_bitmap' = FreePid(pid_bitmap \cup {NewPid}, NewPid)
    /\ next_pid' = PidAfter(NewPid)
    /\ children' = Unlink(Link(children, current, c), current, c)
    /\ UNCHANGED <<state, wait_channel, kthread, pid, parent, bootVars, spaceVars,
                   current>>

(* exec_replace, in memory that suffices *)
ExecReplace ==
    /\ InUser
    /\ \E m \in Spaces \ spaces :
        /\ mm' = [mm EXCEPT ![current] = m]
        /\ cr3' = m
        /\ spaces' = (spaces \cup {m}) \ {mm[current]}
    /\ UNCHANGED <<state, wait_channel, kthread, treeVars, pidVars, bootVars,
                   current>>

-----------------------------------------------------------------------------
(* Ending processes *)

\* Variant of Wakeup: looks for sleepers in the wrong state.
WakeupNobody(s, ch) == s

\* thread_wakeup(parent): the states s after the threads that sleep on channel ch
\* were made runnable.
Wakeup(s, ch) ==
    [t \in Procs |-> IF /\ ch # Null
                        /\ wait_channel[t] = ch
                        /\ s[t] = "INTERRUPTIBLE"
                     THEN "RUNNING" ELSE s[t]]

\* thread_exit up to the final schedule(): a zombie whose parent was woken.
Exited(p) == Wakeup([state EXCEPT ![p] = "ZOMBIE"], parent[p])

(* process_exit: the children go to init, the address space goes before the *)
(* thread does.                                                             *)
ProcessExit(n) ==
    LET p == current IN
    /\ InUser
    /\ IF Reparents(p)
       THEN /\ parent' = [c \in Procs |-> IF c \in Members(children[p])
                                          THEN init_process ELSE parent[c]]
            /\ children' = [children EXCEPT ![p] = <<>>,
                                            ![init_process] = @ \o children[p]]
       ELSE UNCHANGED treeVars
    /\ spaces' = spaces \ {mm[p]}
    /\ SwitchTo(n, Exited(p), [mm EXCEPT ![p] = Null], KernelSpace)
    /\ UNCHANGED <<wait_channel, kthread, pidVars, bootVars>>

(* kthread_entry: a kernel thread's function returns to thread_exit *)
KthreadExit(n) ==
    /\ Executing
    /\ kthread[current]
    /\ SwitchTo(n, Exited(current), mm, cr3)
    /\ UNCHANGED <<wait_channel, kthread, treeVars, pidVars, bootVars, spaces>>

\* The process is in process_wait: it calls it, or was woken inside it.
InWait == current \in Procs /\ ~kthread[current]

(* process_wait without children, which returns -1 *)
WaitNoChild ==
    /\ InWait
    /\ children[current] = <<>>
    /\ wait_channel' = [wait_channel EXCEPT ![current] = Null]
    /\ UNCHANGED <<state, kthread, treeVars, pidVars, bootVars, spaceVars, current>>

(* process_wait with a zombie child: the first of the list is destroyed. *)
WaitReap ==
    /\ InWait
    /\ \E i \in ZombieIndices(current) :
        LET z == children[current][i] IN
        /\ \A j \in ZombieIndices(current) : i <= j
        /\ state' = [state EXCEPT ![z] = "free"]
        /\ children' = Unlink(children, current, z)
        /\ pid_bitmap' = FreePid(pid_bitmap, pid[z])
    /\ wait_channel' = [wait_channel EXCEPT ![current] = Null]
    /\ UNCHANGED <<kthread, parent, pid, next_pid, bootVars, spaceVars, current>>

(* process_wait with children that all live: sleep on the own process. *)
WaitSleep(n) ==
    /\ InWait
    /\ children[current] # <<>>
    /\ ZombieIndices(current) = {}
    /\ wait_channel' = [wait_channel EXCEPT ![current] = current]
    /\ SwitchTo(n, [state EXCEPT ![current] = "INTERRUPTIBLE"], mm, cr3)
    /\ UNCHANGED <<kthread, treeVars, pidVars, bootVars, spaces>>

(* sched_yield, by a thread; schedule(), by the idle thread *)
Yield(n) ==
    /\ current = Idle \/ Executing
    /\ SwitchTo(n, state, mm, cr3)
    /\ UNCHANGED <<wait_channel, kthread, treeVars, pidVars, bootVars, spaces>>

-----------------------------------------------------------------------------
\* What one process does next.
Step(n) ==
    \/ ProcessExit(n)
    \/ KthreadExit(n)
    \/ WaitSleep(n)
    \/ Yield(n)

Next ==
    \/ \E c \in Procs :
        \/ KthreadCreate(c)
        \/ ExecInit(c)
        \/ ProcessFork(c)
        \/ ProcessForkFails(c)
    \/ ExecReplace
    \/ WaitNoChild
    \/ WaitReap
    \/ \E n \in Procs \cup {Idle} : Step(n)

Spec == Init /\ [][Next]_vars

\* A thread does not run for ever, and schedule() sooner or later picks each
\* thread that keeps being runnable (Sched shows it for threads of one priority).
\* A woken process goes on with process_wait.
Fairness ==
    /\ WF_vars(\E n \in Procs \cup {Idle} : Step(n))
    /\ \A p \in Procs : SF_vars(Step(p) /\ p # current)
    /\ WF_vars(InWait /\ wait_channel[current] # Null /\ (WaitNoChild \/ WaitReap))

FairSpec == Spec /\ Fairness

-----------------------------------------------------------------------------
\* Every variable holds a value of the type its C declaration gives it; next_pid
\* stays inside the bitmap.
TypeOK ==
    /\ state \in [Procs -> States]
    /\ wait_channel \in [Procs -> Procs \cup {Null}]
    /\ kthread \in [Procs -> BOOLEAN]
    /\ pid \in [Procs -> 0..(PidMax - 1)]
    /\ parent \in [Procs -> Procs \cup {Null}]
    /\ children \in [Procs -> Seq(Procs)]
    /\ mm \in [Procs -> Spaces \cup {Null}]
    /\ pid_bitmap \subseteq 0..(PidMax - 1)
    /\ next_pid \in 1..(PidMax - 1)
    /\ init_process \in Procs \cup {Null}
    /\ booted \in BOOLEAN
    /\ current \in Procs \cup {Idle}
    /\ cr3 \in Spaces \cup {KernelSpace}
    /\ spaces \subseteq Spaces

Live(p) == state[p] # "free"

\* The two representations of the tree agree: the list of children of a process
\* holds processes whose parent it is, each once, and none that was destroyed,
\* whether it was reaped or its fork failed half way.  Where init is registered
\* it holds all of them.  (Where it is not, a new process may get the memory of
\* a parent that was reaped, and then orphans point to a stranger.)
FamilyConsistent ==
    \A p \in Procs : Live(p) =>
        /\ \A c \in Members(children[p]) : Live(c) /\ parent[c] = p
        /\ \A i, j \in 1..Len(children[p]) : children[p][i] = children[p][j] => i = j
        /\ init_process # Null =>
              \A c \in Procs : Live(c) /\ parent[c] = p => c \in Members(children[p])

\* "Reparent children to init so someone can always reap them" (process_exit):
\* where init is registered, the parent pointer of a process leads to a process
\* that exists, and to one that has exited only if that is init.
ReaperExists ==
    init_process # Null =>
        \A c \in Procs : Live(c) /\ parent[c] # Null =>
            /\ Live(parent[c])
            /\ state[parent[c]] = "ZOMBIE" => parent[c] = init_process

\* The part of it a running kernel cannot do without, registered init or not:
\* thread_exit takes the lock of the parent and wakes it.
ParentExists == \A c \in Procs : Live(c) /\ parent[c] # Null => Live(parent[c])

\* p sleeps in process_wait beside a child it could reap.
Overlooks(p) == state[p] = "INTERRUPTIBLE" /\ ZombieIndices(p) # {}

\* "A child cannot exit and miss our wait_channel publication" (process_wait):
\* no process sleeps while it has a zombie, and none sleeps without children to
\* wait for.  (Init may: the zombies it inherits when their parent exits do not
\* wake it.)  It holds with init registered or not.
NoMissedExit ==
    \A p \in Procs :
        /\ p # init_process => ~Overlooks(p)
        /\ state[p] = "INTERRUPTIBLE" => children[p] # <<>>

\* A PID is taken exactly while some process has it, and no two have the same:
\* the PID of a zombie is not given away before its parent has heard of it, and
\* no failed fork keeps one.  alloc_pid fails only when all PIDs are taken,
\* wherever its search starts.
PidsExact ==
    /\ pid_bitmap = {0} \cup {pid[p] : p \in {q \in Procs : Live(q)}}
    /\ \A p, q \in Procs : Live(p) /\ Live(q) /\ pid[p] = pid[q] => p = q
    /\ NewPid = -1 <=> pid_bitmap = 0..(PidMax - 1)

\* Every address space belongs to one process that has not exited, so none
\* leaks and none is freed twice.
SpacesOwned ==
    /\ spaces = {mm[p] : p \in {q \in Procs : Live(q)}} \ {Null}
    /\ \A p, q \in Procs :
          Live(p) /\ Live(q) /\ mm[p] = mm[q] /\ mm[p] # Null => p = q
    /\ \A p \in Procs : state[p] = "ZOMBIE" => mm[p] = Null

\* The page tables in use are never freed ones, also when exit or exec destroys
\* those of the running process or a thread without any borrows its predecessor's;
\* and a process runs on its own.
LoadedSpaceExists ==
    /\ cr3 \in spaces \cup {KernelSpace}
    /\ current \in Procs /\ ~kthread[current] => cr3 = mm[current]

\* A process that waits and has a child that exited returns from process_wait.
WaitReturns ==
    \A p \in Procs :
        wait_channel[p] = p /\ p # init_process /\ ZombieIndices(p) # {}
            ~> wait_channel[p] = Null

=============================================================================
