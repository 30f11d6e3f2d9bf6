# Ocean: a verification project

Ocean is an educational x86_64 microkernel: a small kernel (scheduling,
processes, address spaces, synchronous message passing) and a set of user-space
servers. This directory holds TLA+ models of the kernel's protocols, of its memory
management and entry code, of the C library and of the servers' tables; the TLC
configurations that check them on small instances; and proofs, checked by TLAPS,
that hold for every number of threads, endpoints, priorities, processes and
capability slots.

How the kernel runs decides what a step of a model is. There is one CPU. A
context switch happens only inside `schedule()`; interrupt handlers never call
it, system calls run with interrupts off, and the timer only sets a flag. Hence
everything a thread does between two calls of `schedule()` is one atomic step,
locks never contend, and the interesting interleavings are those at the points
where a thread sleeps, yields or exits. Each process has exactly one thread. The two
exceptions are `Slab`, whose lock is dropped in the middle of an operation, and
`Locks`, which is about the lock itself: there callers and CPUs do interleave.

## Inventory

| part | state | operations | hard because | correct when |
|---|---|---|---|---|
| message passing, `kernel/ipc/message.c` | per thread: state, wait object, `ipc_caller`, `ipc_reply_*`; window contents | `ipc_send`, `ipc_recv`, `ipc_call`, `ipc_reply`, exit cleanup | two parties at two sleep points each, plus destruction and exit at any of them | nobody sleeps unfindable or beside a partner; replies go to who waits; each call is accepted and answered once |
| endpoints, `kernel/ipc/endpoint.c` | list, ids, owner, flags, `refcount`, two wait queues | create, create well-known, lookup, get, put, destroy, destroy all of a process, bind | references outlive the registry entry | counted exactly, freed once, dead ones empty, ids name one endpoint |
| scheduler, `kernel/sched/core.c` | run queue (lists, bitmap, count), current, preemption count, flags | schedule, add, wakeup, sleep, tick, set priority, idle loop | the two halves of `schedule()` run in different threads; ticks between any two steps | exactly the ready threads queued once; highest priority first; queued threads run |
| processes, `kernel/proc/process.c` | tree, PIDs, zombies, `init_process` | fork, exit, wait, kernel threads, kill | parent and child exit in either order; fork fails half way | tree consistent, every zombie has a reaper, PIDs unique, no lost wakeup |
| program execution, `kernel/proc/exec.c` | `mm`, loaded page tables | load ELF, argument stack, `exec_replace`, start of init | destroys what it runs on | loaded tables exist; nothing leaks |
| IPC windows, `kernel/proc/ipc_window.c` | one page per process | set up, adopt after fork | copied between processes by the kernel | the data that arrives is the message's |
| system calls, `kernel/syscall/dispatch.c` | none of its own, the file table | argument checks and copies round the above | a copy fails after the effect | errors leave a usable state |
| file table, `kernel/proc/files.c` | descriptors over boot modules | open, close, read, lseek, inherit | | offsets stay inside the module |
| physical memory, `kernel/mm/{pmm,buddy,bitmap}.c` | free lists per order, page flags, per-CPU cache, counters | alloc, free, split, coalesce | long sequences | free blocks disjoint, no page lost, counters right |
| kernel heap, `kernel/mm/slab.c` | full, partial and empty slabs, freelists | kmalloc, kfree, shrink | drops its lock to get a page | each object handed out once; lists match counts |
| address spaces, `kernel/mm/{vmm,fault}.c`, `paging.c` | sorted areas, page tables, `total_vm` | map, unmap, mprotect, clone, page fault | failure in the middle | areas disjoint; pages in areas; rollback complete |
| user access, `kernel/mm/uaccess.c` | none | copy in, copy out, strings | wrap-around of ranges | touches user pages only |
| capabilities, `kernel/ipc/capability.c` | slots, bitmap, generation | insert, copy, mint, delete, revoke | two spaces, two locks | rights never grow; bitmap matches slots |
| entry, interrupts, context switch, `entry.asm`, `isr.asm`, `switch.asm` | registers, GS bases, per-CPU block, TSS, kernel stacks | system call, return, fork, exec, switch, interrupt | values cross several stacks and threads | every thread gets its own registers back |
| locks and lists, `spinlock.h`, `list.h` | tickets, reader count; next and prev | lock, trylock, unlock; add, delete, move, splice, traverse | races on a ticket; pointers read after being written | exclusion in ticket order; lists are sequences |
| shell, `servers/sh` | line buffer | read, drain, parse | parses in place | the command is what was typed |
| servers, `servers/*`, `fs/*`, `drivers/ata` | tables of allocations, processes, files, mounts, devices, inodes | request handlers, called by self tests for now | table full, stale entries | tables consistent |
| libraries, `lib/libc`, `kernel/lib` | heap block list; memory | malloc, free, realloc; string functions | split and merge; overlap, word copies | blocks tile the heap, data survives; functions do what they promise |

How the parts interact. The system call layer calls IPC, processes and exec
directly. IPC and processes put threads to sleep and wake them through
`thread_sleep` and `sched_wakeup`, and `sched_wakeup` wakes a thread whatever it
waits for. `process_exit` calls into IPC twice: it destroys the endpoints of the
process and cleans up its thread's call links. `process_fork` copies the thread
structure, links included. `schedule()` switches page tables that exec and exit
destroy. The servers talk to each other through IPC only.

`PROJECT.json` lists the parts with their status, and the hazards of the code at
their lines with the properties that watch them.

## Modules

| module | models |
|---|---|
| `Ipc` | message passing, endpoint life cycle, what exit, fork and reap do to them |
| `Rpc` | what call/receive/reply promise: accepted by one server, at most one answer, from that server |
| `IpcRpc` | the mapping under which `Ipc` implements `Rpc` |
| `Sched` | run queue, `schedule()`, sleeping, waking, ticks, preemption count, idle loop |
| `Proc` | process tree, PIDs, address spaces, exec, exit, wait, who starts init |
| `Bitmap` | the page bitmap and its two searches, `kernel/mm/bitmap.c` |
| `Buddy` | boot memory map, page array, zones, split and merge, `kernel/mm/{pmm,buddy}.c` |
| `Slab` | `kmalloc` and the slab caches, `kernel/mm/slab.c` |
| `Vmm` | areas, page tables, faults, clone, exec's loading, windows, range check: `kernel/mm/{vmm,fault,uaccess}.c`, `paging.c`, `exec.c`, `ipc_window.c` |
| `Cspace` | capability spaces, `kernel/ipc/capability.c` |
| `Locks` | ticket lock and reader-writer lock, `spinlock.h` |
| `Lists`, `Queues` | `list.h`; the sequences it implements |
| `Files` | descriptors over boot modules, console, `files.c` and the file calls of `dispatch.c` |
| `Abi` | system call numbers, wrappers, table and dispatchers, both sides |
| `Entry` | entering and leaving the kernel, switching inside it |
| `ProgramArgs` | arguments from `execv` to `main` |
| `LibcHeap` | `malloc`, `calloc`, `realloc`, `free`, `lib/libc/src/stdlib.c` |
| `Strings` | `lib/libc/src/string.c` and `kernel/lib/string.c` |
| `Shell` | `read_line`, `drain_line`, `parse_line`, `servers/sh/main.c` |
| `Ramfs` | `fs/ramfs/main.c` |
| `Vfs`, `ServerTables` | tables of the VFS, process and memory servers |
| `MCIpc`, `MCSched`, `MCProc` | symmetry sets for TLC |
| `MCMemory`, `MCKernel`, `MCServices` | the components above side by side; `part` says which one moves |
| `IpcInductive`, `IpcStepProofs`, `IpcMessageProofs`, `IpcProofs` | proofs about `Ipc` and its refinement of `Rpc` |
| `SchedProofs` | proofs about `Sched` |
| `ProcInductive`, `ProcProofs` | proofs about `Proc` |
| `KernelProofs` | proofs about `Cspace`, `Locks` and `Bitmap` |

Variables and actions carry the names of the C fields and functions. A definition
called `XNobody`, `x_once` and the like before a definition `X` is a variant of
`X` with a mistake in it, and its comment says which: with `X` replaced by its variant, TLC finds the property
it is meant for violated (`mutants` in `PROJECT.json`).

**Ipc.** `pc[t]` says where thread `t` is: in its program (`user`), asleep in a
send, in the send half of a call (`callsend`), in a receive, in the wait loop of
`ipc_call` (`call`), exited, or not existing. A blocking system call is two
actions, one up to `thread_sleep` and one after it (`SendBlock`/`SendResume`,
`RecvBlock`/`RecvResume`, `SendBlock`/`CallSendResume`/`CallResume`). A rendezvous is one
action of the party that comes second (`SendDirect`, `CallDirect`, `RecvDirect`).
`Exit` is all of `process_exit` and `thread_exit` that touches IPC: owned
endpoints destroyed, waiters woken, both call links cut. A message is who
sent it (`from`) plus the kind of slice it carries; a window is whose data it holds
(`win`). `ep[t]` is the reference a system call in progress holds. Failing system
calls that change nothing are stuttering. Two constants state what a program does:
`NestedServe` (a server may receive before it has replied) and `ForkWhileServing`
(it may fork in between).

**Sched.** `phase[t]` says whether a thread is running, was switched away from
inside `schedule()`, is new (will start at its entry point, outside
`schedule()`), or left for good. `Schedule` is `schedule()` up to the context
switch; `Resume` is its rest, `preempt_enable` included, executed by the thread
switched to. `Tick` may come between any two steps; the expiry of a
time slice is left open at each tick. The boot thread is the idle thread; it starts threads,
yields, and turns into the idle loop. `sched_set_priority`, which nothing calls, is
modelled because the run queue is built for it.

**Proc.** Fork, exit, exec and each pass of the loop in `process_wait` are one
action each. Which runnable thread goes on after a switch is left open. A fork that
fails takes back what it did and leaves `next_pid` moved. Exit reparents if
`init_process` is set, destroys the address space (the kernel's is loaded then),
becomes a zombie, wakes the parent. `BootPaths` says which ways of starting init are
looked at: `exec_init`, which registers it, and `exec_elf`, which does not and which the
boot code uses.

**Bitmap, Buddy.** `bits` is the set of set bits, padding of the last word included.
`pmm_init` reads one of several memory maps (regions that end inside a page, holes,
reclaimable memory) and builds bitmap, page array and zones; afterwards
`alloc_pages` and `free_pages` split and merge with the flags and orders kept in the
page array, over three zones. `free_pages` of a zone is kept because `alloc_pages` decides by
it. It drifts upwards in the code, so `DriftCap` bounds it, high enough for a zone of one
largest block to be split down to single pages and merged again twice; the drift is a
finding, and `NoFalseExhaustion` shows that it never makes an allocation fail.
`page_is_buddy` looks at the end of the zone, which may lie behind the page array; what it
reads there is left open. A merge with a block that does not exist sets `stray`, and nothing
is said or done from then on. `ZonesExact` says when this can happen: memory ends inside a
zone and not at a multiple of the largest block.

**Slab.** One page per slab, real sizes. `slab_alloc_new` ends where the lock has been
released, and `slab_alloc_resume` goes on after it is taken again; anything may happen in
between. The page allocator gives any aligned free block or fails.

**Vmm.** An operation is a function from a memory (free frames and one address space)
to a memory; page tables, areas and the address space itself take frames, and any
allocation may be the one that fails, after which what was done stays done unless the
code undoes it. Programs include one whose segment lies where the stack goes and one whose
segment lies right below it: `setup_user_stack` and `handle_stack_growth` look at neither, so a page is mapped
while it is mapped (`vm_over`), its frame is lost, and the frame mapped last is freed twice (`vm_twice`) when
the address space goes. `FramesOwnedOnce` says that this happens to pages a stack comes to cover and
to no others; that frames are lost otherwise only by an exec or a fork that runs out of them
(`vm_oom`): `load_segment` enters its area last and does not look at the result of `paging_map`; and that a
mapping, an unmapping or a fault that runs out loses none. `vmm_mprotect` of a part changes the
flags of the whole area and the entries of that part; `partly` marks such areas, the only ones whose
pages have other rights than the area. Nothing in the kernel calls `vmm_mmap`, `vmm_munmap` and `vmm_mprotect`
yet; in the model they are called with and without a hint, up to the last page of user space, and leave
the window and the stack alone. A fault that the code does not handle stops the model, as it stops the
kernel, so pages that a failed growth leaves below the stack are never looked for.

**Cspace.** A slot is in use by its type and by its bit. Each operation is one
step under its locks. `issued` remembers what was created, to say where rights come from. The arrays of
a space are there from `cspace_init` on: its failure when `kmalloc` returns NULL is left out.

**Locks.** One step per access to the lock word, three CPUs that use the locks for ever, tickets
of two bits that wrap. `spin_trylock` would take a ticket that has come round for the one it
read, and `NoFullRound` excludes that: 2^32 tickets are not issued while one CPU is between two
neighbouring instructions.

**Lists.** Each operation is its assignments in order. `Queues` has one sequence per
head; `asked` names the last operation and its arguments in both, so that the
refinement ties each operation to its own counterpart.

**Files.** `reckoned` is what a caller can know from results alone. User memory is how many bytes
can be read or written before the copy fails.

**Entry, Abi.** A register value is a token that says which register of which call it
was. The top of each kernel stack is an array of words, so the offset of one word
between a system call's frame and an interrupt's or a forked child's frame is visible. Which
runnable thread goes on is left open (that is `Sched`). Interrupts come in user mode;
those that can come in the kernel while `sys_read` waits for a key are not modelled.

**ProgramArgs.** Limits are scaled down (3 arguments, 8 bytes, words of 4 bytes), the
layout is byte by byte.

**LibcHeap, Strings, Shell.** A byte of the heap is named by who wrote it last. The
string functions are their loops, run on every memory of six bytes and compared with what C asks of them;
`strncpy` and `strncat` clear one byte behind what they are given when the source is short, and
`StringsExact` excepts that byte and no other. The shell's keys are those its code tells apart.

**Ramfs, Vfs, ServerTables.** One action per handler, called with any arguments the code
accepts: the servers themselves only run self-tests so far. Paths are sequences of components,
but a mount at the root covers the root only, as in the code. Names in `Ramfs` may be longer than the field
they are stored in, and offsets have a width: a name is cut, a sum or a difference wraps. A write that
leaves the data of its file sets `wild`, and nothing is said or done from then on; `RamfsExact` says that only a
write that starts beyond the largest size does. Requests that change statistics only are left out.

## Runs

| run | instance | shows |
|---|---|---|
| `ipc_queues` | 3 processes, 2 endpoints, nested serving, symmetry; 147k states | queues, wakeups, call links and reference counts agree |
| `ipc_calls` | 3 processes, 1 endpoint, 2 servers, slices that overflow; 788k states | no caller stranded, replies from the right server, `Rpc` implemented |
| `ipc_live` | a client, a kernel thread, a server; slices that fit or overflow; 89k states | sends and calls return; a slice arrives with its message |
| `ipc_nested` | 3 processes, 1 endpoint | **fails**: the first caller is lost when a server takes a second call |
| `ipc_fork` | 3 processes, 1 endpoint | **fails**: after a fork two threads owe one reply |
| `sched_cpu` | 3 threads and idle, 3 priorities, one change of priority beyond the range; 121k states | run queue, preemption count, priority order, progress |
| `sched_preempt` | 3 threads, only kernel fairness | **fails**: the tick preempts nobody |
| `proc_tree` | 3 processes, 3 address spaces, 3 PIDs, one kernel thread, init registered or not; 18k states | tree, PIDs, address spaces, wait |
| `proc_boot` | 4 processes, init not registered | **fails**: a parent pointer to a freed process |
| `memory` | bitmap of 6 bits; 7, 8 or 12 pages in 3 zones, the last one empty, orders 0 to 2; 4 heap pages, 2 callers, 2 classes; 2 address spaces, 18 or 30 frames, 6 programs, 5 operations; 128k states | no page lost, shared or refused while free; slab lists exact; user ranges judged by the areas |
| `kernel` | 2 capability spaces of 2 slots; 3 CPUs; 2 processes with 2 descriptors; 3 threads, each call of the ABI; up to 4 arguments; 495k states | capabilities, locks, files, kernel entry, arguments |
| `services` | 2 lists of 3 entries; heap of 18 units; memories of 6 bytes; 7 keys; 4 inodes; 3 mounts and 2 files; 3 processes, 3 allocations; 504k states | heap, strings, shell, ramfs, server tables, lists |

The four failing runs check what a comment or a document of the repository says;
`findings` in `PROJECT.json` quotes it.

*Bounds.* Three threads are the least with which two callers compete for a server or
a server meets a second call; two endpoints let a destroyed endpoint and
a live one coexist. What is proved below holds for any number.
`MaxPrio = 3` with `DefaultPrio = 1` leaves a level above and one below; the
priority 3 passed in is beyond the range and is clamped. Three PIDs are as many as
processes, so the search wraps and runs out. With three processes besides the
idle thread init has a child and a grandchild, or a kernel thread and a child.
In `memory`, the bitmap's last word has padding, blocks of every order split and merge on
both sides of a zone's end, memory ends inside a largest block, two callers meet in the slab's gap and memory runs out in the
middle of operations on address spaces. In `kernel`, a copy between two full spaces, a ticket that
wraps, an offset that overflows its width, one argument or one byte too many, and a fork inside
a call with an interrupt before and after all happen. In `services`, the heap is exhausted and
fragmented and a request wraps when rounded up, a line overflows its buffer and is drained,
directories fill up, inodes and descriptors are used again.

*Fairness.* `ipc_live` assumes that a runnable thread eventually runs, which `Sched`
shows for threads of one priority that all leave the CPU now and then, and that
servers keep receiving and replying, which is what their loops do. `sched_cpu` assumes
that the timer ticks, the idle loop turns and each thread eventually yields,
sleeps or exits; `sched_preempt` drops the last assumption. `proc_tree` assumes that a
runnable thread is picked again and again and that a woken `process_wait` goes on.

The last three runs check safety only.

*Deadlock* is checked for `Sched` and `Proc`, where the idle thread can always go
on. In `Ipc` every process may exit, after which nothing happens; the components of the last
three runs end at a bound or after one call.

*Symmetry* is used only in runs without liveness properties; in `kernel` it exchanges the two
capability spaces, which `CapabilitiesKept`, a property of single steps, does not tell apart.

## Proofs

All proofs are for any finite set of threads or processes, any set of endpoints or
address spaces, any number of priority levels and PIDs; the assumptions on constants
are `IpcAssumption`, `SchedAssumption`, `ProcAssumption`, `CspaceAssumption`, `TicketsSuffice`
and `BitmapConstants`. They say that sets and numbers are of their kind, that the first thread
is one of them, and that there are more tickets than CPUs (as 2^32 are).

**Ipc** (`InductiveInvariant`). The safety properties are not inductive alone. That
a queue holds only sleepers (`QueuedAsleep`) relies on nobody being woken by
mistake, `ipc_reply` and exit wake through the call links, so the links must be right
(`ReplyOwedToWaiter`), and that relies on what a thread at each place looks like.
`IInv` is the conjunction of the type invariant, `ThreadShape` (a thread that
blocks holds a reference, an exited one owes nothing, one that awaits no reply has
no pending flag), `EndpointShape` (freed exactly at count zero, empty
queues unless live) and the properties. `IpcInductive` has the lemmas about queues,
references and links and the steps that block, resume, create, fork and reap; `IpcStepProofs` the
rendezvous, the reply, destruction and exit; `IpcMessageProofs` what messages consist of; `IpcProofs`
the theorems. What the lemmas need of finite sets is one premise, `Counting`, which
`ThreadsCounted` discharges from the library. The theorems:

- `TypeCorrect`: `TypeOK`;
- `WaitersFound`: `NoStrandedWaiter`; `RendezvousTakesPlace`: `NoMissedRendezvous`;
- `QueuesSound`: `QueuedAsleep`;
- `RepliesSafe`: `ReplyOwedToWaiter`;
- `ReferencesSafe`: `RefcountExact`, `NoUseAfterFree`, `OwnerAlive`;
- `SlicesArrive`: `SliceWithMessage`; `RepliesArrive`: `ReplyFromServer`.

They assume that no server forks while it owes a reply, which run `ipc_fork` shows
to be needed. The last two rest on `MessageInv`, which says of each thread what its buffer
and its window hold: a thread that waits for something to be put there has an empty buffer, one that
waits in a queue has its own data in its window, and a call that has been answered holds
the reply of the server recorded for it. Each step touches the windows of at most two threads; the
others keep what is said of them (`UntouchedMessage`).

There follow, if moreover servers reply before they receive again (run `ipc_nested`),
`CallersFound`: `NoStrandedCaller`, whose invariant `CallInv` says that a thread
asleep in `ipc_recv` owes nobody, so `link_call` overwrites nothing; and `RpcImplemented`:
`ImplementsRpc`, the refinement. For each step of `Rpc` one lemma says which change of the
call links it is (`RpcRequest`, `RpcAccept`, `RpcAnswer`, `RpcFail`, `RpcReturn`); each action of `Ipc` is
shown to be one of them or to move no call. The destruction of an endpoint and the exit of a
server fail several calls in one step, as `Rpc` allows.

**Sched**. The invariant describes the run queue by the set of threads it should hold
(`Holds`): lists, bitmap and count are those of exactly this set. Each operation on
the run queue has a lemma in these terms, each action changes the set in the same
way. Theorems: `SchedTypeCorrect`, `RunQueueCorrect` (`RunQueueExact`),
`ReadyThreadsQueued` (`ReadyQueuedOnce`), `PreemptionCorrect` (`PreemptCountExact`, `NoNestedSchedule`),
`PriorityRespected` (`HighestPriorityRuns`). That the least set bit exists is the
well-foundedness of the naturals.

**Proc**. `IInv` joins the safety properties with `Shape` (a kernel thread has no
parent, children or address space; a process has an address space until it exits;
a sleeper waits for itself) and `Anchors` (who runs is runnable; a registered init
exists and has no parent). The tree is described in two parts. `Lists` holds however the
kernel boots: a list names existing children of its owner, each once. `Listed`, `Reapable` and
`Childless` (every child is listed, its parent exists and has not exited unless it is init, a zombie other than
init has no children) hold while the tree is `Tended`: init is registered, or nobody has
been started yet. Reaping is the step that needs them: the zombie's list of children is empty, and
lists and parent pointers agree, so nobody's parent is freed. The three ways to start
a process are instances of one step (`Born`). Theorems: `FamilyIsConsistent`,
`SomeoneCanReap` (`ReaperExists`), `NoExitIsMissed` (`NoMissedExit`), `PidsAreExact`,
`SpacesAreSafe` (`SpacesOwned`, `LoadedSpaceExists`). They hold for both ways of starting
init. What they say of parents, `ReaperExists` and the last part of `FamilyConsistent`, is
conditional on a registered init; the boot code registers none, and run `proc_boot` shows what becomes of
the tree then.

**Cspace**. `CspaceInv` joins types, `CspaceExact` and `Derived` (every capability in a slot
comes from one in `issued` for the same object with at least its rights, and has left its first
space only with GRANT). All operations that fill a slot go through `Store` into a slot
whose bit is clear, so one lemma each (`StoreKeeps`, `StoreDerived`) serves create, copy
and mint. The step that needs `CspaceExact` is the copy to a given slot, which looks at the type,
while the search looks at the bitmap. Theorems: `SlotsAgree` (`CspaceExact`),
`AuthorityNeverGrows` (`RightsDerived`), `CapabilitiesStay` (`CapabilitiesKept`: only the deletion of
that slot or the destruction of its space changes it).

**Bitmap**. `BitmapInv` is the half of `BitmapExact` about the ranges in use; the other half, about the two
searches, holds for every bitmap and is a fact about the operators. The search by words finds the
lowest clear bit because the lowest word that is not full holds it (`PageFound`); the count of clear bits
in a row is the distance to the last set bit (`RunEquation`, `RunCounts`), so that where it first
reaches `n` the lowest free run of `n` ends (`RangeFound`). Theorem: `BitmapCorrect` (`BitmapExact`).

**Locks**. `TicketInv` measures every ticket by its distance from `now_serving` modulo the number of
tickets: the distances of the holder and the waiters are exactly 0 .. n-1 for n CPUs, the
holder's is 0, and the ticket `spin_trylock` is about to exchange lies at or behind `now_serving`.
Fewer CPUs than tickets make sure that n never wraps. `ReadersInv` counts the readers. Theorem:
`LocksCorrect` (`LocksExclusive`).

*Proved and not listed in a run*: the type invariants of `Ipc`, `Sched` and `Proc` (the last as a
conjunct of its inductive invariant), `NoUseAfterFree`, `OwnerAlive` and `SpacesOwned`.
`NoNestedSchedule` is checked as a conjunct of `ReadyQueuedOnce`.

*Only model-checked*: everything about liveness (`SystemCallsEnd`, `QueuedRuns`, `WaitReturns`), which is
beyond the prover; `Buddy`, `LibcHeap`, `Strings`, `Shell` and `ProgramArgs`, which are recursive; `Vmm`
and `ServerTables`, which fold over sequences and sums of sets, so that their facts need
induction over data; `Files`, `Entry`, `Slab`, `Ramfs`, `Vfs` and the refinement of `Queues` by `Lists`, whose
invariants are not proved yet.

## Findings

Besides the four failing runs, `findings` in `PROJECT.json` lists places where a comment and the code
part, met while translating: among them the drifting `free_pages`, a buddy looked for behind the page
array, a stack laid over a segment, a protection that changes more than it is asked to, a revocation that takes
nothing away, `strncpy` that writes one byte more than it is given room for, a root mount that covers
no file, a reader-writer lock without the priority its comment claims. The models follow the code in
each of them.

## Not modelled

- Register contents of messages, formatting and printing, number parsing, stdio: data without a protocol.
- Descriptor tables, the interrupt controller, serial and disk ports: hardware set-up and polling.
- The block server and the ATA driver: the one checks ranges of devices that are registered once
  and never go, the other is port I/O or stubs.
- ext2: decodes a format from block reads that return zeros.
- The bodies of the shell's built-in commands, init's service list, `cat`, `echo`, `ls`: straight-line users.
- `exec_test_user_mode`, `vmm_map_to_user`, `process_kill`, wait queues, timed sleeps, binding of
  endpoints: no callers. The per-CPU page caches: empty functions.
- Endpoint numbers: they repeat only after the counter has wrapped, and `Ipc` names endpoints directly.
- `ppid`, which `getppid` reports and nothing else reads, is not updated by reparenting; and a kernel
  thread's PID is never freed, which `PidsExact` allows since nothing promises otherwise.
- Waiting for a key in `sys_read`: the kernel halts with interrupts on and without yielding, so no
  other thread runs; `Files` has the call as one step that is possible once its characters are there.

Worth doing next: proofs about files, entry, the slab lists, ramfs and the VFS server; `Vmm` with an abstract map from pages to frames;
endpoint numbers and well-known endpoints.
