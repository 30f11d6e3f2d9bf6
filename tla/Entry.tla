------------------------------- MODULE Entry -------------------------------
(***************************************************************************)
(* How threads enter and leave the kernel: the SYSCALL entry stub and its  *)
(* return path (entry.asm), the per-CPU block it finds through GS, the     *)
(* trap frame on the thread's kernel stack, the switch to another thread   *)
(* in the middle of a system call (switch_to, switch_context), the frame a *)
(* fork copies for its child (process_fork, ret_from_fork), the restart of *)
(* a thread by exec (enter_usermode_from_syscall) and the interrupt stub,  *)
(* which saves its own frame at the top of the stack the TSS names.        *)
(*                                                                         *)
(* A register value is a token <<register, c>>: the value register held    *)
(* when the user program made call c.  The stubs only move values, so      *)
(* tokens show a value that ends up in the wrong place.  The top of a      *)
(* kernel stack is an array of words: word w is the one at top - 8 * w.    *)
(***************************************************************************)
EXTENDS Abi, Functions

CONSTANTS
    UserThreads,     \* user threads; the first one is init's
    InitThread,
    Repertoires      \* the sets of calls a model's programs make

ASSUME EntryConstants ==
    /\ InitThread \in UserThreads
    /\ "idle" \notin UserThreads
    /\ Repertoires \subseteq SUBSET Calls

VARIABLES
    current,         \* current_thread: a user thread or "idle"
    cpu_mode,        \* "user", "kernel" or "fault"
    gs_base,         \* MSR_GS_BASE
    kernel_gs_base,  \* MSR_KERNEL_GS_BASE
    percpu,          \* struct percpu_syscall: user_rsp and kernel_rsp
    rsp0,            \* the TSS's ring 0 stack
    regs,            \* the registers of the CPU while it is in user mode
    kstack,          \* thread -> the words at the top of its kernel stack
    context,         \* thread -> where its saved context resumes
    runnable,        \* the threads on the run queue
    served,          \* thread -> the handler and the parameters of its call
    expected,        \* history: thread -> the registers it must resume with
    program,         \* thread -> the call it is about to make, or "none"
    repertoire       \* the calls the programs make

entryVars == <<current, cpu_mode, gs_base, kernel_gs_base, percpu, rsp0, regs,
               kstack, context, runnable, served, expected, program,
               repertoire>>

GeneralRegs == <<"rax", "rbx", "rcx", "rdx", "rsi", "rdi", "rbp", "r8", "r9",
                 "r10", "r11", "r12", "r13", "r14", "r15">>

(* struct trap_frame in the order the stub pushes it: 22 words, 176 bytes. *)
TrapFrame == <<"ss", "rsp", "rflags", "cs", "rip", "error_code", "int_no">>
                \o GeneralRegs

FrameWords == Len(TrapFrame)

Words == 1 .. FrameWords + 1

UserRegs == Range(GeneralRegs) \union {"rip", "rsp", "rflags"}

Offset(r) == CHOOSE i \in 1 .. FrameWords : TrapFrame[i] = r

(* 0, the constants a stub pushes, and registers the kernel has used.      *)
Zero == <<"zero", 0>>
Pushed(r) == <<r, 0>>
NoRegs == [r \in UserRegs |-> Zero]

(***************************************************************************)
(* The user side: syscall0 .. syscall6 load the number and the arguments   *)
(* and leave the other registers as the program has them.                  *)
(***************************************************************************)
ArgumentRegs == <<"rdi", "rsi", "rdx", "r10", "r8", "r9">>

syscallN(c) ==
    [r \in UserRegs |->
        LET i == {k \in 1 .. Len(wrappers[c]) : ArgumentRegs[k] = r} IN
        IF r = "rax" THEN <<"nr", libocean_numbers[c]>>
        ELSE IF i = {} THEN <<r, c>>
        ELSE <<wrappers[c][CHOOSE k \in i : TRUE], c>>]

(***************************************************************************)
(* Boot: syscall_init stores the per-CPU block's address in the inactive   *)
(* GS base, and exec_elf leaves init's thread on the run queue with a      *)
(* context that starts in user_thread_start.                               *)
(***************************************************************************)
EntryInit ==
    /\ current = "idle"
    /\ cpu_mode = "kernel"
    /\ gs_base = "user"
    /\ kernel_gs_base = "percpu"
    /\ percpu = [user_rsp |-> Zero, kernel_rsp |-> <<"trampoline", 0>>]
    /\ rsp0 = <<"boot", 0>>
    /\ regs = NoRegs
    /\ kstack = [t \in UserThreads |-> [w \in Words |-> Zero]]
    /\ context = [t \in UserThreads |->
                    IF t = InitThread THEN "user_thread_start" ELSE "none"]
    /\ runnable = {InitThread}
    /\ served = [t \in UserThreads |-> ENOSYS]
    /\ expected = [t \in UserThreads |-> NoRegs]
    /\ repertoire \in Repertoires
    /\ program = [t \in UserThreads |-> "none"]

(* The words of a frame written below word b of a stack. *)
Push(stack, b, frame) ==
    [w \in Words |-> IF w - b \in 1 .. FrameWords
                     THEN frame[TrapFrame[w - b]] ELSE stack[w]]

(* What popping a frame below word b leaves in the registers at sysret:    *)
(* rcx and r11 are popped twice, the second time for the instruction.      *)
Pop(stack, b) ==
    [r \in UserRegs |->
        stack[b + Offset(CASE r = "rcx" -> "rip"
                           [] r = "r11" -> "rflags"
                           [] OTHER -> r)]]

swapgs ==
    /\ gs_base' = kernel_gs_base
    /\ kernel_gs_base' = gs_base

(***************************************************************************)
(* The user program computes and arrives at the SYSCALL of call c.         *)
(***************************************************************************)
user_program(c) ==
    /\ cpu_mode = "user"
    /\ program[current] = "none"
    /\ regs' = syscallN(c)
    /\ expected' = [expected EXCEPT ![current] = syscallN(c)]
    /\ program' = [program EXCEPT ![current] = c]
    /\ UNCHANGED <<current, cpu_mode, gs_base, kernel_gs_base, percpu, rsp0,
                   kstack, context, runnable, served>>

(* The shuffle of the argument registers before syscall_dispatch is called: *)
(* the saved copies in r12 .. r15 and rbx, then rdi .. r9 and the stack.    *)
dispatch_args(r) ==
    LET copies == [r12 |-> r["rdi"], r13 |-> r["rsi"], r14 |-> r["rdx"],
                   r15 |-> r["r8"], rbx |-> r["r9"]] IN
    [rdi |-> r["rax"], rsi |-> copies.r12, rdx |-> copies.r13,
     rcx |-> copies.r14, r8 |-> r["r10"], r9 |-> copies.r15,
     stack |-> copies.rbx]

(***************************************************************************)
(* SYSCALL: the CPU saves rip and rflags in rcx and r11; the stub swaps GS *)
(* and, if GS now is the per-CPU block, saves rsp there, takes the kernel  *)
(* stack from it and pushes the frame.  With any other base the store goes *)
(* to address 0.                                                           *)
(***************************************************************************)
syscall_entry_simple ==
    LET trapped == [regs EXCEPT !["rcx"] = regs["rip"],
                                !["r11"] = regs["rflags"]]
        frame == [r \in Range(TrapFrame) |->
                    CASE r = "rip" -> trapped["rcx"]
                      [] r = "rflags" -> trapped["r11"]
                      [] r \in UserRegs -> trapped[r]
                      [] OTHER -> Pushed(r)]
        owner == percpu.kernel_rsp[1] IN
    /\ cpu_mode = "user"
    /\ program[current] # "none"
    /\ swapgs
    /\ IF kernel_gs_base = "percpu" /\ owner \in UserThreads
       THEN /\ cpu_mode' = "kernel"
            /\ percpu' = [percpu EXCEPT !.user_rsp = regs["rsp"]]
            /\ kstack' = [kstack EXCEPT
                            ![owner] = Push(@, percpu.kernel_rsp[2], frame)]
       ELSE /\ cpu_mode' = "fault"
            /\ UNCHANGED <<percpu, kstack>>
    /\ served' = [served EXCEPT ![current] =
                    LET a == dispatch_args(trapped) IN
                    syscall_dispatch(a.rdi[2],
                        <<a.rsi, a.rdx, a.rcx, a.r8, a.r9, a.stack>>)]
    /\ expected' = [expected EXCEPT ![current] = trapped]
    /\ regs' = NoRegs
    /\ UNCHANGED <<current, rsp0, context, runnable, program>>

InSyscall == cpu_mode = "kernel" /\ current # "idle"

(***************************************************************************)
(* The handler returns v: the stub stores it in the frame's rax, pops the  *)
(* frame and returns.  The stub's stack is the one the thread was running  *)
(* on, whatever the per-CPU block says by now.                             *)
(***************************************************************************)
syscall_return(v) ==
    /\ InSyscall
    /\ kstack' = [kstack EXCEPT ![current][1 + Offset("rax")] = v]
    /\ regs' = Pop(kstack'[current], 1)
    /\ swapgs
    /\ cpu_mode' = "user"
    /\ served' = [served EXCEPT ![current] = ENOSYS]
    /\ expected' = [expected EXCEPT ![current]["rax"] = v]
    /\ program' = [program EXCEPT ![current] = "none"]
    /\ UNCHANGED <<current, percpu, rsp0, context, runnable>>

(* A cleared register file at an entry point: enter_usermode. *)
Fresh(t) ==
    [r \in UserRegs |-> CASE r = "rip" -> <<"entry", t>>
                          [] r = "rsp" -> <<"stack", t>>
                          [] r = "rflags" -> <<"0x202", 0>>
                          [] OTHER -> Zero]

(***************************************************************************)
(* exec_replace: the thread leaves the kernel through                      *)
(* enter_usermode_from_syscall and its old frame is never popped.          *)
(***************************************************************************)
enter_usermode_from_syscall ==
    /\ InSyscall
    /\ regs' = Fresh(current)
    /\ swapgs
    /\ cpu_mode' = "user"
    /\ served' = [served EXCEPT ![current] = ENOSYS]
    /\ expected' = [expected EXCEPT ![current] = Fresh(current)]
    /\ program' = [program EXCEPT ![current] = "none"]
    /\ UNCHANGED <<current, percpu, rsp0, kstack, context, runnable>>

(***************************************************************************)
(* process_fork in its system call: a copy of the parent's whole stack,    *)
(* then 22 words from below the per-CPU stack pointer to below the child's *)
(* stack top.                                                              *)
(***************************************************************************)
copied_frame ==
    LET source == percpu.kernel_rsp IN
    [w \in Words |-> IF w \in 1 .. FrameWords
                     THEN kstack[source[1]][w + source[2]]
                     ELSE kstack[current][w]]

process_fork(child) ==
    /\ InSyscall
    /\ context[child] = "none"
    /\ kstack' = [kstack EXCEPT ![child] = copied_frame]
    /\ context' = [context EXCEPT ![child] = "ret_from_fork"]
    /\ runnable' = runnable \union {child}
    /\ expected' = [expected EXCEPT
                        ![child] = [expected[current] EXCEPT !["rax"] = Zero]]
    /\ program' = [program EXCEPT ![child] = "none"]
    /\ UNCHANGED <<current, cpu_mode, gs_base, kernel_gs_base, percpu, rsp0,
                   regs, served>>

(* ret_from_fork: rax in the copied frame becomes 0 and the frame is popped. *)
ret_from_fork(t) ==
    /\ kstack' = [kstack EXCEPT ![t][Offset("rax")] = Zero]
    /\ regs' = Pop(kstack'[t], 0)
    /\ swapgs
    /\ cpu_mode' = "user"
    /\ UNCHANGED expected

(* user_thread_start and enter_usermode: no swapgs. *)
enter_usermode(t) ==
    /\ regs' = Fresh(t)
    /\ cpu_mode' = "user"
    /\ expected' = [expected EXCEPT ![t] = Fresh(t)]
    /\ UNCHANGED <<gs_base, kernel_gs_base, kstack>>

(* A thread that was switched out inside a system call goes on there. *)
resume_in_kernel ==
    /\ cpu_mode' = "kernel"
    /\ UNCHANGED <<gs_base, kernel_gs_base, kstack, regs, expected>>

(* Variant of switch_stacks: only the TSS learns of the new stack. *)
switch_stacks_tss(next) ==
    /\ rsp0' = IF next = "idle" THEN rsp0 ELSE <<next, 0>>
    /\ UNCHANGED percpu

(***************************************************************************)
(* switch_to: the stacks that the next SYSCALL and the next interrupt use  *)
(* become the next thread's, if it has one (the idle thread does not), and *)
(* the CPU goes on where next's saved context says.                        *)
(***************************************************************************)
switch_stacks(next) ==
    IF next = "idle"
    THEN UNCHANGED <<percpu, rsp0>>
    ELSE /\ percpu' = [percpu EXCEPT !.kernel_rsp = <<next, 1>>]
         /\ rsp0' = <<next, 0>>

resumes_at(next) == IF next = "idle" THEN "switch_context" ELSE context[next]

switch_to(next) ==
    /\ current' = next
    /\ switch_stacks(next)
    /\ \/ resumes_at(next) = "switch_context" /\ resume_in_kernel
       \/ resumes_at(next) = "ret_from_fork" /\ ret_from_fork(next)
       \/ resumes_at(next) = "user_thread_start" /\ enter_usermode(next)
    /\ UNCHANGED <<served, program>>

(* The thread pick_next_thread returns; its order is the scheduler's model. *)
Candidates(q) == IF q = {} THEN {"idle"} ELSE q

(* schedule from a system call: the thread yields or blocks. *)
sys_yield(next) ==
    /\ InSyscall
    /\ next \in runnable
    /\ context' = [context EXCEPT ![current] = "switch_context"]
    /\ runnable' = (runnable \union {current}) \ {next}
    /\ switch_to(next)

block(next) ==
    /\ InSyscall
    /\ next \in Candidates(runnable)
    /\ context' = [context EXCEPT ![current] = "switch_context"]
    /\ runnable' = runnable \ {next}
    /\ switch_to(next)

(* sys_exit: the thread is never switched to again and its slot is reused. *)
sys_exit(next) ==
    /\ InSyscall
    /\ next \in Candidates(runnable)
    /\ context' = [context EXCEPT ![current] = "none"]
    /\ runnable' = runnable \ {next}
    /\ switch_to(next)

(* A handler wakes a blocked thread. *)
sched_wakeup(t) ==
    /\ InSyscall
    /\ t # current
    /\ t \notin runnable
    /\ context[t] = "switch_context"
    /\ runnable' = runnable \union {t}
    /\ UNCHANGED <<current, cpu_mode, gs_base, kernel_gs_base, percpu, rsp0,
                   regs, kstack, context, served, expected, program>>

(* The idle loop's schedule(). *)
idle_schedule(next) ==
    /\ current = "idle"
    /\ next \in runnable
    /\ runnable' = runnable \ {next}
    /\ UNCHANGED context
    /\ switch_to(next)

(***************************************************************************)
(* An interrupt in user mode: the CPU and irq_common_stub save 22 words    *)
(* from the very top of the TSS's stack and restore them; GS is not used.  *)
(***************************************************************************)
irq_common_stub ==
    /\ cpu_mode = "user"
    /\ rsp0[1] \in UserThreads
    /\ kstack' = [kstack EXCEPT ![rsp0[1]] =
                    Push(@, rsp0[2], [r \in Range(TrapFrame) |-> <<"irq", 0>>])]
    /\ UNCHANGED <<current, cpu_mode, gs_base, kernel_gs_base, percpu, rsp0,
                   regs, context, runnable, served, expected, program>>

EntryNext ==
    /\ \/ \E c \in repertoire : user_program(c)
       \/ syscall_entry_simple
       \/ syscall_return(<<"result", 0>>)
       \/ enter_usermode_from_syscall
       \/ \E t \in UserThreads : process_fork(t) \/ sched_wakeup(t)
       \/ \E t \in UserThreads : sys_yield(t) \/ idle_schedule(t)
       \/ \E t \in UserThreads \union {"idle"} : block(t) \/ sys_exit(t)
       \/ irq_common_stub
    /\ UNCHANGED repertoire

EntrySpec == EntryInit /\ [][EntryNext]_entryVars

---------------------------------------------------------------------------
(***************************************************************************)
(* A thread that leaves the kernel has exactly the registers it entered    *)
(* with, and its call's result in rax, however many other threads entered, *)
(* blocked, forked, exec'ed or were interrupted in between; a forked child *)
(* has its parent's registers and 0.  In user mode GS is the user's and    *)
(* the kernel's base waits in the other register; in a system call it is   *)
(* the reverse; no entry faults.  The handler is given the number and six  *)
(* arguments the C caller passed, and the frame of every thread inside the *)
(* kernel is intact on its own stack (entry.asm, switch.asm, switch_to).   *)
(***************************************************************************)
ReturnsToCaller ==
    /\ cpu_mode # "fault"
    /\ cpu_mode = "user" =>
          /\ regs = expected[current]
          /\ gs_base = "user" /\ kernel_gs_base = "percpu"
    /\ InSyscall => gs_base = "percpu" /\ kernel_gs_base = "user"
    /\ \A t \in UserThreads :
          LET inside == IF t = current THEN InSyscall
                        ELSE context[t] = "switch_context" IN
          inside => /\ Pop(kstack[t], 1) = expected[t]
                    /\ served[t] = Meant(program[t])
=============================================================================
