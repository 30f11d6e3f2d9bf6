------------------------------- MODULE Sched -------------------------------
(***************************************************************************)
(* The scheduler of kernel/sched/core.c on its one CPU: the priority run   *)
(* queue with its bitmap, schedule(), sleeping and waking, the timer tick, *)
(* the preemption count, and the boot thread that becomes the idle loop.   *)
(*                                                                         *)
(* A thread runs until it calls schedule(); schedule() up to the context   *)
(* switch is one step, and what a thread does when switch_context brings   *)
(* it back is its next step.  The timer interrupt may come between any two *)
(* steps.                                                                  *)
(***************************************************************************)
EXTENDS Integers, Sequences, FiniteSets

CONSTANTS
    Threads,      \* every thread but the idle thread
    Idle,         \* the idle thread, which also runs the boot code
    Null,         \* the NULL pointer
    MaxPrio,      \* MAX_PRIO: priorities are 0 (highest) to MaxPrio - 1
    DefaultPrio,  \* DEFAULT_PRIO, where every thread starts
    NewPrios      \* what sched_set_priority is called with

ASSUME SchedAssumption ==
    /\ IsFiniteSet(Threads)
    /\ Idle \notin Threads
    /\ Null \notin Threads \cup {Idle}
    /\ MaxPrio \in Nat \ {0}
    /\ DefaultPrio \in 0..(MaxPrio - 1)
    /\ NewPrios \subseteq Int

Prios == 0..(MaxPrio - 1)

All == Threads \cup {Idle}

VARIABLES
    state,          \* thread->state
    phase,          \* where the thread is: see Phases
    wait_channel,   \* thread->wait_channel: see Channels
    priority,       \* thread->priority
    need_resched,   \* TF_NEED_RESCHED in thread->flags
    rq,             \* struct run_queue: queue, bitmap, nr_running
    current,        \* current_thread
    preempt_count,  \* _preempt_count
    booting         \* the idle thread still runs the boot code

vars == <<state, phase, wait_channel, priority, need_resched, rq, current,
          preempt_count, booting>>

\* none: not created; new: created, has not run; run: executing, or would be;
\* switched: inside schedule(), preempt_enable() still to come; resched: in a
\* schedule() called by preempt_enable(); gone: inside its last schedule().
Phases == {"none", "new", "run", "switched", "resched", "gone"}

TaskStates == {"RUNNING", "INTERRUPTIBLE", "ZOMBIE"}

\* A thread in process_wait sleeps on its own process, named by the thread; one
\* in ipc_send or ipc_recv on its ipc_wait; one in ipc_call on its reply slot.
IpcWait == "ipc_wait"
ReplyWait == "ipc_reply_pending"
Channels == Threads \cup {IpcWait, ReplyWait, Null}

-----------------------------------------------------------------------------
(* sched_init *)
Init ==
    /\ state = [t \in All |-> "RUNNING"]
    /\ phase = [t \in All |-> IF t = Idle THEN "run" ELSE "none"]
    /\ wait_channel = [t \in All |-> Null]
    /\ priority = [t \in All |-> IF t = Idle THEN MaxPrio - 1 ELSE DefaultPrio]
    /\ need_resched = [t \in All |-> FALSE]
    /\ rq = [queue |-> [p \in Prios |-> <<>>], bitmap |-> {}, nr_running |-> 0]
    /\ current = Idle
    /\ preempt_count = 0
    /\ booting = TRUE

Members(q) == {q[i] : i \in 1..Len(q)}

\* t->run_list is not empty.
OnQueue(r, t) == \E p \in Prios : t \in Members(r.queue[p])

\* enqueue_thread_locked of a thread of priority p.
EnqueueAt(r, t, p) ==
    IF OnQueue(r, t) THEN r
    ELSE [queue |-> [r.queue EXCEPT ![p] = Append(@, t)],
          bitmap |-> r.bitmap \cup {p},
          nr_running |-> r.nr_running + 1]

Enqueue(r, t) == EnqueueAt(r, t, priority[t])

\* q without t, which is on it.
Without(q, t) ==
    LET i == CHOOSE k \in 1..Len(q) : q[k] = t IN
    [k \in 1..(Len(q) - 1) |-> IF k < i THEN q[k] ELSE q[k + 1]]

\* Variant of Ffs: the last set bit.
FfsLast(b) == CHOOSE p \in b : \A o \in b : p >= o

\* bitmap_ffs: the first set bit.
Ffs(b) == CHOOSE p \in b : \A o \in b : p <= o

\* The bitmap when queue p has become q.
BitmapAfter(b, p, q) == IF q = <<>> THEN b \ {p} ELSE b

\* sched_remove
Remove(r, t) ==
    IF ~OnQueue(r, t) THEN r
    ELSE LET p == priority[t]
             q == Without(r.queue[p], t) IN
         [queue |-> [r.queue EXCEPT ![p] = q],
          bitmap |-> BitmapAfter(r.bitmap, p, q),
          nr_running |-> r.nr_running - 1]

\* Variant of Picked: takes the last thread of the queue.
PickedLast(r) ==
    IF r.bitmap = {} THEN Idle
    ELSE LET q == r.queue[Ffs(r.bitmap)] IN q[Len(q)]

\* The thread pick_next_thread returns.
Picked(r) ==
    IF r.bitmap = {} THEN Idle ELSE Head(r.queue[Ffs(r.bitmap)])

\* Variant of Dequeue: leaves the bit of an emptied queue set.
DequeueKeepBit(r) ==
    IF r.bitmap = {} THEN r
    ELSE LET p == Ffs(r.bitmap) IN
         [queue |-> [r.queue EXCEPT ![p] = Tail(@)],
          bitmap |-> r.bitmap,
          nr_running |-> r.nr_running - 1]

\* The run queue pick_next_thread leaves behind.
Dequeue(r) ==
    IF r.bitmap = {} THEN r
    ELSE LET p == Ffs(r.bitmap)
             q == Tail(r.queue[p]) IN
         [queue |-> [r.queue EXCEPT ![p] = q],
          bitmap |-> BitmapAfter(r.bitmap, p, q),
          nr_running |-> r.nr_running - 1]

\* The run queue r after a current thread that may still run went back on it.
Requeue(r, s) ==
    IF s[current] = "RUNNING" /\ current # Idle THEN Enqueue(r, current) ELSE r

\* schedule() up to the context switch, called with run queue r, states s and
\* flags f.  A thread that has never run starts outside schedule(), any other
\* continues inside it.
Schedule(r, s, f) ==
    LET requeued == Requeue(r, s)
        next == Picked(requeued) IN
    /\ state' = s
    /\ rq' = Dequeue(requeued)
    /\ current' = next
    /\ need_resched' = IF next = current THEN f ELSE [f EXCEPT ![next] = FALSE]
    /\ phase' = [t \in All |->
                    CASE t = next -> IF phase[t] = "new" THEN "run" ELSE "switched"
                      [] t = current /\ t # next ->
                            IF s[t] = "ZOMBIE" THEN "gone" ELSE "switched"
                      [] OTHER -> phase[t]]
    /\ preempt_count' = preempt_count + 1

-----------------------------------------------------------------------------
\* The current thread executes, outside schedule().
Running == phase[current] = "run"

\* A thread that is not the idle thread executes.
InThread == Running /\ current # Idle

\* Variant of Resume: returns without preempt_enable.
ResumeDisabled ==
    /\ phase[current] = "switched"
    /\ phase' = [phase EXCEPT ![current] = "run"]
    /\ wait_channel' = [wait_channel EXCEPT ![current] = Null]
    /\ UNCHANGED <<state, priority, need_resched, rq, current, preempt_count, booting>>

(* The rest of schedule(): preempt_enable, and the sleeper's own clean-up  *)
(* (thread_sleep, process_wait).                                           *)
Resume ==
    LET n == IF preempt_count > 0 THEN preempt_count - 1 ELSE 0 IN
    /\ phase[current] = "switched"
    /\ preempt_count' = n
    /\ phase' = [phase EXCEPT ![current] =
                    IF n = 0 /\ need_resched[current] THEN "resched" ELSE "run"]
    /\ wait_channel' = [wait_channel EXCEPT ![current] = Null]
    /\ UNCHANGED <<state, priority, need_resched, rq, current, booting>>

\* sched_add of a thread that was just made.
Add(t) ==
    /\ phase[t] = "none"
    /\ state' = [state EXCEPT ![t] = "RUNNING"]
    /\ phase' = [phase EXCEPT ![t] = "new"]
    /\ UNCHANGED <<wait_channel, current, preempt_count, booting>>

(* thread_start, by the boot code *)
Start(t) ==
    /\ current = Idle
    /\ Running
    /\ booting
    /\ Add(t)
    /\ rq' = Enqueue(rq, t)
    /\ UNCHANGED <<priority, need_resched>>

(* process_fork: the child's priority and flags are its parent's *)
Fork(t) ==
    /\ InThread
    /\ Add(t)
    /\ priority' = [priority EXCEPT ![t] = priority[current]]
    /\ need_resched' = [need_resched EXCEPT ![t] = need_resched[current]]
    /\ rq' = EnqueueAt(rq, t, priority[current])

(* sched_yield, by a thread or by the boot thread while it waits for the   *)
(* threads it has started                                                  *)
Yield ==
    /\ Running
    /\ current = Idle => booting /\ \E t \in Threads : phase[t] # "none"
    /\ Schedule(rq, state, [need_resched EXCEPT ![current] = TRUE])
    /\ UNCHANGED <<wait_channel, priority, booting>>

(* thread_sleep from IPC, and the sleeps process_wait and ipc_call arrange *)
(* for themselves                                                          *)
Sleep(ch) ==
    /\ InThread
    /\ ch \in {current, IpcWait, ReplyWait}
    /\ wait_channel' = [wait_channel EXCEPT ![current] = ch]
    /\ Schedule(IF ch = IpcWait THEN Remove(rq, current) ELSE rq,
                [state EXCEPT ![current] = "INTERRUPTIBLE"], need_resched)
    /\ UNCHANGED <<priority, booting>>

\* Variant of Woken: made runnable, but put on no queue.
WokenUnqueued(t) ==
    /\ state' = [state EXCEPT ![t] = "RUNNING"]
    /\ UNCHANGED rq

\* sched_wakeup
Woken(t) ==
    IF state[t] = "RUNNING" THEN UNCHANGED <<state, rq>>
    ELSE /\ state' = [state EXCEPT ![t] = "RUNNING"]
         /\ rq' = IF t = current THEN rq ELSE Enqueue(rq, t)

(* An IPC operation wakes its partner, asleep in IPC or woken before.      *)
Wakeup(t) ==
    /\ InThread
    /\ t # current
    /\ phase[t] = "switched"
    /\ wait_channel[t] # t
    /\ Woken(t)
    /\ UNCHANGED <<phase, wait_channel, priority, need_resched, current,
                   preempt_count, booting>>

\* The parent sleeps in process_wait: thread_wakeup(parent) finds it.
Waiting(p) == p \in Threads /\ wait_channel[p] = p /\ state[p] = "INTERRUPTIBLE"

(* thread_exit: wake the parent, become a zombie, schedule away.  A kernel *)
(* thread has no parent.                                                   *)
Exit(parent) ==
    LET zombie == [state EXCEPT ![current] = "ZOMBIE"] IN
    /\ InThread
    /\ parent # current
    /\ IF Waiting(parent)
       THEN Schedule(Enqueue(rq, parent),
                     [zombie EXCEPT ![parent] = "RUNNING"], need_resched)
       ELSE Schedule(rq, zombie, need_resched)
    /\ UNCHANGED <<wait_channel, priority, booting>>

(* sched_tick.  DEFAULT_TIME_SLICE is one tick long, so every tick finds   *)
(* the slice of the current thread used up.                                *)
Tick ==
    /\ need_resched' = [need_resched EXCEPT ![current] =
                            @ \/ current # Idle \/ rq.nr_running > 0]
    /\ UNCHANGED <<state, phase, wait_channel, priority, rq, current,
                   preempt_count, booting>>

\* The priority sched_set_priority makes of its argument.
Clamp(p) == IF p < 0 THEN 0 ELSE IF p >= MaxPrio THEN MaxPrio - 1 ELSE p

\* The run queue after t moved from its queue to the tail of queue p.
Requeued(t, p) ==
    LET q == Without(rq.queue[priority[t]], t)
        left == [rq.queue EXCEPT ![priority[t]] = q] IN
    [queue |-> [left EXCEPT ![p] = Append(@, t)],
     bitmap |-> BitmapAfter(rq.bitmap, priority[t], q) \cup {p},
     nr_running |-> rq.nr_running]

(* sched_set_priority, sched_set_nice *)
SetPriority(t, prio) ==
    /\ Running
    /\ phase[t] \notin {"none", "gone"}
    /\ priority' = [priority EXCEPT ![t] = Clamp(prio)]
    /\ rq' = IF OnQueue(rq, t) THEN Requeued(t, Clamp(prio)) ELSE rq
    /\ UNCHANGED <<state, phase, wait_channel, need_resched, current,
                   preempt_count, booting>>

(* kernel_main reaches its idle loop *)
EnterIdleLoop ==
    /\ current = Idle
    /\ Running
    /\ booting
    /\ booting' = FALSE
    /\ UNCHANGED <<state, phase, wait_channel, priority, need_resched, rq,
                   current, preempt_count>>

(* One round of the idle loop: schedule() if a tick has asked for it *)
IdleLoop ==
    /\ current = Idle
    /\ Running
    /\ ~booting
    /\ need_resched[Idle]
    /\ Schedule(rq, state, [need_resched EXCEPT ![Idle] = FALSE])
    /\ UNCHANGED <<wait_channel, priority, booting>>

-----------------------------------------------------------------------------
Leave ==
    \/ Yield
    \/ \E ch \in Channels : Sleep(ch)
    \/ \E p \in Threads \cup {Null} : Exit(p)

Next ==
    \/ Resume
    \/ Leave
    \/ Tick
    \/ EnterIdleLoop
    \/ IdleLoop
    \/ \E t \in Threads :
        \/ Start(t)
        \/ Fork(t)
        \/ Wakeup(t)
        \/ \E p \in NewPrios : SetPriority(t, p)

Spec == Init /\ [][Next]_vars

\* What happens without the help of any thread: the timer ticks, a thread that
\* was switched to returns from schedule(), the boot code ends, the idle loop
\* turns.
KernelFairness ==
    /\ WF_vars(Resume)
    /\ WF_vars(Tick)
    /\ WF_vars(current = Idle /\ (Yield \/ EnterIdleLoop))
    /\ WF_vars(IdleLoop)

\* Threads may run for as long as they like.
TimerSpec == Spec /\ KernelFairness

\* Every thread sooner or later yields, sleeps or exits.
CooperativeSpec == Spec /\ KernelFairness /\ WF_vars(InThread /\ Leave)

-----------------------------------------------------------------------------
\* Every variable holds a value of the type its C declaration gives it.
TypeOK ==
    /\ state \in [All -> TaskStates]
    /\ phase \in [All -> Phases]
    /\ wait_channel \in [All -> Channels]
    /\ priority \in [All -> Prios]
    /\ need_resched \in [All -> BOOLEAN]
    /\ rq \in [queue : [Prios -> Seq(Threads)], bitmap : SUBSET Prios,
              nr_running : Nat]
    /\ current \in All
    /\ preempt_count \in Nat
    /\ booting \in BOOLEAN

\* The threads on some queue.
Queued == {t \in Threads : OnQueue(rq, t)}

\* The run queue's summary of itself is right: a bit is set exactly for the
\* queues that have a thread, so pick_next_thread neither overlooks a thread nor
\* takes the head of an empty list, and nr_running, which decides whether a
\* tick wakes the idle loop, counts the queued threads.
RunQueueExact ==
    /\ \A p \in Prios : p \in rq.bitmap <=> rq.queue[p] # <<>>
    /\ rq.nr_running = Cardinality(Queued)

\* The threads that wait for the CPU.
Ready == {t \in Threads : /\ t # current
                          /\ phase[t] \in {"new", "switched"}
                          /\ state[t] = "RUNNING"}

\* preempt_enable never calls schedule() from within schedule(), so a kernel
\* stack never holds more than one of its frames, whenever ticks arrive.
NoNestedSchedule == \A t \in All : phase[t] # "resched"

\* No thread is lost and none runs twice: exactly the runnable threads other
\* than the current one are queued, each once, on the queue of its priority.
\* A wakeup, whatever it races with, neither misses a thread nor queues it again,
\* and schedule() does not put a thread back a second time from within itself
\* (NoNestedSchedule).
ReadyQueuedOnce ==
    /\ Queued = Ready
    /\ \A p \in Prios : \A i \in 1..Len(rq.queue[p]) :
          /\ priority[rq.queue[p][i]] = p
          /\ \A j \in 1..Len(rq.queue[p]) :
                rq.queue[p][i] = rq.queue[p][j] => i = j
    /\ NoNestedSchedule

\* The threads that have called schedule() and not returned from it.
InSchedule == {t \in All : phase[t] \in {"switched", "gone"}}

\* preempt_disable and preempt_enable are paired across context switches: the
\* count is the number of threads inside schedule().  (Threads that exit stay
\* inside it, and a new thread never was.)
PreemptCountExact == preempt_count = Cardinality(InSchedule)

\* schedule() never passes over a thread of higher priority, and goes to the
\* idle thread only when no thread is ready.
HighestPriorityRuns ==
    [][current' # current =>
          \A t \in Queued' : current' # Idle /\ priority[current'] <= priority[t]]_vars

\* A queued thread gets the CPU, as long as all threads have DEFAULT_PRIO, where
\* the kernel starts them and leaves them: the queues are first in, first out
\* (list_add_tail).
QueuedRuns ==
    \A t \in Threads :
        t \in Queued ~> current = t \/ \E u \in Threads : priority[u] # DefaultPrio

=============================================================================
