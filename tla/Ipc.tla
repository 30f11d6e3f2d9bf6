-------------------------------- MODULE Ipc --------------------------------
(***************************************************************************)
(* Synchronous message passing of the kernel: kernel/ipc/message.c, the    *)
(* endpoint life cycle of kernel/ipc/endpoint.c, and what thread exit and  *)
(* fork do to them.                                                        *)
(*                                                                         *)
(* A process has exactly one thread, so one name stands for both.  The     *)
(* kernel runs on one CPU and switches only inside schedule(), with        *)
(* interrupts off in system calls: what runs between two calls of          *)
(* schedule() is one step.  A system call that blocks is therefore two     *)
(* actions, the one that goes to sleep and the one that resumes.           *)
(*                                                                         *)
(* A system call that fails before it has changed anything (dead or        *)
(* unknown endpoint, MSG_FLAG_NONBLOCK with no partner, no memory for the  *)
(* ipc_wait, a slice rejected on the sending side, a reply nobody waits    *)
(* for) leaves every variable alone and is a stuttering step.              *)
(***************************************************************************)
EXTENDS Naturals, Sequences, FiniteSets

CONSTANTS
    Threads,          \* struct thread objects (each with its process)
    Endpoints,        \* struct ipc_endpoint objects
    Null,             \* the NULL pointer
    KThreads,         \* the threads that are kernel threads: no IPC window
    InitialThreads,   \* the threads that exist at the start
    Callers,          \* the threads that send and call
    Receivers,        \* the threads that receive and reply
    SliceKinds,       \* the kinds of slice programs pass: see Slices
    NestedServe,      \* may a server receive while it still owes a reply?
    ForkWhileServing  \* may a server fork while it still owes a reply?

\* no MSG_FLAG_SLICE or an empty slice; one within the window; one beyond it
Slices == {"none", "fits", "overflow"}

ASSUME IpcAssumption ==
    /\ IsFiniteSet(Threads)
    /\ Null \notin Threads \cup Endpoints
    /\ KThreads \subseteq Threads
    /\ InitialThreads \subseteq Threads
    /\ KThreads \subseteq InitialThreads
    /\ Callers \subseteq Threads
    /\ Receivers \subseteq Threads
    /\ SliceKinds \subseteq Slices
    /\ NestedServe \in BOOLEAN
    /\ ForkWhileServing \in BOOLEAN

VARIABLES
    pc,                 \* where the thread is: see PCs
    state,              \* thread->state
    ep,                 \* the endpoint a blocked system call holds
    wait_result,        \* ipc_wait.result of a blocked send or receive
    ipc_caller,         \* thread->ipc_caller: the caller it owes a reply
    ipc_reply_server,   \* thread->ipc_reply_server
    ipc_reply_pending,  \* thread->ipc_reply_pending
    ipc_reply_result,   \* thread->ipc_reply_result
    slice,              \* the slice its current message carries
    from,               \* whose register data its message buffer holds
    win,                \* whose data its IPC window holds
    ep_state,           \* free, live, or dead and still referenced
    owner,              \* the process whose owned_endpoints list it is on
    refcount,           \* endpoint->refcount
    send_queue,         \* endpoint->send_queue
    recv_queue          \* endpoint->recv_queue

waitVars == <<pc, state, ep, wait_result>>
linkVars == <<ipc_caller, ipc_reply_server, ipc_reply_pending,
              ipc_reply_result>>
dataVars == <<slice, from, win>>
epVars   == <<ep_state, owner, refcount>>
queueVars == <<send_queue, recv_queue>>
vars == <<waitVars, linkVars, dataVars, epVars, queueVars>>

\* user: in user mode or about to return to it; send, callsend, recv: in the
\* thread_sleep() of ipc_send, of the send half of ipc_call, of ipc_recv;
\* call: in the wait loop of ipc_call; free: no such thread.
PCs == {"user", "send", "callsend", "recv", "call", "zombie", "free"}

TaskStates == {"RUNNING", "INTERRUPTIBLE", "ZOMBIE"}

Results == {"OK", "ERR_INVALID", "ERR_DEAD", "ERR_OVERFLOW", "ERR_NOPARTNER"}

Members(q) == {q[i] : i \in 1..Len(q)}

-----------------------------------------------------------------------------
Init ==
    /\ pc = [t \in Threads |-> IF t \in InitialThreads THEN "user" ELSE "free"]
    /\ state = [t \in Threads |->
                    IF t \in InitialThreads THEN "RUNNING" ELSE "ZOMBIE"]
    /\ ep = [t \in Threads |-> Null]
    /\ wait_result = [t \in Threads |-> "OK"]
    /\ ipc_caller = [t \in Threads |-> Null]
    /\ ipc_reply_server = [t \in Threads |-> Null]
    /\ ipc_reply_pending = [t \in Threads |-> FALSE]
    /\ ipc_reply_result = [t \in Threads |-> "OK"]
    /\ slice = [t \in Threads |-> "none"]
    /\ from = [t \in Threads |-> Null]
    /\ win = [t \in Threads |-> t]
    /\ ep_state = [e \in Endpoints |-> "free"]
    /\ owner = [e \in Endpoints |-> Null]
    /\ refcount = [e \in Endpoints |-> 0]
    /\ send_queue = [e \in Endpoints |-> <<>>]
    /\ recv_queue = [e \in Endpoints |-> <<>>]

\* What maybe_copy_window answers for a slice of kind k from src to dst.
CopySlice(k, src, dst) ==
    CASE k = "none"     -> "OK"
      [] k = "overflow" -> "ERR_OVERFLOW"
      [] k = "fits"     -> IF src \in KThreads \/ dst \in KThreads
                             THEN "ERR_INVALID" ELSE "OK"

\* Variant of WindowAfter: source and destination swapped.
WindowAfterSwapped(w, k, src, dst) ==
    IF k = "fits" THEN [w EXCEPT ![src] = w[dst]] ELSE w

\* The window of dst after a slice of kind k was copied from src into it.
WindowAfter(w, k, src, dst) ==
    IF k = "fits" THEN [w EXCEPT ![dst] = w[src]] ELSE w

\* The program puts its own data in its window before it names a slice.
FillWindow(t, k) == IF k = "fits" THEN [win EXCEPT ![t] = t] ELSE win

\* endpoint_put: the last reference frees the endpoint.
AfterPut(e, st) == IF refcount[e] = 1 THEN "free" ELSE st

Put(e) ==
    /\ refcount' = [refcount EXCEPT ![e] = @ - 1]
    /\ ep_state' = [ep_state EXCEPT ![e] = AfterPut(e, @)]

\* Variant of Get: finds the endpoint but takes no reference.
GetBorrowed(e) == UNCHANGED <<refcount, ep_state>>

\* endpoint_get: one more reference to a live endpoint.
Get(e) ==
    /\ refcount' = [refcount EXCEPT ![e] = @ + 1]
    /\ UNCHANGED ep_state

\* Variant of NoWaiter: does not look.
NoWaiterAssumed(q) == TRUE

\* peek_waiter finds nobody.
NoWaiter(q) == q = <<>>

\* Variant of Enqueue: joins at the head.
EnqueueAtHead(q, t) == <<t>> \o q

\* list_add_tail of a waiter.
Enqueue(q, t) == Append(q, t)

\* Variant of Dequeue: leaves the first waiter linked.
DequeueNobody(q) == q

\* list_del_init of the first waiter.
Dequeue(q) == Tail(q)

\* list_del_init of t if it is still linked.
Without(q, t) ==
    IF t \in Members(q) THEN SelectSeq(q, LAMBDA x : x # t) ELSE q

\* copy_message and maybe_copy_window, from src with window contents w: r gets
\* the registers and the slice of kind k in one step.  t is the thread whose
\* system call this is; what it had received before is gone.
Deliver(t, src, r, k, w) ==
    /\ from' = [from EXCEPT ![t] = Null, ![r] = src]
    /\ slice' = [slice EXCEPT ![r] = k]
    /\ win' = WindowAfter(w, k, src, r)

-----------------------------------------------------------------------------
(* endpoint_create, endpoint_create_well_known *)
EndpointCreate(t, e) ==
    /\ pc[t] = "user"
    /\ ep_state[e] = "free"
    /\ ep_state' = [ep_state EXCEPT ![e] = "live"]
    /\ owner' = [owner EXCEPT ![e] = t]
    /\ refcount' = [refcount EXCEPT ![e] = 1]
    /\ send_queue' = [send_queue EXCEPT ![e] = <<>>]
    /\ recv_queue' = [recv_queue EXCEPT ![e] = <<>>]
    /\ UNCHANGED <<waitVars, linkVars, dataVars>>

\* Variant of Waiters: forgets the receivers.
WaitersSendersOnly(S) == UNION {Members(send_queue[e]) : e \in S}

\* Every thread queued on an endpoint of S.
Waiters(S) ==
    UNION {Members(send_queue[e]) \cup Members(recv_queue[e]) : e \in S}

\* endpoint_destroy of every endpoint of S: off the registry, marked dead, its
\* waiters told ERR_DEAD, the reference of its creation dropped.
DestroyEndpoints(S) ==
    /\ wait_result' = [t \in Threads |->
                          IF t \in Waiters(S) THEN "ERR_DEAD" ELSE wait_result[t]]
    /\ ep_state' = [e \in Endpoints |->
                       IF e \in S THEN AfterPut(e, "dead") ELSE ep_state[e]]
    /\ refcount' = [e \in Endpoints |->
                       IF e \in S THEN refcount[e] - 1 ELSE refcount[e]]
    /\ owner' = [e \in Endpoints |-> IF e \in S THEN Null ELSE owner[e]]
    /\ send_queue' = [e \in Endpoints |-> IF e \in S THEN <<>> ELSE send_queue[e]]
    /\ recv_queue' = [e \in Endpoints |-> IF e \in S THEN <<>> ELSE recv_queue[e]]

\* sched_wakeup of every thread of W: runnable, whatever it was doing.
WakeAll(W) == [t \in Threads |-> IF t \in W THEN "RUNNING" ELSE state[t]]

(* sys_endpoint_destroy: any thread may name any live endpoint *)
EndpointDestroy(t, e) ==
    /\ pc[t] = "user"
    /\ ep_state[e] = "live"
    /\ DestroyEndpoints({e})
    /\ state' = WakeAll(Waiters({e}))
    /\ UNCHANGED <<pc, ep, linkVars, dataVars>>

-----------------------------------------------------------------------------
\* Variant of LinkCall: the caller does not learn its server.
LinkCallOneWay(c, s) ==
    /\ ipc_reply_pending' = [ipc_reply_pending EXCEPT ![c] = TRUE]
    /\ ipc_reply_result' = [ipc_reply_result EXCEPT ![c] = "ERR_DEAD"]
    /\ ipc_caller' = [ipc_caller EXCEPT ![s] = c]
    /\ UNCHANGED ipc_reply_server

\* link_call: the caller waits for the server, the server owes it a reply.
LinkCall(c, s) ==
    /\ ipc_reply_pending' = [ipc_reply_pending EXCEPT ![c] = TRUE]
    /\ ipc_reply_result' = [ipc_reply_result EXCEPT ![c] = "ERR_DEAD"]
    /\ ipc_reply_server' = [ipc_reply_server EXCEPT ![c] = s]
    /\ ipc_caller' = [ipc_caller EXCEPT ![s] = c]

\* The direct transfer of ipc_send_op: the first waiting receiver r is taken
\* off the queue and given the message.
ToReceiver(t, e, k, r) ==
    /\ pc[t] = "user"
    /\ ep_state[e] = "live"
    /\ ~NoWaiter(recv_queue[e])
    /\ r = Head(recv_queue[e])
    /\ CopySlice(k, t, r) = "OK"
    /\ recv_queue' = [recv_queue EXCEPT ![e] = Dequeue(@)]
    /\ wait_result' = [wait_result EXCEPT ![r] = "OK"]
    /\ Deliver(t, t, r, k, FillWindow(t, k))
    /\ UNCHANGED <<owner, send_queue>>

(* ipc_send_fast with a receiver waiting. *)
SendDirect(t, e, k) ==
    \E r \in Threads :
        /\ ToReceiver(t, e, k, r)
        /\ state' = WakeAll({r})
        /\ UNCHANGED <<pc, ep, linkVars, refcount, ep_state>>

(* sys_ipc_call with a receiver waiting: the links, then the wait loop. *)
CallDirect(t, e, k) ==
    \E r \in Threads :
        /\ ToReceiver(t, e, k, r)
        /\ LinkCall(t, r)
        /\ state' = [WakeAll({r}) EXCEPT ![t] = "INTERRUPTIBLE"]
        /\ pc' = [pc EXCEPT ![t] = "call"]
        /\ ep' = [ep EXCEPT ![t] = e]
        /\ Get(e)

\* The thread sleeps in queue of e at the place named by to.
Block(t, e, to) ==
    /\ pc' = [pc EXCEPT ![t] = to]
    /\ state' = [state EXCEPT ![t] = "INTERRUPTIBLE"]
    /\ ep' = [ep EXCEPT ![t] = e]
    /\ wait_result' = [wait_result EXCEPT ![t] = "ERR_NOPARTNER"]
    /\ Get(e)

(* ipc_send, or the send half of ipc_call, with no receiver waiting. *)
SendBlock(t, e, k, to) ==
    /\ pc[t] = "user"
    /\ ep_state[e] = "live"
    /\ NoWaiter(recv_queue[e])
    /\ Block(t, e, to)
    /\ send_queue' = [send_queue EXCEPT ![e] = Enqueue(@, t)]
    /\ slice' = [slice EXCEPT ![t] = k]
    /\ from' = [from EXCEPT ![t] = Null]
    /\ win' = FillWindow(t, k)
    /\ UNCHANGED <<linkVars, owner, recv_queue>>

\* The system call that held ep[t] returns; its ipc_wait is gone.
Return(t) ==
    /\ pc' = [pc EXCEPT ![t] = "user"]
    /\ ep' = [ep EXCEPT ![t] = Null]
    /\ wait_result' = [wait_result EXCEPT ![t] = "OK"]
    /\ Put(ep[t])
    /\ UNCHANGED state

(* A blocked ipc_send wakes up: unlink, result, endpoint_put. *)
SendResume(t) ==
    /\ pc[t] = "send"
    /\ state[t] = "RUNNING"
    /\ send_queue' = [send_queue EXCEPT ![ep[t]] = Without(@, t)]
    /\ Return(t)
    /\ slice' = [slice EXCEPT ![t] = "none"]
    /\ UNCHANGED <<linkVars, from, win, owner, recv_queue>>

\* Variant of AwaitReply: sleeps without looking whether the reply is there.
AwaitReplyUnchecked(t) ==
    /\ pc' = [pc EXCEPT ![t] = "call"]
    /\ state' = [state EXCEPT ![t] = "INTERRUPTIBLE"]
    /\ UNCHANGED <<ep, wait_result, refcount, ep_state, linkVars>>

\* Variant of AwaitReply: the first wakeup ends the call.
AwaitReplyOnce(t) ==
    /\ Return(t)
    /\ ipc_reply_server' = [ipc_reply_server EXCEPT ![t] = Null]
    /\ UNCHANGED <<ipc_caller, ipc_reply_pending, ipc_reply_result>>

\* The wait loop of ipc_call: sleep while the reply is pending, else return.
AwaitReply(t) ==
    IF ipc_reply_pending[t]
    THEN /\ pc' = [pc EXCEPT ![t] = "call"]
         /\ state' = [state EXCEPT ![t] = "INTERRUPTIBLE"]
         /\ UNCHANGED <<ep, wait_result, refcount, ep_state, linkVars>>
    ELSE /\ Return(t)
         /\ ipc_reply_server' = [ipc_reply_server EXCEPT ![t] = Null]
         /\ UNCHANGED <<ipc_caller, ipc_reply_pending, ipc_reply_result>>

(* The send half of ipc_call wakes up: on failure the call is over and its *)
(* reply state is cleared, else it waits for the reply.                    *)
CallSendResume(t) ==
    /\ pc[t] = "callsend"
    /\ state[t] = "RUNNING"
    /\ send_queue' = [send_queue EXCEPT ![ep[t]] = Without(@, t)]
    /\ \/ /\ wait_result[t] # "OK"
          /\ Return(t)
          /\ ipc_reply_pending' = [ipc_reply_pending EXCEPT ![t] = FALSE]
          /\ ipc_reply_server' = [ipc_reply_server EXCEPT ![t] = Null]
          /\ UNCHANGED <<ipc_caller, ipc_reply_result>>
       \/ /\ wait_result[t] = "OK"
          /\ AwaitReply(t)
    /\ UNCHANGED <<dataVars, owner, recv_queue>>

(* The caller wakes up in the wait loop. *)
CallResume(t) ==
    /\ pc[t] = "call"
    /\ state[t] = "RUNNING"
    /\ AwaitReply(t)
    /\ UNCHANGED <<dataVars, owner, queueVars>>

-----------------------------------------------------------------------------
\* The single-threaded server model: reply before the next receive.
MayReceive(t) == NestedServe \/ ipc_caller[t] = Null

\* ipc_recv_fast takes the first waiting sender s off the queue and wakes it
\* with the outcome of the slice copy.
FromSender(t, e, s) ==
    /\ pc[t] = "user"
    /\ MayReceive(t)
    /\ ep_state[e] = "live"
    /\ ~NoWaiter(send_queue[e])
    /\ s = Head(send_queue[e])
    /\ send_queue' = [send_queue EXCEPT ![e] = Dequeue(@)]
    /\ wait_result' = [wait_result EXCEPT ![s] = CopySlice(slice[s], s, t)]
    /\ state' = WakeAll({s})
    /\ UNCHANGED <<pc, ep, epVars, recv_queue>>

(* ipc_recv_fast with a sender waiting whose slice can be copied. *)
RecvDirect(t, e) ==
    \E s \in Threads :
        /\ FromSender(t, e, s)
        /\ CopySlice(slice[s], s, t) = "OK"
        /\ IF pc[s] = "callsend" THEN LinkCall(s, t) ELSE UNCHANGED linkVars
        /\ Deliver(t, s, t, slice[s], win)

(* ... and one whose slice cannot: both sides fail with the same error and *)
(* nothing is delivered.                                                   *)
RecvSliceError(t, e) ==
    \E s \in Threads :
        /\ FromSender(t, e, s)
        /\ CopySlice(slice[s], s, t) # "OK"
        /\ from' = [from EXCEPT ![t] = Null]
        /\ UNCHANGED <<linkVars, slice, win>>

(* ipc_recv_fast with no sender waiting. *)
RecvBlock(t, e) ==
    /\ pc[t] = "user"
    /\ MayReceive(t)
    /\ ep_state[e] = "live"
    /\ NoWaiter(send_queue[e])
    /\ Block(t, e, "recv")
    /\ recv_queue' = [recv_queue EXCEPT ![e] = Enqueue(@, t)]
    /\ slice' = [slice EXCEPT ![t] = "none"]
    /\ from' = [from EXCEPT ![t] = Null]
    /\ UNCHANGED <<linkVars, win, owner, send_queue>>

(* A blocked ipc_recv wakes up. *)
RecvResume(t) ==
    /\ pc[t] = "recv"
    /\ state[t] = "RUNNING"
    /\ recv_queue' = [recv_queue EXCEPT ![ep[t]] = Without(@, t)]
    /\ Return(t)
    /\ UNCHANGED <<linkVars, dataVars, owner, send_queue>>

\* Variant of Detach: the server goes on owing the reply.
DetachForgotten(t) == ipc_caller

\* The server no longer owes a reply.
Detach(t) == [ipc_caller EXCEPT ![t] = Null]

(* ipc_reply: detach the caller, hand it the reply or the slice error. *)
Reply(t, k) ==
    LET c == ipc_caller[t]
        r == CopySlice(k, t, c) IN
    /\ pc[t] = "user"
    /\ c # Null
    /\ ipc_caller' = Detach(t)
    /\ ipc_reply_result' = [ipc_reply_result EXCEPT ![c] = r]
    /\ ipc_reply_pending' = [ipc_reply_pending EXCEPT ![c] = FALSE]
    /\ state' = WakeAll({c})
    /\ IF r = "OK" THEN Deliver(t, t, c, k, FillWindow(t, k))
                   ELSE from' = [from EXCEPT ![t] = Null] /\ UNCHANGED <<slice, win>>
    /\ UNCHANGED <<pc, ep, wait_result, ipc_reply_server, epVars, queueVars>>

-----------------------------------------------------------------------------
\* The endpoints process_exit destroys.  A kernel thread ends in thread_exit
\* without passing through process_exit and keeps its endpoints.
Owned(t) ==
    IF t \in KThreads THEN {} ELSE {e \in Endpoints : owner[e] = t}

(* process_exit: destroy the endpoints it owns, sever its call links in    *)
(* both directions (ipc_thread_cleanup), become a zombie.                  *)
Exit(t) ==
    LET c == ipc_caller[t]
        s == ipc_reply_server[t] IN
    /\ pc[t] = "user"
    /\ DestroyEndpoints(Owned(t))
    /\ ipc_caller' = [x \in Threads |->
                         IF x = t \/ (x = s /\ ipc_caller[x] = t)
                         THEN Null ELSE ipc_caller[x]]
    /\ ipc_reply_server' = [x \in Threads |->
                               IF x = t \/ (x = c /\ ipc_reply_server[x] = t)
                               THEN Null ELSE ipc_reply_server[x]]
    /\ ipc_reply_pending' = [x \in Threads |->
                                IF x \in {t, c} THEN FALSE ELSE ipc_reply_pending[x]]
    /\ ipc_reply_result' = [x \in Threads |->
                               IF x = c THEN "ERR_DEAD" ELSE ipc_reply_result[x]]
    /\ state' = [WakeAll(Waiters(Owned(t)) \cup {c}) EXCEPT ![t] = "ZOMBIE"]
    /\ pc' = [pc EXCEPT ![t] = "zombie"]
    /\ UNCHANGED <<ep, dataVars>>

(* process_fork: the child's struct thread starts as a copy of its parent's. *)
Fork(t, n) ==
    /\ pc[t] = "user"
    /\ pc[n] = "free"
    /\ t \notin KThreads
    /\ ForkWhileServing \/ ipc_caller[t] = Null
    /\ pc' = [pc EXCEPT ![n] = "user"]
    /\ state' = [state EXCEPT ![n] = "RUNNING"]
    /\ ipc_caller' = [ipc_caller EXCEPT ![n] = ipc_caller[t]]
    /\ ipc_reply_server' = [ipc_reply_server EXCEPT ![n] = ipc_reply_server[t]]
    /\ ipc_reply_pending' = [ipc_reply_pending EXCEPT ![n] = ipc_reply_pending[t]]
    /\ ipc_reply_result' = [ipc_reply_result EXCEPT ![n] = ipc_reply_result[t]]
    /\ win' = [win EXCEPT ![n] = n]
    /\ from' = [from EXCEPT ![n] = Null]
    /\ slice' = [slice EXCEPT ![n] = "none"]
    /\ UNCHANGED <<ep, wait_result, epVars, queueVars>>

(* process_destroy, from the wait of its parent: the zombie's structs are  *)
(* freed.  A kernel thread has no parent and stays a zombie.               *)
Reap(t) ==
    /\ pc[t] = "zombie"
    /\ t \notin KThreads
    /\ pc' = [pc EXCEPT ![t] = "free"]
    /\ UNCHANGED <<state, ep, wait_result, linkVars, dataVars, epVars, queueVars>>

-----------------------------------------------------------------------------
(* What one thread may do next. *)
SendStep(t, e) ==
    /\ t \in Callers
    /\ \E k \in SliceKinds :
        \/ SendDirect(t, e, k)
        \/ CallDirect(t, e, k)
        \/ SendBlock(t, e, k, "send")
        \/ SendBlock(t, e, k, "callsend")

RecvStep(t, e) ==
    /\ t \in Receivers
    /\ RecvDirect(t, e) \/ RecvSliceError(t, e) \/ RecvBlock(t, e)

ReplyStep(t) == t \in Receivers /\ \E k \in SliceKinds : Reply(t, k)

Resume(t) ==
    SendResume(t) \/ CallSendResume(t) \/ CallResume(t) \/ RecvResume(t)

Next ==
    \E t \in Threads :
        \/ \E e \in Endpoints :
            \/ EndpointCreate(t, e)
            \/ EndpointDestroy(t, e)
            \/ SendStep(t, e)
            \/ RecvStep(t, e)
        \/ ReplyStep(t)
        \/ Resume(t)
        \/ Exit(t)
        \/ \E n \in Threads : Fork(t, n)
        \/ Reap(t)

Spec == Init /\ [][Next]_vars

\* A runnable thread eventually runs: schedule() takes the first thread of the
\* highest priority, puts the one that yields at the tail, and every process
\* runs at DEFAULT_PRIO.  A server is a loop that receives and replies.
Fairness ==
    /\ \A t \in Threads : WF_vars(Resume(t))
    /\ \A t \in Receivers : /\ WF_vars(\E e \in Endpoints : RecvStep(t, e))
                            /\ WF_vars(ReplyStep(t))

FairSpec == Spec /\ Fairness

-----------------------------------------------------------------------------
ThreadTypes ==
    /\ pc \in [Threads -> PCs]
    /\ state \in [Threads -> TaskStates]
    /\ ep \in [Threads -> Endpoints \cup {Null}]
    /\ wait_result \in [Threads -> Results]

LinkTypes ==
    /\ ipc_caller \in [Threads -> Threads \cup {Null}]
    /\ ipc_reply_server \in [Threads -> Threads \cup {Null}]
    /\ ipc_reply_pending \in [Threads -> BOOLEAN]
    /\ ipc_reply_result \in [Threads -> Results]

DataTypes ==
    /\ slice \in [Threads -> Slices]
    /\ from \in [Threads -> Threads \cup {Null}]
    /\ win \in [Threads -> Threads]

EndpointTypes ==
    /\ ep_state \in [Endpoints -> {"free", "live", "dead"}]
    /\ owner \in [Endpoints -> Threads \cup {Null}]
    /\ refcount \in [Endpoints -> Nat]
    /\ send_queue \in [Endpoints -> Seq(Threads)]
    /\ recv_queue \in [Endpoints -> Seq(Threads)]

\* Every variable holds a value of the type its C declaration gives it; in
\* particular no endpoint_put drops a count below zero.
TypeOK == ThreadTypes /\ LinkTypes /\ DataTypes /\ EndpointTypes

Senders == {"send", "callsend"}

\* A thread asleep in ipc_send or ipc_recv can be found: it is on the queue of
\* a live endpoint, so a partner, or the destruction of the endpoint, wakes it
\* (endpoint_destroy and ipc_destroy_owned_by_process leave nobody behind).
NoStrandedWaiter ==
    \A t \in Threads : state[t] = "INTERRUPTIBLE" =>
        /\ pc[t] \in Senders => /\ ep_state[ep[t]] = "live"
                                /\ t \in Members(send_queue[ep[t]])
        /\ pc[t] = "recv"     => /\ ep_state[ep[t]] = "live"
                                /\ t \in Members(recv_queue[ep[t]])

\* Rendezvous: senders and receivers never wait on one endpoint at the same
\* time, so every message that can be handed over has been.
NoMissedRendezvous ==
    \A e \in Endpoints : send_queue[e] = <<>> \/ recv_queue[e] = <<>>

NoRepeats(q) == \A i, j \in 1..Len(q) : q[i] = q[j] => i = j

\* A queue names each of its threads once, and every thread on it is asleep in
\* the system call the queue is for, on that endpoint: the ipc_wait that
\* ipc_send_op frees after it wakes is no longer linked anywhere, and the
\* defensive unlink after thread_sleep never finds anything to do.
QueuedAsleep ==
    \A e \in Endpoints :
        /\ NoRepeats(send_queue[e])
        /\ NoRepeats(recv_queue[e])
        /\ \A t \in Members(send_queue[e]) :
              pc[t] \in Senders /\ ep[t] = e /\ state[t] = "INTERRUPTIBLE"
        /\ \A t \in Members(recv_queue[e]) :
              pc[t] = "recv" /\ ep[t] = e /\ state[t] = "INTERRUPTIBLE"

\* c is a caller whose request has been taken and who waits for the reply.
AwaitsReply(c) ==
    pc[c] = "call" \/ (pc[c] = "callsend" /\ state[c] = "RUNNING"
                                          /\ wait_result[c] = "OK")

\* The two ends of a call name each other (the pointers "mutually maintained
\* under ipc_cc_lock" of process.h): a server owes a reply only to a thread
\* that is in a call to it and waits, never to one that has returned, exited,
\* been freed, or made another call.
ReplyOwedToWaiter ==
    \A s \in Threads : ipc_caller[s] # Null =>
        LET c == ipc_caller[s] IN
        /\ ipc_reply_pending[c]
        /\ ipc_reply_server[c] = s
        /\ AwaitsReply(c)

\* Whoever is owed a reply is in ipc_call, waiting for it ("the caller thread is
\* blocked and will not exit until we wake it", ipc_reply).
OwedCallerBlocked ==
    \A s \in Threads : ipc_caller[s] # Null => AwaitsReply(ipc_caller[s])

\* A caller waiting for its reply is owed it by a server that still exists:
\* someone will wake it, by replying or by exiting (ipc_thread_cleanup).
NoStrandedCaller ==
    \A c \in Threads :
        /\ ipc_reply_pending[c] =>
            LET s == ipc_reply_server[c] IN
            /\ s \in Threads
            /\ ipc_caller[s] = c
            /\ pc[s] \notin {"zombie", "free"}
        /\ pc[c] = "call" /\ state[c] = "INTERRUPTIBLE" => ipc_reply_pending[c]

\* The threads with a system call in progress on e.
Holders(e) == {t \in Threads : ep[t] = e}

\* An endpoint's count is the number of references there are: the registry's
\* until it is destroyed, and one for each system call in progress on it.
\* So it is freed by the last of them and by no other.
RefcountExact ==
    \A e \in Endpoints :
        refcount[e] = (IF ep_state[e] = "live" THEN 1 ELSE 0)
                      + Cardinality(Holders(e))

\* No system call in progress, and no queue, refers to a freed endpoint, and a
\* destroyed endpoint has no waiters left.
NoUseAfterFree ==
    \A e \in Endpoints :
        /\ ep_state[e] = "free" => \A t \in Threads : ep[t] # e
        /\ ep_state[e] # "live" => send_queue[e] = <<>> /\ recv_queue[e] = <<>>

\* A live endpoint belongs to a thread that has not been freed, and to one that
\* has exited only if that was a kernel thread (which skips process_exit).
OwnerAlive ==
    \A e \in Endpoints : ep_state[e] = "live" =>
        /\ owner[e] \in Threads
        /\ pc[owner[e]] # "free"
        /\ pc[owner[e]] = "zombie" => owner[e] \in KThreads

\* t holds a message it has received: its system call has returned with it, or
\* is about to.
HasMessage(t) ==
    /\ from[t] # Null
    /\ \/ pc[t] = "user"
       \/ pc[t] = "recv" /\ state[t] = "RUNNING"
       \/ AwaitsReply(t) /\ ~ipc_reply_pending[t]

\* The receiver "sees both halves atomically" (message.c): when a message with
\* a slice has arrived, the window holds the data of the thread whose registers
\* arrived, for requests and for replies; and while a sender waits, nobody
\* overwrites the slice it has offered.
SliceWithMessage ==
    \A t \in Threads :
        /\ HasMessage(t) /\ slice[t] = "fits" => win[t] = from[t]
        /\ pc[t] \in Senders /\ state[t] = "INTERRUPTIBLE" /\ slice[t] = "fits"
              => win[t] = t

\* A call that ends with OK ends with the reply of the server it was linked to.
ReplyFromServer ==
    \A c \in Threads :
        AwaitsReply(c) /\ ~ipc_reply_pending[c] =>
            \/ ipc_reply_result[c] = "OK" /\ from[c] = ipc_reply_server[c]
                                          /\ from[c] # Null
            \/ ipc_reply_result[c] \in {"ERR_DEAD", "ERR_INVALID", "ERR_OVERFLOW"}
               /\ from[c] = Null

\* No receiver is left.
ReceiversGone == \A s \in Receivers : pc[s] \in {"zombie", "free"}

\* Every blocked system call ends while a server keeps serving: a sender's
\* turn comes (the queues are FIFO: list_add_tail), a call gets its reply or an
\* error, also when the endpoint is destroyed or the server exits meanwhile.
SystemCallsEnd ==
    \A t \in Threads :
        pc[t] \in {"send", "callsend", "call"} ~> pc[t] = "user" \/ ReceiversGone

=============================================================================
