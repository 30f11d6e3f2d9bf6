----------------------------- MODULE IpcInductive -----------------------------
(***************************************************************************)
(* Proofs about Ipc, for any finite set of threads and any set of          *)
(* endpoints: the inductive invariant, the facts about queues, references  *)
(* and links it rests on, and the steps that block, resume, create and     *)
(* reap.                                                                   *)
(***************************************************************************)
EXTENDS Ipc, TLAPS

-----------------------------------------------------------------------------
(* The inductive invariant.  The properties of Ipc are not inductive alone:  *)
(* that nobody is woken by mistake (QueuedAsleep) needs the call links to be *)
(* right, and both need to know what a thread at each place looks like.      *)

Blocked == Senders \cup {"recv", "call"}

\* What is known of a thread from where it is.
ThreadShape ==
    \A t \in Threads :
        /\ ep[t] # Null <=> pc[t] \in Blocked
        /\ pc[t] = "user" => state[t] = "RUNNING"
        /\ pc[t] \in {"zombie", "free"} =>
              state[t] = "ZOMBIE" /\ ipc_caller[t] = Null
        /\ pc[t] \in Blocked => state[t] # "ZOMBIE"
        /\ ~AwaitsReply(t) => ~ipc_reply_pending[t] /\ ipc_reply_server[t] = Null

\* What is known of an endpoint from its state.
EndpointShape ==
    \A e \in Endpoints :
        /\ ep_state[e] = "free" => refcount[e] = 0
        /\ ep_state[e] # "free" => refcount[e] # 0
        /\ ep_state[e] # "live" => /\ owner[e] = Null
                                  /\ send_queue[e] = <<>>
                                  /\ recv_queue[e] = <<>>

\* Everything but the reference counts.
CoreInv ==
    /\ TypeOK
    /\ ThreadShape
    /\ NoStrandedWaiter
    /\ NoMissedRendezvous
    /\ QueuedAsleep
    /\ ReplyOwedToWaiter
    /\ OwnerAlive

IInv ==
    /\ CoreInv
    /\ EndpointShape
    /\ RefcountExact

\* The parts of the invariant.  The proofs cite this lemma and the next, so that
\* the invariant stays one word in the statements of the lemmas.
LEMMA InvParts ==
    ASSUME IInv
    PROVE  /\ TypeOK /\ ThreadShape /\ NoStrandedWaiter /\ NoMissedRendezvous
           /\ QueuedAsleep /\ ReplyOwedToWaiter /\ OwnerAlive
           /\ EndpointShape /\ RefcountExact
  BY DEF IInv, CoreInv

\* The invariant from its parts, after a step.
LEMMA InvWhole ==
    ASSUME TypeOK', ThreadShape', NoStrandedWaiter', NoMissedRendezvous',
           QueuedAsleep', ReplyOwedToWaiter', OwnerAlive',
           EndpointShape', RefcountExact'
    PROVE  IInv'
  BY DEF IInv, CoreInv

-----------------------------------------------------------------------------
(* Queues. *)

\* list_add_tail adds one member and repeats nobody who was not there.
LEMMA EnqueueMembers ==
    ASSUME NEW q \in Seq(Threads), NEW t \in Threads
    PROVE  /\ Enqueue(q, t) \in Seq(Threads)
           /\ Enqueue(q, t) # <<>>
           /\ Members(Enqueue(q, t)) = Members(q) \cup {t}
           /\ NoRepeats(q) /\ t \notin Members(q) => NoRepeats(Enqueue(q, t))
  BY DEF Enqueue, Members, NoRepeats

\* list_del_init of the first waiter removes exactly that one.
LEMMA DequeueMembers ==
    ASSUME NEW q \in Seq(Threads), q # <<>>
    PROVE  /\ Dequeue(q) \in Seq(Threads)
           /\ Head(q) \in Threads
           /\ Head(q) \in Members(q)
           /\ Members(q) = Members(Dequeue(q)) \cup {Head(q)}
           /\ NoRepeats(q) => /\ NoRepeats(Dequeue(q))
                              /\ Head(q) \notin Members(Dequeue(q))
<1>1. Dequeue(q) \in Seq(Threads) /\ Len(Dequeue(q)) = Len(q) - 1
      /\ Len(q) \in Nat \ {0}
  BY DEF Dequeue
<1>2. \A i \in 1..Len(Dequeue(q)) : Dequeue(q)[i] = q[i + 1]
  BY <1>1 DEF Dequeue
<1>3. Head(q) = q[1] /\ Head(q) \in Threads
  BY <1>1
<1>4. Members(q) = Members(Dequeue(q)) \cup {Head(q)}
  <2>1. ASSUME NEW x \in Members(q) PROVE x \in Members(Dequeue(q)) \cup {Head(q)}
    <3>1. PICK i \in 1..Len(q) : x = q[i]
      BY DEF Members
    <3>2. CASE i = 1
      BY <3>1, <3>2, <1>3
    <3>3. CASE i # 1
      <4>1. i - 1 \in 1..Len(Dequeue(q)) /\ Dequeue(q)[i - 1] = q[(i - 1) + 1]
        BY <3>1, <3>3, <1>1, <1>2
      <4>2. QED  BY <3>1, <4>1, <1>1 DEF Members
    <3>4. QED  BY <3>2, <3>3
  <2>2. Members(Dequeue(q)) \cup {Head(q)} \subseteq Members(q)
    BY <1>1, <1>2, <1>3 DEF Members
  <2>3. QED  BY <2>1, <2>2
<1>5. ASSUME NoRepeats(q)
      PROVE  NoRepeats(Dequeue(q)) /\ Head(q) \notin Members(Dequeue(q))
  <2>1. ASSUME NEW i \in 1..Len(Dequeue(q)), NEW j \in 1..Len(Dequeue(q)),
               Dequeue(q)[i] = Dequeue(q)[j]
        PROVE  i = j
    <3>1. i + 1 \in 1..Len(q) /\ j + 1 \in 1..Len(q) /\ q[i + 1] = q[j + 1]
      BY <1>1, <1>2, <2>1
    <3>2. i + 1 = j + 1
      BY <3>1, <1>5 DEF NoRepeats
    <3>3. QED  BY <3>2, <1>1
  <2>2. ASSUME NEW i \in 1..Len(Dequeue(q)), Dequeue(q)[i] = Head(q)
        PROVE  FALSE
    <3>1. i + 1 \in 1..Len(q) /\ 1 \in 1..Len(q) /\ q[i + 1] = q[1]
      BY <1>1, <1>2, <1>3, <2>2
    <3>2. i + 1 = 1
      BY <3>1, <1>5 DEF NoRepeats
    <3>3. QED  BY <3>2, <1>1
  <2>3. QED  BY <2>1, <2>2 DEF NoRepeats, Members
<1>6. QED  BY <1>1, <1>3, <1>4, <1>5 DEF Members

\* An initialised list has no member.
LEMMA EmptyMembers == Members(<<>>) = {} /\ NoRepeats(<<>>) /\ <<>> \in Seq(Threads)
  BY DEF Members, NoRepeats

-----------------------------------------------------------------------------
(* References. *)

-----------------------------------------------------------------------------
(* References. *)

\* What the proofs use of counting a finite set of threads.  It holds by
\* IpcAssumption: see ThreadsCounted in IpcProofs.
Counting ==
    \A S \in SUBSET Threads :
        /\ Cardinality(S) \in Nat
        /\ Cardinality(S) = 0 <=> S = {}
        /\ \A t \in Threads \ S : Cardinality(S \cup {t}) = Cardinality(S) + 1
        /\ \A t \in S : Cardinality(S \ {t}) = Cardinality(S) - 1

\* The holders of an endpoint are counted.
LEMMA HolderCount ==
    ASSUME Counting
    PROVE  \A e : /\ Holders(e) \in SUBSET Threads
                  /\ Cardinality(Holders(e)) \in Nat
                  /\ Cardinality(Holders(e)) = 0 <=> Holders(e) = {}
<1>1. \A e : Holders(e) \in SUBSET Threads
  BY DEF Holders
<1>2. QED  BY <1>1 DEF Counting

\* A blocked system call takes a reference and gives its thread a reason for it.
LEMMA HoldersGrow ==
    ASSUME Counting, TypeOK, RefcountExact, NEW t \in Threads, NEW e \in Endpoints,
           ep[t] = Null, ep_state[e] = "live",
           ep' = [ep EXCEPT ![t] = e], Get(e)
    PROVE  RefcountExact'
<1> USE IpcAssumption
<1>1. ASSUME NEW x \in Endpoints
      PROVE  /\ Cardinality(Holders(x)) \in Nat
             /\ Holders(x)' = IF x = e THEN Holders(x) \cup {t} ELSE Holders(x)
             /\ t \notin Holders(x)
  <2>1. /\ Holders(x)' = IF x = e THEN Holders(x) \cup {t} ELSE Holders(x)
        /\ t \notin Holders(x)
    BY DEF Holders, TypeOK, ThreadTypes
  <2>2. QED  BY <2>1, HolderCount
<1>2. ASSUME NEW x \in Endpoints
      PROVE  Cardinality(Holders(x)') =
                IF x = e THEN Cardinality(Holders(x)) + 1 ELSE Cardinality(Holders(x))
  <2>1. t \in Threads \ Holders(x) /\ Holders(x) \in SUBSET Threads
    BY <1>1, HolderCount
  <2>2. Cardinality(Holders(x) \cup {t}) = Cardinality(Holders(x)) + 1
    BY <2>1 DEF Counting
  <2>3. QED  BY <1>1, <2>2
<1>3. QED
  BY <1>1, <1>2 DEF RefcountExact, Get, TypeOK, ThreadTypes, EndpointTypes

\* A returning system call drops its own.
LEMMA HoldersShrink ==
    ASSUME Counting, TypeOK, RefcountExact, NEW t \in Threads, ep[t] # Null,
           ep' = [ep EXCEPT ![t] = Null], Put(ep[t])
    PROVE  /\ RefcountExact'
           /\ refcount[ep[t]] \in Nat \ {0}
           /\ ep_state[ep[t]] = "live" => ep_state' = ep_state
           /\ \A u \in Threads \ {t} : ep[u] = ep[t] => ep_state' = ep_state
<1> DEFINE e == ep[t]
<1> USE IpcAssumption
<1>0. e \in Endpoints
  BY DEF TypeOK, ThreadTypes, EndpointTypes
<1>1. ASSUME NEW x \in Endpoints
      PROVE  /\ Cardinality(Holders(x)) \in Nat
             /\ Holders(x)' = IF x = e THEN Holders(x) \ {t} ELSE Holders(x)
             /\ t \in Holders(x) <=> x = e
  <2>1. /\ Holders(x)' = IF x = e THEN Holders(x) \ {t} ELSE Holders(x)
        /\ t \in Holders(x) <=> x = e
    BY DEF Holders, TypeOK, ThreadTypes
  <2>2. QED  BY <2>1, HolderCount
<1>2. t \in Holders(e) /\ Holders(e) \in SUBSET Threads
      /\ Cardinality(Holders(e) \ {t}) = Cardinality(Holders(e)) - 1
  <2>1. t \in Holders(e) /\ Holders(e) \in SUBSET Threads
    BY <1>0, <1>1, HolderCount
  <2>2. QED  BY <2>1 DEF Counting
<1>3. Cardinality(Holders(e)) # 0
  BY <1>2, HolderCount
<1>4. refcount[e] = (IF ep_state[e] = "live" THEN 1 ELSE 0) + Cardinality(Holders(e))
  BY <1>0 DEF RefcountExact
<1>5. ep_state[e] = "live" => ep_state' = ep_state
  BY <1>0, <1>1, <1>3, <1>4 DEF Put, AfterPut, TypeOK, ThreadTypes, EndpointTypes
<1>6. ASSUME NEW u \in Threads \ {t}, ep[u] = ep[t]
      PROVE  ep_state' = ep_state
  <2>1. u \in Holders(e) \ {t}
    BY <1>6 DEF Holders
  <2>2. Holders(e) \ {t} \in SUBSET Threads
    BY <1>2
  <2>3. Cardinality(Holders(e) \ {t}) # 0
    BY <2>1, <2>2 DEF Counting
  <2>4. refcount[e] # 1
    BY <2>3, <1>0, <1>1, <1>2, <1>3, <1>4
  <2>5. QED  BY <2>4, <1>0 DEF Put, AfterPut, TypeOK, ThreadTypes, EndpointTypes
<1>7. RefcountExact'
  <2>1. ep_state[e] # "live" => ep_state'[e] # "live"
    BY <1>0 DEF Put, AfterPut, TypeOK, ThreadTypes, EndpointTypes
  <2>2. \A x \in Endpoints : x # e => ep_state'[x] = ep_state[x]
    BY <1>0 DEF Put, TypeOK, ThreadTypes, EndpointTypes
  <2>3. \A x \in Endpoints :
           refcount'[x] = IF x = e THEN refcount[x] - 1 ELSE refcount[x]
    BY <1>0 DEF Put, TypeOK, ThreadTypes, EndpointTypes
  <2>4. \A x \in Endpoints : refcount[x] = (IF ep_state[x] = "live" THEN 1 ELSE 0)
                                            + Cardinality(Holders(x))
    BY DEF RefcountExact
  <2>5. \A x \in Endpoints :
           Cardinality(Holders(x)') =
              IF x = e THEN Cardinality(Holders(x)) - 1 ELSE Cardinality(Holders(x))
    BY <1>1, <1>2
  <2>6. QED
    BY <1>0, <1>1, <1>5, <2>1, <2>2, <2>3, <2>4, <2>5 DEF RefcountExact
<1>8. QED  BY <1>0, <1>1, <1>3, <1>4, <1>5, <1>6, <1>7

\* Nobody holds a freed endpoint.
LEMMA HeldNotFree ==
    ASSUME Counting, TypeOK, RefcountExact, EndpointShape, NEW t \in Threads, ep[t] # Null
    PROVE  ep_state[ep[t]] # "free"
<1>1. t \in Holders(ep[t]) /\ ep[t] \in Endpoints
  BY DEF Holders, TypeOK, ThreadTypes, EndpointTypes
<1>2. Cardinality(Holders(ep[t])) \in Nat \ {0}
  BY <1>1, HolderCount
<1>3. refcount[ep[t]] # 0
  BY <1>1, <1>2 DEF RefcountExact
<1>4. QED  BY <1>1, <1>3 DEF EndpointShape

\* Steps that touch no reference keep the counts exact.
LEMMA HoldersSame ==
    ASSUME RefcountExact, UNCHANGED <<ep, refcount, ep_state>>
    PROVE  RefcountExact'
<1>1. \A e \in Endpoints : Holders(e)' = Holders(e)
  BY DEF Holders
<1>2. QED  BY <1>1 DEF RefcountExact

-----------------------------------------------------------------------------
(* What the invariant says of a thread in user mode, and of one just woken. *)

\* A thread that is awake is on no queue: whoever woke it unlinked it.
LEMMA AwakeNotQueued ==
    ASSUME IInv, NEW t \in Threads, state[t] # "INTERRUPTIBLE", NEW e \in Endpoints
    PROVE  t \notin Members(send_queue[e]) /\ t \notin Members(recv_queue[e])
  BY InvParts DEF QueuedAsleep

\* A thread in user mode holds no reference, waits in no queue and is owed nothing.
LEMMA InUserMode ==
    ASSUME IInv, NEW t \in Threads, pc[t] = "user"
    PROVE  /\ state[t] = "RUNNING"
           /\ ep[t] = Null
           /\ ~ipc_reply_pending[t]
           /\ ipc_reply_server[t] = Null
           /\ \A s \in Threads : ipc_caller[s] # t
           /\ \A e \in Endpoints : /\ t \notin Members(send_queue[e])
                                   /\ t \notin Members(recv_queue[e])
<1>1. state[t] = "RUNNING" /\ ep[t] = Null /\ ~AwaitsReply(t)
  BY InvParts DEF ThreadShape, Blocked, Senders, AwaitsReply
<1>2. ~ipc_reply_pending[t] /\ ipc_reply_server[t] = Null
  BY <1>1, InvParts DEF ThreadShape
<1>3. \A s \in Threads : ipc_caller[s] # t
  BY <1>1, IpcAssumption, InvParts DEF ReplyOwedToWaiter
<1>4. QED  BY <1>1, <1>2, <1>3, AwakeNotQueued

-----------------------------------------------------------------------------
(* Every action preserves the invariant. *)

\* A message put in a thread's buffer and window.
LEMMA DeliverTypes ==
    ASSUME DataTypes, NEW t \in Threads, NEW src \in Threads, NEW r \in Threads,
           NEW k \in Slices, NEW w \in [Threads -> Threads], Deliver(t, src, r, k, w)
    PROVE  DataTypes'
  BY DEF DataTypes, Deliver, WindowAfter

\* The window a program fills before it names a slice.
LEMMA FillWindowType ==
    ASSUME DataTypes, NEW t \in Threads, NEW k
    PROVE  FillWindow(t, k) \in [Threads -> Threads]
  BY DEF DataTypes, FillWindow

\* ipc_send joins the queue of senders and sleeps.
LEMMA SendBlockInv ==
    ASSUME Counting, IInv, NEW t \in Threads, NEW e \in Endpoints, NEW k \in SliceKinds,
           NEW to \in Senders, SendBlock(t, e, k, to)
    PROVE  IInv'
<1> DEFINE q == send_queue[e]
<1> USE IpcAssumption, InvParts
<1>1. /\ pc[t] = "user" /\ ep_state[e] = "live" /\ recv_queue[e] = <<>>
      /\ pc' = [pc EXCEPT ![t] = to]
      /\ state' = [state EXCEPT ![t] = "INTERRUPTIBLE"]
      /\ ep' = [ep EXCEPT ![t] = e]
      /\ wait_result' = [wait_result EXCEPT ![t] = "ERR_NOPARTNER"]
      /\ Get(e) /\ refcount' = [refcount EXCEPT ![e] = @ + 1]
      /\ send_queue' = [send_queue EXCEPT ![e] = Enqueue(q, t)]
      /\ UNCHANGED <<ipc_caller, ipc_reply_server, ipc_reply_pending,
                     ipc_reply_result, ep_state, owner, recv_queue>>
  BY DEF SendBlock, Block, NoWaiter, Get, linkVars
<1>2. /\ state[t] = "RUNNING" /\ ep[t] = Null /\ ~ipc_reply_pending[t]
      /\ ipc_reply_server[t] = Null /\ \A s \in Threads : ipc_caller[s] # t
      /\ \A x \in Endpoints : /\ t \notin Members(send_queue[x])
                              /\ t \notin Members(recv_queue[x])
  BY <1>1, InUserMode
<1>3. /\ Enqueue(q, t) \in Seq(Threads) /\ NoRepeats(Enqueue(q, t))
      /\ Members(Enqueue(q, t)) = Members(q) \cup {t}
  BY <1>2, EnqueueMembers DEF TypeOK, EndpointTypes, QueuedAsleep
<1>4. TypeOK'
  <2>1. ThreadTypes'
    BY <1>1 DEF TypeOK, ThreadTypes, PCs, TaskStates, Results, Senders
  <2>2. LinkTypes'
    BY <1>1 DEF TypeOK, LinkTypes
  <2>3. DataTypes'
    BY DEF TypeOK, DataTypes, SendBlock, FillWindow
  <2>4. EndpointTypes'
    BY <1>1, <1>3 DEF TypeOK, EndpointTypes
  <2>5. QED  BY <2>1, <2>2, <2>3, <2>4 DEF TypeOK
<1> USE DEF TypeOK, ThreadTypes, LinkTypes, EndpointTypes
<1>5. ThreadShape'
  BY <1>1, <1>2 DEF ThreadShape, AwaitsReply, Blocked, Senders
<1>6. NoStrandedWaiter'
  BY <1>1, <1>2, <1>3 DEF NoStrandedWaiter, Senders
<1>7. NoMissedRendezvous'
  BY <1>1 DEF NoMissedRendezvous
<1>8. QueuedAsleep'
  BY <1>1, <1>2, <1>3 DEF QueuedAsleep, Senders
<1>9. ReplyOwedToWaiter'
  BY <1>1, <1>2 DEF ReplyOwedToWaiter, AwaitsReply
<1>10. OwnerAlive'
  BY <1>1 DEF OwnerAlive, Senders
<1>11. EndpointShape'
  BY <1>1 DEF EndpointShape
<1>12. RefcountExact'
  BY <1>1, <1>2, HoldersGrow
<1>13. QED
  BY InvWhole, <1>4, <1>5, <1>6, <1>7, <1>8, <1>9, <1>10, <1>11, <1>12

\* ipc_recv joins the queue of receivers and sleeps.
LEMMA RecvBlockInv ==
    ASSUME Counting, IInv, NEW t \in Threads, NEW e \in Endpoints, RecvBlock(t, e)
    PROVE  IInv'
<1> DEFINE q == recv_queue[e]
<1> USE IpcAssumption, InvParts
<1>1. /\ pc[t] = "user" /\ ep_state[e] = "live" /\ send_queue[e] = <<>>
      /\ pc' = [pc EXCEPT ![t] = "recv"]
      /\ state' = [state EXCEPT ![t] = "INTERRUPTIBLE"]
      /\ ep' = [ep EXCEPT ![t] = e]
      /\ wait_result' = [wait_result EXCEPT ![t] = "ERR_NOPARTNER"]
      /\ Get(e) /\ refcount' = [refcount EXCEPT ![e] = @ + 1]
      /\ recv_queue' = [recv_queue EXCEPT ![e] = Enqueue(q, t)]
      /\ UNCHANGED <<ipc_caller, ipc_reply_server, ipc_reply_pending,
                     ipc_reply_result, ep_state, owner, send_queue>>
  BY DEF RecvBlock, Block, NoWaiter, Get, linkVars
<1>2. /\ state[t] = "RUNNING" /\ ep[t] = Null /\ ~ipc_reply_pending[t]
      /\ ipc_reply_server[t] = Null /\ \A s \in Threads : ipc_caller[s] # t
      /\ \A x \in Endpoints : /\ t \notin Members(send_queue[x])
                              /\ t \notin Members(recv_queue[x])
  BY <1>1, InUserMode
<1>3. /\ Enqueue(q, t) \in Seq(Threads) /\ NoRepeats(Enqueue(q, t))
      /\ Members(Enqueue(q, t)) = Members(q) \cup {t}
  BY <1>2, EnqueueMembers DEF TypeOK, EndpointTypes, QueuedAsleep
<1>4. TypeOK'
  <2>1. ThreadTypes'
    BY <1>1 DEF TypeOK, ThreadTypes, PCs, TaskStates, Results, Senders
  <2>2. LinkTypes'
    BY <1>1 DEF TypeOK, LinkTypes
  <2>3. DataTypes'
    BY DEF TypeOK, DataTypes, RecvBlock, Slices
  <2>4. EndpointTypes'
    BY <1>1, <1>3 DEF TypeOK, EndpointTypes
  <2>5. QED  BY <2>1, <2>2, <2>3, <2>4 DEF TypeOK
<1> USE DEF TypeOK, ThreadTypes, LinkTypes, EndpointTypes
<1>5. ThreadShape'
  BY <1>1, <1>2, <1>3 DEF ThreadShape, AwaitsReply, Blocked, Senders
<1>6. NoStrandedWaiter'
  BY <1>1, <1>2, <1>3 DEF NoStrandedWaiter, Senders
<1>7. NoMissedRendezvous'
  BY <1>1, <1>2, <1>3 DEF NoMissedRendezvous
<1>8. QueuedAsleep'
  BY <1>1, <1>2, <1>3 DEF QueuedAsleep, Senders
<1>9. ReplyOwedToWaiter'
  BY <1>1, <1>2, <1>3 DEF ReplyOwedToWaiter, AwaitsReply
<1>10. OwnerAlive'
  BY <1>1, <1>2, <1>3 DEF OwnerAlive
<1>11. EndpointShape'
  BY <1>1, <1>2, <1>3 DEF EndpointShape
<1>12. RefcountExact'
  BY <1>1, <1>2, HoldersGrow
<1>13. QED
  BY InvWhole, <1>4, <1>5, <1>6, <1>7, <1>8, <1>9, <1>10, <1>11, <1>12

\* The end of a blocked system call whose thread is awake and owed nothing.
LEMMA ReturnInv ==
    ASSUME Counting, IInv, NEW t \in Threads, pc[t] \in Blocked, state[t] = "RUNNING",
           ~ipc_reply_pending[t], Return(t),
           UNCHANGED <<ipc_caller, ipc_reply_pending, owner, send_queue, recv_queue>>,
           \A x \in Threads : ipc_reply_server'[x] =
                              IF x = t THEN Null ELSE ipc_reply_server[x],
           LinkTypes', DataTypes'
    PROVE  IInv'
<1> USE IpcAssumption, InvParts
<1>1. /\ ep[t] # Null /\ ep[t] \in Endpoints
      /\ pc' = [pc EXCEPT ![t] = "user"]
      /\ ep' = [ep EXCEPT ![t] = Null]
      /\ wait_result' = [wait_result EXCEPT ![t] = "OK"]
      /\ Put(ep[t]) /\ refcount' = [refcount EXCEPT ![ep[t]] = @ - 1]
      /\ UNCHANGED state
  BY DEF Return, Put, ThreadShape, TypeOK, ThreadTypes
<1>2. /\ refcount[ep[t]] \in Nat \ {0}
      /\ ep_state[ep[t]] = "live" => ep_state' = ep_state
      /\ RefcountExact'
  BY <1>1, HoldersShrink
<1>3. /\ \A s \in Threads : ipc_caller[s] # t
      /\ \A x \in Endpoints : /\ t \notin Members(send_queue[x])
                              /\ t \notin Members(recv_queue[x])
      /\ \A x \in Endpoints : ep_state'[x] =
            IF x = ep[t] /\ refcount[x] = 1 THEN "free" ELSE ep_state[x]
  BY <1>1, AwakeNotQueued DEF ReplyOwedToWaiter, Put, AfterPut, TypeOK, EndpointTypes
<1>4. TypeOK'
  <2>1. ThreadTypes'
    BY <1>1 DEF TypeOK, ThreadTypes, PCs, TaskStates, Results, Senders
  <2>2. LinkTypes'
    BY DEF LinkTypes
  <2>3. DataTypes'
    BY DEF DataTypes
  <2>4. EndpointTypes'
    BY <1>1, <1>2, <1>3 DEF TypeOK, EndpointTypes, Put
  <2>5. QED  BY <2>1, <2>2, <2>3, <2>4 DEF TypeOK
<1> USE DEF TypeOK, ThreadTypes, LinkTypes, EndpointTypes
<1>5. ThreadShape'
  BY <1>1, <1>2, <1>3 DEF ThreadShape, AwaitsReply, Blocked, Senders
<1>6. NoStrandedWaiter'
  <2>1. \A x \in Endpoints : ep_state[x] = "live" => ep_state'[x] = "live"
    BY <1>1, <1>2, <1>3
  <2>2. \A u \in Threads : pc[u] \in Blocked => ep[u] \in Endpoints
    BY DEF ThreadShape
  <2>3. QED
    BY <1>1, <2>1, <2>2 DEF NoStrandedWaiter, Senders, Blocked
<1>7. NoMissedRendezvous'
  BY <1>1, <1>2, <1>3 DEF NoMissedRendezvous
<1>8. QueuedAsleep'
  BY <1>1, <1>2, <1>3 DEF QueuedAsleep, Senders
<1>9. ReplyOwedToWaiter'
  BY <1>1, <1>2, <1>3 DEF ReplyOwedToWaiter, AwaitsReply
<1>10. OwnerAlive'
  BY <1>1, <1>2, <1>3 DEF OwnerAlive
<1>11. EndpointShape'
  BY <1>1, <1>2, <1>3 DEF EndpointShape
<1>12. RefcountExact'
  BY <1>2
<1>13. QED
  BY InvWhole, <1>4, <1>5, <1>6, <1>7, <1>8, <1>9, <1>10, <1>11, <1>12

\* Unlinking a thread that is awake changes no queue.
LEMMA WithoutAwake ==
    ASSUME IInv, NEW t \in Threads, state[t] = "RUNNING", ep[t] \in Endpoints
    PROVE  /\ [send_queue EXCEPT ![ep[t]] = Without(@, t)] = send_queue
           /\ [recv_queue EXCEPT ![ep[t]] = Without(@, t)] = recv_queue
<1>1. /\ Without(send_queue[ep[t]], t) = send_queue[ep[t]]
      /\ Without(recv_queue[ep[t]], t) = recv_queue[ep[t]]
  BY AwakeNotQueued DEF Without
<1>2. QED  BY <1>1, InvParts DEF TypeOK, EndpointTypes

\* A blocked system call holds a reference to its endpoint.
LEMMA BlockedHolds ==
    ASSUME IInv, NEW t \in Threads, pc[t] \in Blocked
    PROVE  ep[t] \in Endpoints
  BY InvParts DEF ThreadShape, TypeOK, ThreadTypes

\* ipc_send and ipc_recv return.
LEMMA SendRecvResumeInv ==
    ASSUME Counting, IInv, NEW t \in Threads, SendResume(t) \/ RecvResume(t)
    PROVE  IInv'
<1> USE IpcAssumption, InvParts
<1>1. /\ pc[t] \in {"send", "recv"} /\ pc[t] \in Blocked /\ state[t] = "RUNNING"
      /\ Return(t)
      /\ UNCHANGED <<linkVars, owner>>
  BY DEF SendResume, RecvResume, Blocked, Senders
<1>2. UNCHANGED <<send_queue, recv_queue>>
  BY <1>1, BlockedHolds, WithoutAwake DEF SendResume, RecvResume
<1>3. ~ipc_reply_pending[t] /\ ipc_reply_server[t] = Null
  BY <1>1 DEF ThreadShape, AwaitsReply
<1>4. DataTypes'
  BY DEF SendResume, RecvResume, dataVars, TypeOK, DataTypes, Slices
<1>5. LinkTypes'
  BY <1>1 DEF linkVars, TypeOK, LinkTypes
<1>6. QED
  BY <1>1, <1>2, <1>3, <1>4, <1>5, ReturnInv DEF linkVars

\* The wait loop of ipc_call, for a caller whose request has been taken.
LEMMA AwaitReplyInv ==
    ASSUME Counting, IInv, NEW t \in Threads, AwaitsReply(t), state[t] = "RUNNING", AwaitReply(t),
           UNCHANGED <<dataVars, owner, send_queue, recv_queue>>
    PROVE  IInv'
<1> USE IpcAssumption, InvParts
<1>1. pc[t] \in {"call", "callsend"} /\ pc[t] \in Blocked
  BY DEF AwaitsReply, Blocked, Senders
<1>2. CASE ~ipc_reply_pending[t]
  <2>1. /\ Return(t)
        /\ ipc_reply_server' = [ipc_reply_server EXCEPT ![t] = Null]
        /\ UNCHANGED <<ipc_caller, ipc_reply_pending, ipc_reply_result>>
    BY <1>2 DEF AwaitReply
  <2>2. DataTypes' /\ LinkTypes'
    BY <2>1 DEF dataVars, TypeOK, DataTypes, LinkTypes
  <2>3. \A x \in Threads : ipc_reply_server'[x] =
                           IF x = t THEN Null ELSE ipc_reply_server[x]
    BY <2>1 DEF TypeOK, LinkTypes
  <2>4. QED  BY <1>1, <1>2, <2>1, <2>2, <2>3, ReturnInv
<1>3. CASE ipc_reply_pending[t]
  <2>1. /\ pc' = [pc EXCEPT ![t] = "call"]
        /\ state' = [state EXCEPT ![t] = "INTERRUPTIBLE"]
        /\ UNCHANGED <<ep, wait_result, refcount, ep_state, ipc_caller,
                       ipc_reply_server, ipc_reply_pending, ipc_reply_result,
                       owner, send_queue, recv_queue, slice, from, win>>
    BY <1>3 DEF AwaitReply, linkVars, dataVars
  <2>2. \A x \in Endpoints : t \notin Members(send_queue[x]) /\ t \notin Members(recv_queue[x])
    BY AwakeNotQueued
  <2>3. TypeOK'
    BY <2>1 DEF TypeOK, ThreadTypes, LinkTypes, DataTypes, EndpointTypes, PCs, TaskStates
  <2> USE DEF TypeOK, ThreadTypes, LinkTypes, EndpointTypes
  <2>4. ThreadShape'
    BY <1>1, <2>1 DEF ThreadShape, AwaitsReply, Blocked, Senders
  <2>5. NoStrandedWaiter'
    BY <2>1 DEF NoStrandedWaiter, Senders
  <2>6. NoMissedRendezvous'
    BY <2>1 DEF NoMissedRendezvous
  <2>7. QueuedAsleep'
    BY <2>1, <2>2 DEF QueuedAsleep, Senders
  <2>8. ReplyOwedToWaiter'
    BY <2>1 DEF ReplyOwedToWaiter, AwaitsReply
  <2>9. OwnerAlive'
    BY <2>1 DEF OwnerAlive
  <2>10. EndpointShape'
    BY <2>1 DEF EndpointShape
  <2>11. RefcountExact'
    BY <2>1, HoldersSame
  <2>12. QED
    BY InvWhole, <2>3, <2>4, <2>5, <2>6, <2>7, <2>8, <2>9, <2>10, <2>11
<1>4. QED  BY <1>2, <1>3

\* The caller wakes up in the wait loop of ipc_call.
LEMMA CallResumeInv ==
    ASSUME Counting, IInv, NEW t \in Threads, CallResume(t)
    PROVE  IInv'
  BY AwaitReplyInv DEF CallResume, AwaitsReply, queueVars

\* The send half of ipc_call wakes up.
LEMMA CallSendResumeInv ==
    ASSUME Counting, IInv, NEW t \in Threads, CallSendResume(t)
    PROVE  IInv'
<1>1. /\ pc[t] = "callsend" /\ pc[t] \in Blocked /\ state[t] = "RUNNING"
      /\ UNCHANGED <<dataVars, owner, recv_queue>>
  BY DEF CallSendResume, Blocked, Senders
<1>2. UNCHANGED send_queue
  BY <1>1, BlockedHolds, WithoutAwake DEF CallSendResume
<1>3. CASE wait_result[t] = "OK"
  <2>1. AwaitReply(t) /\ AwaitsReply(t)
    BY <1>1, <1>3 DEF CallSendResume, AwaitsReply
  <2>2. QED  BY <1>1, <1>2, <2>1, AwaitReplyInv
<1>4. CASE wait_result[t] # "OK"
  <2> USE InvParts
  <2>1. /\ Return(t)
        /\ ipc_reply_pending' = [ipc_reply_pending EXCEPT ![t] = FALSE]
        /\ ipc_reply_server' = [ipc_reply_server EXCEPT ![t] = Null]
        /\ UNCHANGED <<ipc_caller, ipc_reply_result>>
    BY <1>4 DEF CallSendResume
  <2>2. ~ipc_reply_pending[t]
    BY <1>1, <1>4 DEF ThreadShape, AwaitsReply
  <2>3. UNCHANGED ipc_reply_pending
    BY <2>1, <2>2 DEF TypeOK, LinkTypes
  <2>4. DataTypes' /\ LinkTypes'
    BY <1>1, <2>1, <2>3, IpcAssumption DEF dataVars, TypeOK, DataTypes, LinkTypes
  <2>5. \A x \in Threads : ipc_reply_server'[x] =
                           IF x = t THEN Null ELSE ipc_reply_server[x]
    BY <2>1 DEF TypeOK, LinkTypes
  <2>6. QED  BY <1>1, <1>2, <2>1, <2>2, <2>3, <2>4, <2>5, ReturnInv
<1>5. QED  BY <1>3, <1>4

\* Blocked system calls hold endpoints, and queues hold threads.
LEMMA Located ==
    ASSUME IInv
    PROVE  /\ \A x \in Threads : pc[x] \in Blocked => ep[x] \in Endpoints
           /\ \A x \in Endpoints : /\ Members(send_queue[x]) \subseteq Threads
                                   /\ Members(recv_queue[x]) \subseteq Threads
<1>1. \A x \in Threads : pc[x] \in Blocked => ep[x] \in Endpoints
  BY BlockedHolds
<1>2. ASSUME NEW q \in Seq(Threads) PROVE Members(q) \subseteq Threads
  <2>1. \A i \in 1..Len(q) : q[i] \in Threads
    OBVIOUS
  <2>2. QED  BY <2>1 DEF Members
<1>3. QED  BY <1>1, <1>2, InvParts DEF TypeOK, EndpointTypes

\* The first waiter r of endpoint e is taken off the queues Q, which become R.
Taken(Q, R, e, r) ==
    /\ Q[e] # <<>>
    /\ r = Head(Q[e])
    /\ R[e] = Dequeue(Q[e])
    /\ \A x \in Endpoints \ {e} : R[x] = Q[x]
    /\ \A x \in Endpoints : /\ Q[x] \in Seq(Threads)
                            /\ NoRepeats(Q[x])
                            /\ \A t \in Members(Q[x]) : ep[t] = x

\* list_del_init of the first waiter takes it off every queue it was on.
LEMMA TakeFirst ==
    ASSUME NEW Q, NEW R, NEW r, NEW e \in Endpoints, Taken(Q, R, e, r)
    PROVE  /\ r \in Members(Q[e])
           /\ \A x \in Endpoints : /\ R[x] \in Seq(Threads)
                                   /\ NoRepeats(R[x])
                                   /\ Members(R[x]) = Members(Q[x]) \ {r}
                                   /\ Q[x] = <<>> => R[x] = <<>>
<1> USE DEF Taken
<1>1. /\ Dequeue(Q[e]) \in Seq(Threads) /\ NoRepeats(Dequeue(Q[e]))
      /\ r \in Members(Q[e]) /\ r \notin Members(Dequeue(Q[e]))
      /\ Members(Q[e]) = Members(Dequeue(Q[e])) \cup {r}
  BY DequeueMembers
<1>2. ASSUME NEW x \in Endpoints
      PROVE  /\ R[x] \in Seq(Threads)
             /\ NoRepeats(R[x])
             /\ Members(R[x]) = Members(Q[x]) \ {r}
             /\ Q[x] = <<>> => R[x] = <<>>
  <2>1. CASE x = e
    BY <2>1, <1>1
  <2>2. CASE x # e
    <3>1. R[x] = Q[x]
      BY <2>2
    <3>2. r \notin Members(Q[x])
      BY <2>2, <1>1
    <3>3. QED  BY <3>1, <3>2
  <2>3. QED  BY <2>1, <2>2
<1>3. QED  BY <1>1, <1>2

\* A step that takes the threads of W off the queues, leaves none of them asleep
\* in a send or a receive, and does nothing to the others.
Moves(W) ==
    /\ W \subseteq Threads
    /\ \A x \in Threads \ W : pc'[x] = pc[x] /\ ep'[x] = ep[x] /\ state'[x] = state[x]
    /\ \A x \in W : state'[x] # "INTERRUPTIBLE" \/ pc'[x] \notin Senders \cup {"recv"}
    /\ \A e \in Endpoints :
        /\ NoRepeats(send_queue'[e])
        /\ NoRepeats(recv_queue'[e])
        /\ Members(send_queue'[e]) = Members(send_queue[e]) \ W
        /\ Members(recv_queue'[e]) = Members(recv_queue[e]) \ W
        /\ ep_state[e] = "live" /\ ep_state'[e] # "live" =>
              Members(send_queue[e]) \cup Members(recv_queue[e]) \subseteq W

\* Such a step strands nobody and leaves the queues right.
LEMMA MovesInv ==
    ASSUME IInv, NEW W, Moves(W)
    PROVE  NoStrandedWaiter' /\ QueuedAsleep'
<1> USE InvParts
<1>1. /\ \A x \in Threads : pc[x] \in Blocked => ep[x] \in Endpoints
      /\ \A x \in Endpoints : /\ Members(send_queue[x]) \subseteq Threads
                              /\ Members(recv_queue[x]) \subseteq Threads
  BY Located
<1>2. ASSUME NEW x \in Threads, state'[x] = "INTERRUPTIBLE", pc'[x] \in Senders
      PROVE  ep_state'[ep'[x]] = "live" /\ x \in Members(send_queue'[ep'[x]])
  <2>1. x \notin W /\ pc[x] \in Senders /\ state[x] = "INTERRUPTIBLE" /\ ep'[x] = ep[x]
    BY <1>2 DEF Moves
  <2>2. ep[x] \in Endpoints /\ ep_state[ep[x]] = "live" /\ x \in Members(send_queue[ep[x]])
    BY <2>1, <1>1 DEF Blocked, NoStrandedWaiter
  <2>3. QED  BY <2>1, <2>2 DEF Moves
<1>3. ASSUME NEW x \in Threads, state'[x] = "INTERRUPTIBLE", pc'[x] = "recv"
      PROVE  ep_state'[ep'[x]] = "live" /\ x \in Members(recv_queue'[ep'[x]])
  <2>1. x \notin W /\ pc[x] = "recv" /\ state[x] = "INTERRUPTIBLE" /\ ep'[x] = ep[x]
    BY <1>3 DEF Moves
  <2>2. ep[x] \in Endpoints /\ ep_state[ep[x]] = "live" /\ x \in Members(recv_queue[ep[x]])
    BY <2>1, <1>1 DEF Blocked, NoStrandedWaiter
  <2>3. QED  BY <2>1, <2>2 DEF Moves
<1>4. ASSUME NEW e \in Endpoints, NEW x \in Members(send_queue'[e])
      PROVE  pc'[x] \in Senders /\ ep'[x] = e /\ state'[x] = "INTERRUPTIBLE"
  <2>1. x \in Members(send_queue[e]) /\ x \in Threads \ W
    BY <1>1, <1>4 DEF Moves
  <2>2. QED  BY <2>1 DEF Moves, QueuedAsleep
<1>5. ASSUME NEW e \in Endpoints, NEW x \in Members(recv_queue'[e])
      PROVE  pc'[x] = "recv" /\ ep'[x] = e /\ state'[x] = "INTERRUPTIBLE"
  <2>1. x \in Members(recv_queue[e]) /\ x \in Threads \ W
    BY <1>1, <1>5 DEF Moves
  <2>2. QED  BY <2>1 DEF Moves, QueuedAsleep
<1>6. \A e \in Endpoints : NoRepeats(send_queue'[e]) /\ NoRepeats(recv_queue'[e])
  BY DEF Moves
<1>7. NoStrandedWaiter'
  BY <1>2, <1>3 DEF NoStrandedWaiter
<1>8. QED  BY <1>4, <1>5, <1>6, <1>7 DEF QueuedAsleep

\* The waiters of the endpoints of S sleep in ipc_send, ipc_call or ipc_recv; when S
\* is destroyed their system calls end with ERR_DEAD and those of no others do.
LEMMA DestroyWaiters ==
    ASSUME IInv, NEW S, DestroyEndpoints(S), S \subseteq Endpoints
    PROVE  /\ Waiters(S) \subseteq Threads
           /\ \A w \in Waiters(S) : /\ ep[w] \in S
                                    /\ pc[w] \in Senders \cup {"recv"}
                                    /\ state[w] = "INTERRUPTIBLE"
                                    /\ wait_result'[w] = "ERR_DEAD"
           /\ \A x \in Threads \ Waiters(S) : wait_result'[x] = wait_result[x]
<1> USE IpcAssumption, InvParts
<1>1. /\ \A x \in Endpoints : /\ Members(send_queue[x]) \subseteq Threads
                              /\ Members(recv_queue[x]) \subseteq Threads
  BY Located
<1>2. \A w \in Waiters(S) : /\ w \in Threads /\ ep[w] \in S
                            /\ pc[w] \in Senders \cup {"recv"}
                            /\ state[w] = "INTERRUPTIBLE"
  BY <1>1 DEF Waiters, QueuedAsleep
<1>3. \A x \in Threads : wait_result'[x] =
                          IF x \in Waiters(S) THEN "ERR_DEAD" ELSE wait_result[x]
  BY DEF DestroyEndpoints, TypeOK, ThreadTypes
<1>4. QED  BY <1>2, <1>3

\* endpoint_create starts from a freed endpoint: nobody refers to it.
LEMMA EndpointCreateInv ==
    ASSUME Counting, IInv, NEW t \in Threads, NEW e \in Endpoints, EndpointCreate(t, e)
    PROVE  IInv'
<1> USE IpcAssumption, InvParts
<1>1. /\ pc[t] = "user" /\ ep_state[e] = "free"
      /\ ep_state' = [ep_state EXCEPT ![e] = "live"]
      /\ owner' = [owner EXCEPT ![e] = t]
      /\ refcount' = [refcount EXCEPT ![e] = 1]
      /\ send_queue[e] = <<>> /\ recv_queue[e] = <<>>
      /\ UNCHANGED <<pc, state, ep, wait_result, ipc_caller, ipc_reply_server,
                     ipc_reply_pending, ipc_reply_result, slice, from, win>>
  BY DEF EndpointCreate, waitVars, linkVars, dataVars, EndpointShape
<1>2. UNCHANGED <<send_queue, recv_queue>>
  <2>1. /\ send_queue' = [send_queue EXCEPT ![e] = <<>>]
        /\ recv_queue' = [recv_queue EXCEPT ![e] = <<>>]
    BY DEF EndpointCreate
  <2>2. QED  BY <1>1, <2>1 DEF TypeOK, EndpointTypes
<1>4. TypeOK'
  <2>1. ThreadTypes'
    BY <1>1 DEF TypeOK, ThreadTypes, PCs, TaskStates, Results, Senders
  <2>2. LinkTypes'
    BY <1>1 DEF TypeOK, LinkTypes
  <2>3. DataTypes'
    BY <1>1 DEF TypeOK, DataTypes
  <2>4. EndpointTypes'
    BY <1>1, <1>2 DEF TypeOK, EndpointTypes
  <2>5. QED  BY <2>1, <2>2, <2>3, <2>4 DEF TypeOK
<1> USE DEF TypeOK, ThreadTypes, LinkTypes, EndpointTypes
<1>5. NoStrandedWaiter' /\ QueuedAsleep'
  <2>1. Moves({})
    BY <1>1, <1>2 DEF Moves, QueuedAsleep
  <2>2. QED  BY <2>1, MovesInv
<1>6. ThreadShape'
  BY <1>1 DEF ThreadShape, AwaitsReply
<1>7. NoMissedRendezvous'
  BY <1>1, <1>2 DEF NoMissedRendezvous
<1>8. ReplyOwedToWaiter'
  BY <1>1, <1>2 DEF ReplyOwedToWaiter, AwaitsReply
<1>9. OwnerAlive'
  BY <1>1, <1>2 DEF OwnerAlive
<1>10. EndpointShape'
  BY <1>1, <1>2 DEF EndpointShape
<1>11. RefcountExact'
  <2>1. \A x \in Endpoints : Holders(x)' = Holders(x)
    BY <1>1 DEF Holders
  <2>2. Cardinality(Holders(e)) = 0
    <3>1. Cardinality(Holders(e)) \in Nat
      BY HolderCount
    <3>2. refcount[e] = 0
      BY <1>1 DEF EndpointShape
    <3>3. refcount[e] = (IF ep_state[e] = "live" THEN 1 ELSE 0) + Cardinality(Holders(e))
      BY DEF RefcountExact
    <3>4. QED  BY <1>1, <3>1, <3>2, <3>3
  <2>3. ASSUME NEW x \in Endpoints
        PROVE  refcount'[x] = (IF ep_state'[x] = "live" THEN 1 ELSE 0)
                              + Cardinality(Holders(x)')
    <3>1. CASE x = e
      BY <3>1, <1>1, <2>1, <2>2
    <3>2. CASE x # e
      BY <3>2, <1>1, <2>1 DEF RefcountExact
    <3>3. QED  BY <3>1, <3>2
  <2>4. QED  BY <2>3 DEF RefcountExact
<1>12. QED
  BY InvWhole, <1>4, <1>5, <1>6, <1>7, <1>8, <1>9, <1>10, <1>11

\* process_fork: the child of a thread that owes no reply starts with clean links.
LEMMA ForkInv ==
    ASSUME IInv, ~ForkWhileServing, NEW t \in Threads, NEW n \in Threads, Fork(t, n)
    PROVE  IInv'
<1> USE IpcAssumption, InvParts
<1>0. pc[t] = "user" /\ pc[n] = "free" /\ ipc_caller[t] = Null
  BY DEF Fork
<1>1. /\ pc' = [pc EXCEPT ![n] = "user"]
      /\ state' = [state EXCEPT ![n] = "RUNNING"]
      /\ ipc_caller' = [ipc_caller EXCEPT ![n] = Null]
      /\ ipc_reply_server' = [ipc_reply_server EXCEPT ![n] = Null]
      /\ ipc_reply_pending' = [ipc_reply_pending EXCEPT ![n] = FALSE]
      /\ ipc_reply_result' = [ipc_reply_result EXCEPT ![n] = ipc_reply_result[t]]
      /\ UNCHANGED <<ep, wait_result, ep_state, owner, refcount, send_queue, recv_queue>>
  <2>1. ipc_reply_server[t] = Null /\ ipc_reply_pending[t] = FALSE
    BY <1>0, InUserMode DEF TypeOK, LinkTypes
  <2>2. QED  BY <1>0, <2>1 DEF Fork, epVars, queueVars
<1>2. /\ state[n] = "ZOMBIE" /\ ep[n] = Null /\ ~AwaitsReply(n)
      /\ \A s \in Threads : ipc_caller[s] # n
  <2>1. state[n] = "ZOMBIE" /\ ep[n] = Null /\ ~AwaitsReply(n)
    BY <1>0 DEF ThreadShape, Blocked, Senders, AwaitsReply
  <2>2. QED  BY <2>1 DEF ReplyOwedToWaiter
<1>3. \A x \in Endpoints : /\ n \notin Members(send_queue[x])
                           /\ n \notin Members(recv_queue[x])
  BY <1>2, AwakeNotQueued
<1>4. TypeOK'
  <2>1. ThreadTypes'
    BY <1>1 DEF TypeOK, ThreadTypes, PCs, TaskStates
  <2>2. LinkTypes'
    BY <1>1 DEF TypeOK, LinkTypes
  <2>3. DataTypes'
    BY DEF Fork, TypeOK, DataTypes, Slices
  <2>4. EndpointTypes'
    BY <1>1 DEF TypeOK, EndpointTypes
  <2>5. QED  BY <2>1, <2>2, <2>3, <2>4 DEF TypeOK
<1> USE DEF TypeOK, ThreadTypes, LinkTypes, EndpointTypes
<1>5. NoStrandedWaiter' /\ QueuedAsleep'
  <2>1. Moves({n})
    BY <1>1, <1>3 DEF Moves, QueuedAsleep, Senders
  <2>2. QED  BY <2>1, MovesInv
<1>6. ThreadShape'
  BY <1>0, <1>1, <1>2 DEF ThreadShape, AwaitsReply, Blocked, Senders
<1>7. NoMissedRendezvous'
  BY <1>1 DEF NoMissedRendezvous
<1>8. ReplyOwedToWaiter'
  BY <1>0, <1>1, <1>2 DEF ReplyOwedToWaiter, AwaitsReply
<1>9. OwnerAlive'
  BY <1>0, <1>1, <1>2 DEF OwnerAlive
<1>10. EndpointShape'
  BY <1>1 DEF EndpointShape
<1>11. RefcountExact'
  BY <1>1, HoldersSame
<1>12. QED
  BY InvWhole, <1>4, <1>5, <1>6, <1>7, <1>8, <1>9, <1>10, <1>11

\* process_destroy frees a zombie that nothing refers to.
LEMMA ReapInv ==
    ASSUME IInv, NEW t \in Threads, Reap(t)
    PROVE  IInv'
<1> USE IpcAssumption, InvParts
<1>1. /\ pc[t] = "zombie" /\ t \notin KThreads
      /\ pc' = [pc EXCEPT ![t] = "free"]
      /\ UNCHANGED <<state, ep, wait_result, ipc_caller, ipc_reply_server,
                     ipc_reply_pending, ipc_reply_result, slice, from, win,
                     ep_state, owner, refcount, send_queue, recv_queue>>
  BY DEF Reap, linkVars, dataVars, epVars, queueVars
<1>2. state[t] = "ZOMBIE"
  BY <1>1 DEF ThreadShape
<1>3. \A x \in Endpoints : /\ t \notin Members(send_queue[x])
                           /\ t \notin Members(recv_queue[x])
  BY <1>2, AwakeNotQueued
<1>4. TypeOK'
  <2>1. ThreadTypes'
    BY <1>1 DEF TypeOK, ThreadTypes, PCs
  <2>2. LinkTypes'
    BY <1>1 DEF TypeOK, LinkTypes
  <2>3. DataTypes'
    BY <1>1 DEF TypeOK, DataTypes
  <2>4. EndpointTypes'
    BY <1>1 DEF TypeOK, EndpointTypes
  <2>5. QED  BY <2>1, <2>2, <2>3, <2>4 DEF TypeOK
<1> USE DEF TypeOK, ThreadTypes, LinkTypes, EndpointTypes
<1>5. NoStrandedWaiter' /\ QueuedAsleep'
  <2>1. Moves({t})
    BY <1>1, <1>3 DEF Moves, QueuedAsleep, Senders
  <2>2. QED  BY <2>1, MovesInv
<1>6. ThreadShape'
  BY <1>1 DEF ThreadShape, AwaitsReply, Blocked, Senders
<1>7. NoMissedRendezvous'
  BY <1>1 DEF NoMissedRendezvous
<1>8. ReplyOwedToWaiter'
  BY <1>1 DEF ReplyOwedToWaiter, AwaitsReply
<1>9. OwnerAlive'
  BY <1>1 DEF OwnerAlive
<1>10. EndpointShape'
  BY <1>1 DEF EndpointShape
<1>11. RefcountExact'
  BY <1>1, HoldersSame
<1>12. QED
  BY InvWhole, <1>4, <1>5, <1>6, <1>7, <1>8, <1>9, <1>10, <1>11

\* The kernel starts with no endpoint and nobody blocked.
LEMMA InitInv ==
    ASSUME Counting, Init
    PROVE  IInv
<1> USE IpcAssumption DEF Init
<1>1. TypeOK
  BY EmptyMembers DEF TypeOK, ThreadTypes, LinkTypes, DataTypes, EndpointTypes, PCs,
                      TaskStates, Results, Slices
<1>2. ThreadShape
  BY DEF ThreadShape, Blocked, Senders, AwaitsReply
<1>3. NoStrandedWaiter /\ NoMissedRendezvous /\ ReplyOwedToWaiter /\ OwnerAlive
  BY DEF NoStrandedWaiter, NoMissedRendezvous, ReplyOwedToWaiter, OwnerAlive
<1>4. QueuedAsleep
  BY EmptyMembers DEF QueuedAsleep
<1>5. EndpointShape
  BY DEF EndpointShape
<1>6. RefcountExact
  <2>1. \A e \in Endpoints : Holders(e) = {}
    BY DEF Holders
  <2>2. \A e \in Endpoints : Cardinality(Holders(e)) = 0
    BY <2>1, HolderCount
  <2>3. refcount = [e \in Endpoints |-> 0] /\ ep_state = [e \in Endpoints |-> "free"]
    OBVIOUS
  <2>4. QED  BY <2>2, <2>3 DEF RefcountExact
<1>7. QED
  BY <1>1, <1>2, <1>3, <1>4, <1>5, <1>6 DEF IInv, CoreInv
=============================================================================
