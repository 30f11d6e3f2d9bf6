---------------------------- MODULE IpcStepProofs ---------------------------
(***************************************************************************)
(* Every step of Ipc keeps the inductive invariant: here those that move a *)
(* message to a waiting thread, and endpoints and processes that go.       *)
(***************************************************************************)
EXTENDS IpcInductive

\* ipc_send hands its message to a waiting receiver and wakes it.
LEMMA SendDirectInv ==
    ASSUME IInv, NEW t \in Threads, NEW e \in Endpoints, NEW k \in SliceKinds,
           SendDirect(t, e, k)
    PROVE  IInv'
<1> USE IpcAssumption, InvParts
<1>0. PICK r \in Threads :
        /\ ToReceiver(t, e, k, r)
        /\ state' = WakeAll({r})
        /\ UNCHANGED <<pc, ep, linkVars, refcount, ep_state>>
  BY DEF SendDirect
<1>1. /\ pc[t] = "user" /\ ep_state[e] = "live"
      /\ wait_result' = [wait_result EXCEPT ![r] = "OK"]
      /\ \A x \in Threads : state'[x] = IF x = r THEN "RUNNING" ELSE state[x]
      /\ state' \in [Threads -> TaskStates]
      /\ UNCHANGED <<pc, ep, ipc_caller, ipc_reply_server, ipc_reply_pending,
                     ipc_reply_result, refcount, ep_state, owner, send_queue>>
  BY <1>0 DEF ToReceiver, linkVars, WakeAll, TypeOK, ThreadTypes, TaskStates
<1>2. /\ r \in Members(recv_queue[e])
      /\ \A x \in Endpoints : /\ recv_queue'[x] \in Seq(Threads)
                              /\ NoRepeats(recv_queue'[x])
                              /\ Members(recv_queue'[x]) = Members(recv_queue[x]) \ {r}
                              /\ recv_queue[x] = <<>> => recv_queue'[x] = <<>>
  <2>1. Taken(recv_queue, recv_queue', e, r)
    BY <1>0 DEF Taken, ToReceiver, FromSender, NoWaiter, TypeOK, EndpointTypes,
                QueuedAsleep
  <2>2. QED  BY <2>1, TakeFirst
<1>3. /\ pc[r] = "recv" /\ ep[r] = e /\ state[r] = "INTERRUPTIBLE"
      /\ \A x \in Endpoints : r \notin Members(send_queue[x])
  BY <1>2 DEF QueuedAsleep, Senders
<1>4. TypeOK'
  <2>1. ThreadTypes'
    BY <1>1 DEF TypeOK, ThreadTypes, PCs, TaskStates, Results, Senders
  <2>2. LinkTypes'
    BY <1>1 DEF TypeOK, LinkTypes
  <2>3. DataTypes'
    BY <1>0, DeliverTypes, FillWindowType DEF ToReceiver, TypeOK
  <2>4. EndpointTypes'
    BY <1>0, <1>1, <1>2 DEF ToReceiver, TypeOK, EndpointTypes
  <2>5. QED  BY <2>1, <2>2, <2>3, <2>4 DEF TypeOK
<1> USE DEF TypeOK, ThreadTypes, LinkTypes, EndpointTypes
<1>5. NoStrandedWaiter' /\ QueuedAsleep'
  <2>1. Moves({r})
    BY <1>1, <1>2, <1>3 DEF Moves, QueuedAsleep
  <2>2. QED  BY <2>1, MovesInv
<1>6. ThreadShape'
  BY <1>1, <1>3 DEF ThreadShape, AwaitsReply, Blocked, Senders
<1>7. NoMissedRendezvous'
  BY <1>1, <1>2, <1>3 DEF NoMissedRendezvous
<1>8. ReplyOwedToWaiter'
  BY <1>1, <1>3 DEF ReplyOwedToWaiter, AwaitsReply
<1>9. OwnerAlive'
  BY <1>1 DEF OwnerAlive
<1>10. EndpointShape'
  BY <1>1, <1>2 DEF EndpointShape
<1>11. RefcountExact'
  BY <1>1, HoldersSame
<1>12. QED
  BY InvWhole, <1>4, <1>5, <1>6, <1>7, <1>8, <1>9, <1>10, <1>11

\* ipc_call hands its request to a waiting server and waits for the reply.
LEMMA CallDirectInv ==
    ASSUME Counting, IInv, NEW t \in Threads, NEW e \in Endpoints, NEW k \in SliceKinds,
           CallDirect(t, e, k)
    PROVE  IInv'
<1> USE IpcAssumption, InvParts
<1>0. PICK r \in Threads :
        /\ ToReceiver(t, e, k, r)
        /\ LinkCall(t, r)
        /\ state' = [WakeAll({r}) EXCEPT ![t] = "INTERRUPTIBLE"]
        /\ pc' = [pc EXCEPT ![t] = "call"]
        /\ ep' = [ep EXCEPT ![t] = e]
        /\ Get(e)
  BY DEF CallDirect
<1>1. /\ pc[t] = "user" /\ ep_state[e] = "live"
      /\ wait_result' = [wait_result EXCEPT ![r] = "OK"]
      /\ pc' = [pc EXCEPT ![t] = "call"]
      /\ ep' = [ep EXCEPT ![t] = e]
      /\ Get(e) /\ refcount' = [refcount EXCEPT ![e] = @ + 1]
      /\ ipc_reply_pending' = [ipc_reply_pending EXCEPT ![t] = TRUE]
      /\ ipc_reply_result' = [ipc_reply_result EXCEPT ![t] = "ERR_DEAD"]
      /\ ipc_reply_server' = [ipc_reply_server EXCEPT ![t] = r]
      /\ ipc_caller' = [ipc_caller EXCEPT ![r] = t]
      /\ UNCHANGED <<ep_state, owner, send_queue>>
  BY <1>0 DEF ToReceiver, LinkCall, Get
<1>2. /\ state[t] = "RUNNING" /\ ep[t] = Null /\ ~ipc_reply_pending[t]
      /\ ipc_reply_server[t] = Null /\ \A s \in Threads : ipc_caller[s] # t
      /\ \A x \in Endpoints : /\ t \notin Members(send_queue[x])
                              /\ t \notin Members(recv_queue[x])
  BY <1>1, InUserMode
<1>3. /\ r \in Members(recv_queue[e])
      /\ \A x \in Endpoints : /\ recv_queue'[x] \in Seq(Threads)
                              /\ NoRepeats(recv_queue'[x])
                              /\ Members(recv_queue'[x]) = Members(recv_queue[x]) \ {r}
                              /\ recv_queue[x] = <<>> => recv_queue'[x] = <<>>
  <2>1. Taken(recv_queue, recv_queue', e, r)
    BY <1>0 DEF Taken, ToReceiver, FromSender, NoWaiter, TypeOK, EndpointTypes,
                QueuedAsleep
  <2>2. QED  BY <2>1, TakeFirst
<1>30. /\ pc[r] = "recv" /\ ep[r] = e /\ state[r] = "INTERRUPTIBLE"
       /\ \A x \in Endpoints : r \notin Members(send_queue[x])
  BY <1>3 DEF QueuedAsleep, Senders
<1>31. r # t
  BY <1>1, <1>30
<1>32. /\ state' \in [Threads -> TaskStates]
       /\ \A x \in Threads : state'[x] = IF x = r THEN "RUNNING" ELSE
                                        IF x = t THEN "INTERRUPTIBLE" ELSE state[x]
  BY <1>0, <1>31 DEF WakeAll, TypeOK, ThreadTypes, TaskStates
<1>4. TypeOK'
  <2>1. ThreadTypes'
    BY <1>1, <1>32 DEF TypeOK, ThreadTypes, PCs, Results
  <2>2. LinkTypes'
    BY <1>1 DEF TypeOK, LinkTypes, Results
  <2>3. DataTypes'
    BY <1>0, DeliverTypes, FillWindowType DEF ToReceiver, TypeOK
  <2>4. EndpointTypes'
    BY <1>0, <1>1, <1>3 DEF ToReceiver, TypeOK, EndpointTypes
  <2>5. QED  BY <2>1, <2>2, <2>3, <2>4 DEF TypeOK
<1> USE DEF TypeOK, ThreadTypes, LinkTypes, EndpointTypes
<1>5. NoStrandedWaiter' /\ QueuedAsleep'
  <2>1. Moves({r, t})
    BY <1>1, <1>2, <1>3, <1>30, <1>31, <1>32 DEF Moves, QueuedAsleep, Senders
  <2>2. QED  BY <2>1, MovesInv
<1>6. ThreadShape'
  BY <1>1, <1>2, <1>30, <1>31, <1>32 DEF ThreadShape, AwaitsReply, Blocked, Senders
<1>7. NoMissedRendezvous'
  BY <1>1, <1>3 DEF NoMissedRendezvous
<1>8. ReplyOwedToWaiter'
  BY <1>1, <1>2, <1>30, <1>31, <1>32 DEF ReplyOwedToWaiter, AwaitsReply
<1>9. OwnerAlive'
  BY <1>1 DEF OwnerAlive
<1>10. EndpointShape'
  BY <1>1, <1>3 DEF EndpointShape
<1>11. RefcountExact'
  BY <1>1, <1>2, HoldersGrow
<1>12. QED
  BY InvWhole, <1>4, <1>5, <1>6, <1>7, <1>8, <1>9, <1>10, <1>11

\* ipc_recv takes the message of a waiting sender and wakes it.
LEMMA RecvDirectInv ==
    ASSUME IInv, NEW t \in Threads, NEW e \in Endpoints, RecvDirect(t, e)
    PROVE  IInv'
<1> USE IpcAssumption, InvParts
<1>0. PICK s \in Threads :
        /\ FromSender(t, e, s)
        /\ CopySlice(slice[s], s, t) = "OK"
        /\ IF pc[s] = "callsend" THEN LinkCall(s, t) ELSE UNCHANGED linkVars
        /\ Deliver(t, s, t, slice[s], win)
  BY DEF RecvDirect
<1>1. /\ pc[t] = "user" /\ ep_state[e] = "live"
      /\ wait_result' = [wait_result EXCEPT ![s] = CopySlice(slice[s], s, t)]
      /\ \A x \in Threads : state'[x] = IF x = s THEN "RUNNING" ELSE state[x]
      /\ state' \in [Threads -> TaskStates]
      /\ UNCHANGED <<pc, ep, refcount, ep_state, owner, recv_queue>>
  BY <1>0 DEF FromSender, epVars, WakeAll, TypeOK, ThreadTypes, TaskStates
<1>2. /\ s \in Members(send_queue[e])
      /\ \A x \in Endpoints : /\ send_queue'[x] \in Seq(Threads)
                              /\ NoRepeats(send_queue'[x])
                              /\ Members(send_queue'[x]) = Members(send_queue[x]) \ {s}
                              /\ send_queue[x] = <<>> => send_queue'[x] = <<>>
  <2>1. Taken(send_queue, send_queue', e, s)
    BY <1>0 DEF Taken, ToReceiver, FromSender, NoWaiter, TypeOK, EndpointTypes,
                QueuedAsleep
  <2>2. QED  BY <2>1, TakeFirst
<1>3. /\ pc[s] \in Senders /\ ep[s] = e /\ state[s] = "INTERRUPTIBLE"
      /\ \A x \in Endpoints : s \notin Members(recv_queue[x])
  BY <1>2 DEF QueuedAsleep, Senders
<1>30. ~AwaitsReply(s) /\ s # t
  BY <1>1, <1>3 DEF AwaitsReply, Senders
<1>31. /\ ~ipc_reply_pending[s] /\ ipc_reply_server[s] = Null
       /\ \A x \in Threads : ipc_caller[x] # s
  BY <1>30 DEF ThreadShape, ReplyOwedToWaiter
<1>32. CopySlice(slice[s], s, t) \in Results
  BY DEF CopySlice, Results, Slices, TypeOK, DataTypes
<1>33. wait_result'[s] = "OK" /\ \A x \in Threads \ {s} : wait_result'[x] = wait_result[x]
  BY <1>0, <1>1 DEF TypeOK, ThreadTypes
<1>34. /\ pc[s] = "send" => UNCHANGED linkVars
       /\ pc[s] = "callsend" => LinkCall(s, t)
       /\ pc[s] = "send" \/ pc[s] = "callsend"
  BY <1>0, <1>3 DEF Senders
<1>4. TypeOK'
  <2>1. ThreadTypes'
    BY <1>1, <1>32 DEF TypeOK, ThreadTypes
  <2>2. LinkTypes'
    <3>1. CASE pc[s] = "send"
      BY <3>1, <1>34 DEF TypeOK, LinkTypes, linkVars
    <3>2. CASE pc[s] = "callsend"
      <4>1. LinkCall(s, t)
        BY <3>2, <1>34
      <4>2. QED  BY <4>1 DEF TypeOK, LinkTypes, LinkCall, Results
    <3>3. QED  BY <3>1, <3>2, <1>34
  <2>3. DataTypes'
    BY <1>0, DeliverTypes DEF TypeOK, DataTypes
  <2>4. EndpointTypes'
    BY <1>0, <1>1, <1>2 DEF FromSender, TypeOK, EndpointTypes
  <2>5. QED  BY <2>1, <2>2, <2>3, <2>4 DEF TypeOK
<1> USE DEF TypeOK, ThreadTypes, LinkTypes, EndpointTypes
<1>5. NoStrandedWaiter' /\ QueuedAsleep'
  <2>1. Moves({s})
    BY <1>1, <1>2, <1>3 DEF Moves, QueuedAsleep, Senders
  <2>2. QED  BY <2>1, MovesInv
<1>6. ThreadShape'
  BY <1>1, <1>3, <1>31, <1>33, <1>34 DEF ThreadShape, AwaitsReply, Blocked, Senders,
       LinkCall, linkVars
<1>7. NoMissedRendezvous'
  BY <1>1, <1>2 DEF NoMissedRendezvous
<1>8. ReplyOwedToWaiter'
  BY <1>1, <1>3, <1>31, <1>33, <1>34 DEF ReplyOwedToWaiter, AwaitsReply, LinkCall, linkVars
<1>9. OwnerAlive'
  BY <1>1 DEF OwnerAlive
<1>10. EndpointShape'
  BY <1>1, <1>2 DEF EndpointShape
<1>11. RefcountExact'
  BY <1>1, HoldersSame
<1>12. QED
  BY InvWhole, <1>4, <1>5, <1>6, <1>7, <1>8, <1>9, <1>10, <1>11

\* ipc_recv turns away a sender whose slice cannot be copied.
LEMMA RecvSliceErrorInv ==
    ASSUME IInv, NEW t \in Threads, NEW e \in Endpoints, RecvSliceError(t, e)
    PROVE  IInv'
<1> USE IpcAssumption, InvParts
<1>0. PICK s \in Threads :
        /\ FromSender(t, e, s)
        /\ CopySlice(slice[s], s, t) # "OK"
        /\ from' = [from EXCEPT ![t] = Null]
        /\ UNCHANGED <<linkVars, slice, win>>
  BY DEF RecvSliceError
<1>1. /\ pc[t] = "user" /\ ep_state[e] = "live"
      /\ wait_result' = [wait_result EXCEPT ![s] = CopySlice(slice[s], s, t)]
      /\ \A x \in Threads : state'[x] = IF x = s THEN "RUNNING" ELSE state[x]
      /\ state' \in [Threads -> TaskStates]
      /\ UNCHANGED <<pc, ep, refcount, ep_state, owner, recv_queue>>
  BY <1>0 DEF FromSender, epVars, WakeAll, TypeOK, ThreadTypes, TaskStates
<1>2. /\ s \in Members(send_queue[e])
      /\ \A x \in Endpoints : /\ send_queue'[x] \in Seq(Threads)
                              /\ NoRepeats(send_queue'[x])
                              /\ Members(send_queue'[x]) = Members(send_queue[x]) \ {s}
                              /\ send_queue[x] = <<>> => send_queue'[x] = <<>>
  <2>1. Taken(send_queue, send_queue', e, s)
    <3>1. /\ send_queue[e] # <<>> /\ s = Head(send_queue[e])
          /\ send_queue' = [send_queue EXCEPT ![e] = Dequeue(send_queue[e])]
      BY <1>0 DEF FromSender, NoWaiter
    <3>2. /\ send_queue'[e] = Dequeue(send_queue[e])
          /\ \A x \in Endpoints \ {e} : send_queue'[x] = send_queue[x]
      BY <3>1 DEF TypeOK, EndpointTypes
    <3>3. \A x \in Endpoints : /\ send_queue[x] \in Seq(Threads)
                               /\ NoRepeats(send_queue[x])
                               /\ \A w \in Members(send_queue[x]) : ep[w] = x
      BY DEF TypeOK, EndpointTypes, QueuedAsleep
    <3>4. QED  BY <3>1, <3>2, <3>3 DEF Taken
  <2>2. QED  BY <2>1, TakeFirst
<1>3. /\ pc[s] \in Senders /\ ep[s] = e /\ state[s] = "INTERRUPTIBLE"
      /\ \A x \in Endpoints : s \notin Members(recv_queue[x])
  BY <1>2 DEF QueuedAsleep, Senders
<1>30. ~AwaitsReply(s) /\ s # t
  BY <1>1, <1>3 DEF AwaitsReply, Senders
<1>31. /\ ~ipc_reply_pending[s] /\ ipc_reply_server[s] = Null
       /\ \A x \in Threads : ipc_caller[x] # s
  BY <1>30 DEF ThreadShape, ReplyOwedToWaiter
<1>32. CopySlice(slice[s], s, t) \in Results
  BY DEF CopySlice, Results, Slices, TypeOK, DataTypes
<1>33. /\ wait_result'[s] # "OK" /\ \A x \in Threads \ {s} : wait_result'[x] = wait_result[x]
       /\ UNCHANGED <<ipc_caller, ipc_reply_server, ipc_reply_pending, ipc_reply_result>>
  BY <1>0, <1>1 DEF TypeOK, ThreadTypes, linkVars
<1>4. TypeOK'
  <2>1. ThreadTypes'
    BY <1>1, <1>32 DEF TypeOK, ThreadTypes
  <2>2. LinkTypes'
    BY <1>33 DEF TypeOK, LinkTypes
  <2>3. DataTypes'
    BY <1>0 DEF TypeOK, DataTypes
  <2>4. EndpointTypes'
    BY <1>0, <1>1, <1>2 DEF FromSender, TypeOK, EndpointTypes
  <2>5. QED  BY <2>1, <2>2, <2>3, <2>4 DEF TypeOK
<1> USE DEF TypeOK, ThreadTypes, LinkTypes, EndpointTypes
<1>5. NoStrandedWaiter' /\ QueuedAsleep'
  <2>1. Moves({s})
    BY <1>1, <1>2, <1>3 DEF Moves, QueuedAsleep, Senders
  <2>2. QED  BY <2>1, MovesInv
<1>6. ThreadShape'
  <2> SUFFICES ASSUME NEW x \in Threads  PROVE ThreadShape!(x)'
    BY DEF ThreadShape
  <2>1. CASE x = s
    BY <1>1, <1>3, <1>31, <1>33, <2>1 DEF ThreadShape, AwaitsReply, Blocked, Senders
  <2>2. CASE x # s
    BY <1>1, <1>33, <2>2 DEF ThreadShape, AwaitsReply
  <2>3. QED  BY <2>1, <2>2
<1>7. NoMissedRendezvous'
  BY <1>1, <1>2 DEF NoMissedRendezvous
<1>8. ReplyOwedToWaiter'
  BY <1>1, <1>3, <1>31, <1>33 DEF ReplyOwedToWaiter, AwaitsReply
<1>9. OwnerAlive'
  BY <1>1 DEF OwnerAlive
<1>10. EndpointShape'
  BY <1>1, <1>2 DEF EndpointShape
<1>11. RefcountExact'
  BY <1>1, HoldersSame
<1>12. QED
  BY InvWhole, <1>4, <1>5, <1>6, <1>7, <1>8, <1>9, <1>10, <1>11

\* ipc_reply wakes the caller it owes the reply to.
LEMMA ReplyInv ==
    ASSUME IInv, NEW t \in Threads, NEW k \in SliceKinds, Reply(t, k)
    PROVE  IInv'
<1> USE IpcAssumption, InvParts
<1> DEFINE c == ipc_caller[t]
           r == CopySlice(k, t, c)
<1>0. /\ pc[t] = "user" /\ c \in Threads
      /\ ipc_reply_pending[c] /\ ipc_reply_server[c] = t /\ AwaitsReply(c)
  <2>1. pc[t] = "user" /\ c # Null
    BY DEF Reply
  <2>2. c \in Threads
    BY <2>1 DEF TypeOK, LinkTypes
  <2>3. QED  BY <2>1, <2>2 DEF ReplyOwedToWaiter
<1>1. /\ ipc_caller' = [ipc_caller EXCEPT ![t] = Null]
      /\ ipc_reply_result' = [ipc_reply_result EXCEPT ![c] = r]
      /\ ipc_reply_pending' = [ipc_reply_pending EXCEPT ![c] = FALSE]
      /\ \A x \in Threads : state'[x] = IF x = c THEN "RUNNING" ELSE state[x]
      /\ state' \in [Threads -> TaskStates]
      /\ UNCHANGED <<pc, ep, wait_result, ipc_reply_server, refcount, ep_state, owner,
                     send_queue, recv_queue>>
  BY <1>0 DEF Reply, Detach, epVars, queueVars, WakeAll, TypeOK, ThreadTypes, TaskStates
<1>2. /\ c # t
      /\ \A x \in Endpoints : /\ c \notin Members(send_queue[x])
                              /\ c \notin Members(recv_queue[x])
  BY <1>0 DEF AwaitsReply, QueuedAsleep, Senders
<1>3. r \in Results
  BY DEF CopySlice, Results, Slices
<1>4. TypeOK'
  <2>1. ThreadTypes'
    BY <1>1 DEF TypeOK, ThreadTypes
  <2>2. LinkTypes'
    BY <1>1, <1>3 DEF TypeOK, LinkTypes
  <2>3. DataTypes'
    <3>1. CASE r = "OK"
      <4>1. Deliver(t, t, c, k, FillWindow(t, k)) /\ k \in Slices
        BY <3>1 DEF Reply
      <4>2. QED  BY <4>1, <1>0, DeliverTypes, FillWindowType DEF TypeOK
    <3>2. CASE r # "OK"
      BY <3>2 DEF Reply, TypeOK, DataTypes
    <3>3. QED  BY <3>1, <3>2
  <2>4. EndpointTypes'
    BY <1>1 DEF TypeOK, EndpointTypes
  <2>5. QED  BY <2>1, <2>2, <2>3, <2>4 DEF TypeOK
<1> USE DEF TypeOK, ThreadTypes, LinkTypes, EndpointTypes
<1>5. NoStrandedWaiter' /\ QueuedAsleep'
  <2>1. Moves({c})
    BY <1>0, <1>1, <1>2 DEF Moves, QueuedAsleep
  <2>2. QED  BY <2>1, MovesInv
<1>6. ThreadShape'
  BY <1>0, <1>1, <1>2 DEF ThreadShape, AwaitsReply, Blocked, Senders
<1>7. NoMissedRendezvous'
  BY <1>1 DEF NoMissedRendezvous
<1>8. ReplyOwedToWaiter'
  BY <1>0, <1>1, <1>2 DEF ReplyOwedToWaiter, AwaitsReply
<1>9. OwnerAlive'
  BY <1>1 DEF OwnerAlive
<1>10. EndpointShape'
  BY <1>1 DEF EndpointShape
<1>11. RefcountExact'
  BY <1>1, HoldersSame
<1>12. QED
  BY InvWhole, <1>4, <1>5, <1>6, <1>7, <1>8, <1>9, <1>10, <1>11

\* Destroying the live endpoints of S empties their queues, drops the reference
\* of their creation and leaves the others alone.
LEMMA DestroyFacts ==
    ASSUME Counting, IInv, NEW S, DestroyEndpoints(S), S \subseteq Endpoints,
           \A e \in S : ep_state[e] = "live", UNCHANGED ep
    PROVE  /\ EndpointTypes' /\ EndpointShape' /\ NoMissedRendezvous' /\ RefcountExact'
           /\ wait_result' \in [Threads -> Results]
           /\ Waiters(S) \subseteq Threads
           /\ \A w \in Waiters(S) : /\ pc[w] \in Senders \cup {"recv"}
                                    /\ state[w] = "INTERRUPTIBLE"
                                    /\ wait_result'[w] = "ERR_DEAD"
           /\ \A x \in Threads \ Waiters(S) : wait_result'[x] = wait_result[x]
           /\ \A e \in Endpoints :
                /\ ep_state'[e] = "live" => e \notin S /\ ep_state[e] = "live"
                                            /\ owner'[e] = owner[e]
                /\ e \notin S => ep_state'[e] = ep_state[e]
                /\ NoRepeats(send_queue'[e])
                /\ NoRepeats(recv_queue'[e])
                /\ Members(send_queue'[e]) = Members(send_queue[e]) \ Waiters(S)
                /\ Members(recv_queue'[e]) = Members(recv_queue[e]) \ Waiters(S)
<1> USE IpcAssumption, InvParts
<1>2. /\ Waiters(S) \subseteq Threads
      /\ \A w \in Waiters(S) : /\ ep[w] \in S
                               /\ pc[w] \in Senders \cup {"recv"}
                               /\ state[w] = "INTERRUPTIBLE"
  BY DestroyWaiters
<1>3. \A e \in S : Members(send_queue[e]) \cup Members(recv_queue[e]) \subseteq Waiters(S)
  BY DEF Waiters
<1>4. ASSUME NEW e \in Endpoints
      PROVE  /\ send_queue'[e] = IF e \in S THEN <<>> ELSE send_queue[e]
             /\ recv_queue'[e] = IF e \in S THEN <<>> ELSE recv_queue[e]
             /\ owner'[e] = IF e \in S THEN Null ELSE owner[e]
             /\ refcount'[e] = IF e \in S THEN refcount[e] - 1 ELSE refcount[e]
             /\ e \in S => ep_state'[e] = IF refcount[e] = 1 THEN "free" ELSE "dead"
             /\ e \notin S => ep_state'[e] = ep_state[e]
  BY DEF DestroyEndpoints, AfterPut
<1>5. ASSUME NEW e \in Endpoints
      PROVE  /\ NoRepeats(send_queue'[e]) /\ NoRepeats(recv_queue'[e])
             /\ Members(send_queue'[e]) = Members(send_queue[e]) \ Waiters(S)
             /\ Members(recv_queue'[e]) = Members(recv_queue[e]) \ Waiters(S)
  <2>1. CASE e \in S
    BY <2>1, <1>3, <1>4, EmptyMembers
  <2>2. CASE e \notin S
    <3>1. \A w \in Members(send_queue[e]) \cup Members(recv_queue[e]) : ep[w] = e
      BY DEF QueuedAsleep
    <3>2. \A w \in Members(send_queue[e]) \cup Members(recv_queue[e]) : w \notin Waiters(S)
      BY <2>2, <3>1, <1>2
    <3>3. send_queue'[e] = send_queue[e] /\ recv_queue'[e] = recv_queue[e]
      BY <2>2, <1>4
    <3>4. QED  BY <3>2, <3>3 DEF QueuedAsleep
  <2>3. QED  BY <2>1, <2>2
<1>6. wait_result' \in [Threads -> Results]
  BY DEF DestroyEndpoints, TypeOK, ThreadTypes, Results
<1>7. ASSUME NEW e \in Endpoints
      PROVE  /\ Cardinality(Holders(e)) \in Nat
             /\ Holders(e)' = Holders(e)
             /\ refcount[e] \in Nat
             /\ refcount[e] = (IF ep_state[e] = "live" THEN 1 ELSE 0)
                              + Cardinality(Holders(e))
  <2>1. Cardinality(Holders(e)) \in Nat /\ Holders(e)' = Holders(e)
    BY HolderCount DEF Holders
  <2>2. QED  BY <2>1 DEF RefcountExact, TypeOK, EndpointTypes
<1>8. RefcountExact'
  <2> SUFFICES ASSUME NEW e \in Endpoints
               PROVE  refcount'[e] = (IF ep_state'[e] = "live" THEN 1 ELSE 0)
                                     + Cardinality(Holders(e)')
    BY DEF RefcountExact
  <2>1. /\ Cardinality(Holders(e)) \in Nat /\ Holders(e)' = Holders(e)
        /\ refcount[e] = (IF ep_state[e] = "live" THEN 1 ELSE 0)
                         + Cardinality(Holders(e))
    BY <1>7
  <2>2. CASE e \in S
    <3>1. ep_state[e] = "live" /\ ep_state'[e] # "live" /\ refcount'[e] = refcount[e] - 1
      BY <1>4, <2>2
    <3>2. QED  BY <2>1, <3>1
  <2>3. CASE e \notin S
    <3>1. ep_state'[e] = ep_state[e] /\ refcount'[e] = refcount[e]
      BY <1>4, <2>3
    <3>2. QED  BY <2>1, <3>1
  <2>4. QED  BY <2>2, <2>3
<1>9. EndpointShape'
  BY <1>4, <1>7 DEF EndpointShape
<1>10. NoMissedRendezvous'
  BY <1>4 DEF NoMissedRendezvous
<1>11. EndpointTypes'
  <2>1. \A e \in Endpoints : refcount'[e] \in Nat
    BY <1>4, <1>7
  <2>2. /\ refcount' \in [Endpoints -> Nat]
        /\ ep_state' \in [Endpoints -> {"free", "live", "dead"}]
    BY <2>1 DEF DestroyEndpoints, AfterPut, TypeOK, EndpointTypes
  <2>3. /\ send_queue' \in [Endpoints -> Seq(Threads)]
        /\ recv_queue' \in [Endpoints -> Seq(Threads)]
        /\ owner' \in [Endpoints -> Threads \cup {Null}]
    BY DEF DestroyEndpoints, TypeOK, EndpointTypes
  <2>4. QED  BY <2>2, <2>3 DEF EndpointTypes
<1>12. QED
  BY DestroyWaiters, <1>4, <1>5, <1>6, <1>8, <1>9, <1>10, <1>11

\* endpoint_destroy wakes every waiter of the endpoint.
LEMMA EndpointDestroyInv ==
    ASSUME Counting, IInv, NEW t \in Threads, NEW e \in Endpoints, EndpointDestroy(t, e)
    PROVE  IInv'
<1> USE IpcAssumption, InvParts
<1> DEFINE S == {e}
           W == Waiters(S)
<1>0. /\ EndpointTypes' /\ EndpointShape' /\ NoMissedRendezvous' /\ RefcountExact'
      /\ wait_result' \in [Threads -> Results]
      /\ W \subseteq Threads
      /\ \A w \in W : /\ pc[w] \in Senders \cup {"recv"}
                       /\ state[w] = "INTERRUPTIBLE"
                       /\ wait_result'[w] = "ERR_DEAD"
      /\ \A x \in Threads \ W : wait_result'[x] = wait_result[x]
      /\ \A x \in Endpoints :
            /\ ep_state'[x] = "live" => x \notin S /\ ep_state[x] = "live"
                                        /\ owner'[x] = owner[x]
            /\ x \notin S => ep_state'[x] = ep_state[x]
            /\ NoRepeats(send_queue'[x])
            /\ NoRepeats(recv_queue'[x])
            /\ Members(send_queue'[x]) = Members(send_queue[x]) \ W
            /\ Members(recv_queue'[x]) = Members(recv_queue[x]) \ W
  <2>1. DestroyEndpoints(S) /\ ep_state[e] = "live" /\ UNCHANGED ep
    BY DEF EndpointDestroy
  <2>2. S \subseteq Endpoints /\ \A x \in S : ep_state[x] = "live"
    BY <2>1
  <2> HIDE DEF S
  <2>3. QED  BY <2>1, <2>2, DestroyFacts
<1>1. /\ \A x \in Threads : state'[x] = IF x \in W THEN "RUNNING" ELSE state[x]
      /\ state' \in [Threads -> TaskStates]
      /\ UNCHANGED <<pc, ep, ipc_caller, ipc_reply_server, ipc_reply_pending,
                     ipc_reply_result, slice, from, win>>
  BY DEF EndpointDestroy, WakeAll, linkVars, dataVars, TypeOK, ThreadTypes, TaskStates
<1>2. Members(send_queue[e]) \cup Members(recv_queue[e]) \subseteq W
  BY DEF Waiters
<1> HIDE DEF W
<1>3. \A x \in Threads : AwaitsReply(x)' <=> AwaitsReply(x)
  BY <1>0, <1>1 DEF AwaitsReply, Senders
<1>4. TypeOK'
  <2>1. ThreadTypes'
    BY <1>0, <1>1 DEF TypeOK, ThreadTypes
  <2>2. LinkTypes'
    BY <1>1 DEF TypeOK, LinkTypes
  <2>3. DataTypes'
    BY <1>1 DEF TypeOK, DataTypes
  <2>4. EndpointTypes'
    BY <1>0
  <2>5. QED  BY <2>1, <2>2, <2>3, <2>4 DEF TypeOK
<1> USE DEF TypeOK, ThreadTypes, LinkTypes, EndpointTypes
<1>5. NoStrandedWaiter' /\ QueuedAsleep'
  <2>1. Moves(W)
    BY <1>0, <1>1, <1>2 DEF Moves, QueuedAsleep
  <2>2. QED  BY <2>1, MovesInv
<1>6. ThreadShape'
  BY <1>0, <1>1, <1>3 DEF ThreadShape, Blocked, Senders
<1>7. NoMissedRendezvous'
  BY <1>0
<1>8. ReplyOwedToWaiter'
  BY <1>1, <1>3 DEF ReplyOwedToWaiter
<1>9. OwnerAlive'
  BY <1>0, <1>1 DEF OwnerAlive
<1>10. EndpointShape'
  BY <1>0
<1>11. RefcountExact'
  BY <1>0
<1>12. QED
  BY InvWhole, <1>4, <1>5, <1>6, <1>7, <1>8, <1>9, <1>10, <1>11

\* process_exit wakes the waiters of its endpoints and the caller it owed a reply.
LEMMA ExitInv ==
    ASSUME Counting, IInv, NEW t \in Threads, Exit(t)
    PROVE  IInv'
<1> USE IpcAssumption, InvParts
<1> DEFINE S == Owned(t)
           W == Waiters(S)
           c == ipc_caller[t]
<1>0. pc[t] = "user" /\ S \subseteq Endpoints /\ \A x \in S : ep_state[x] = "live"
  BY DEF Exit, Owned, EndpointShape
<1>1. /\ EndpointTypes' /\ EndpointShape' /\ NoMissedRendezvous' /\ RefcountExact'
      /\ wait_result' \in [Threads -> Results]
      /\ W \subseteq Threads
      /\ \A w \in W : /\ pc[w] \in Senders \cup {"recv"}
                       /\ state[w] = "INTERRUPTIBLE"
                       /\ wait_result'[w] = "ERR_DEAD"
      /\ \A x \in Threads \ W : wait_result'[x] = wait_result[x]
      /\ \A x \in Endpoints :
            /\ ep_state'[x] = "live" => x \notin S /\ ep_state[x] = "live"
                                        /\ owner'[x] = owner[x]
            /\ x \notin S => ep_state'[x] = ep_state[x]
            /\ NoRepeats(send_queue'[x])
            /\ NoRepeats(recv_queue'[x])
            /\ Members(send_queue'[x]) = Members(send_queue[x]) \ W
            /\ Members(recv_queue'[x]) = Members(recv_queue[x]) \ W
  <2>1. DestroyEndpoints(S) /\ UNCHANGED ep
    BY DEF Exit
  <2>2. IInv
    OBVIOUS
  <2> HIDE DEF S
  <2>3. QED  BY <1>0, <2>1, <2>2, DestroyFacts
<1>2. /\ state[t] = "RUNNING" /\ ep[t] = Null /\ ~ipc_reply_pending[t]
      /\ ipc_reply_server[t] = Null /\ \A s \in Threads : ipc_caller[s] # t
      /\ \A x \in Endpoints : /\ t \notin Members(send_queue[x])
                              /\ t \notin Members(recv_queue[x])
  BY <1>0, InUserMode
<1>3. \A x \in S : Members(send_queue[x]) \cup Members(recv_queue[x]) \subseteq W
  BY DEF Waiters
<1>31. \A x \in Endpoints : owner[x] = t => x \in S \/ t \in KThreads
  BY DEF Owned
<1>32. c # Null => /\ c \in Threads /\ AwaitsReply(c) /\ ipc_reply_server[c] = t
                  /\ c # t /\ c \notin W
                  /\ \A x \in Endpoints : /\ c \notin Members(send_queue[x])
                                          /\ c \notin Members(recv_queue[x])
  <2> SUFFICES ASSUME c # Null
               PROVE  /\ c \in Threads /\ AwaitsReply(c) /\ ipc_reply_server[c] = t
                      /\ c # t /\ c \notin W
                      /\ \A x \in Endpoints : /\ c \notin Members(send_queue[x])
                                              /\ c \notin Members(recv_queue[x])
    OBVIOUS
  <2>1. c \in Threads /\ AwaitsReply(c) /\ ipc_reply_server[c] = t
    BY DEF ReplyOwedToWaiter, TypeOK, LinkTypes
  <2>2. c # t
    BY <2>1, <1>2
  <2>3. c \notin W
    BY <2>1, <1>1 DEF AwaitsReply, Senders
  <2>4. \A x \in Endpoints : /\ c \notin Members(send_queue[x])
                             /\ c \notin Members(recv_queue[x])
    BY <2>1 DEF AwaitsReply, QueuedAsleep, Senders
  <2>5. QED  BY <2>1, <2>2, <2>3, <2>4
<1>33. t \notin W
  BY <1>0, <1>1 DEF Senders
<1>34. /\ pc' = [pc EXCEPT ![t] = "zombie"]
       /\ UNCHANGED <<ep, slice, from, win>>
       /\ state' \in [Threads -> TaskStates]
       /\ \A x \in Threads : state'[x] = IF x = t THEN "ZOMBIE" ELSE
                                  IF x \in W \/ x = c THEN "RUNNING" ELSE state[x]
  BY DEF Exit, WakeAll, dataVars, TypeOK, ThreadTypes, TaskStates
<1>35. \A x \in Threads :
        /\ ipc_caller'[x] = IF x = t THEN Null ELSE ipc_caller[x]
        /\ ipc_reply_server'[x] = IF x = t \/ x = c THEN Null ELSE ipc_reply_server[x]
        /\ ipc_reply_pending'[x] = IF x = t \/ x = c THEN FALSE ELSE ipc_reply_pending[x]
  BY <1>2, <1>32 DEF Exit
<1>36. LinkTypes'
  BY DEF Exit, TypeOK, LinkTypes, Results
<1> HIDE DEF W, c, S
<1>37. ASSUME NEW x \in Threads \ {t} PROVE AwaitsReply(x)' <=> AwaitsReply(x)
  <2>1. pc'[x] = pc[x]
    BY <1>34 DEF TypeOK, ThreadTypes
  <2>2. CASE x \in W
    BY <1>1, <1>34, <2>1, <2>2 DEF AwaitsReply, Senders
  <2>3. CASE x = c
    BY <1>1, <1>32, <1>34, <2>1, <2>3 DEF AwaitsReply
  <2>4. CASE x \notin W /\ x # c
    BY <1>1, <1>34, <2>1, <2>4 DEF AwaitsReply
  <2>5. QED  BY <2>2, <2>3, <2>4
<1>38. ~AwaitsReply(t)'
  BY <1>34 DEF AwaitsReply, TypeOK, ThreadTypes
<1>4. TypeOK'
  <2>1. ThreadTypes'
    BY <1>1, <1>34 DEF TypeOK, ThreadTypes, PCs
  <2>2. LinkTypes'
    BY <1>36
  <2>3. DataTypes'
    BY <1>34 DEF TypeOK, DataTypes
  <2>4. EndpointTypes'
    BY <1>1
  <2>5. QED  BY <2>1, <2>2, <2>3, <2>4 DEF TypeOK
<1> USE DEF TypeOK, ThreadTypes, LinkTypes, EndpointTypes
<1>5. NoStrandedWaiter' /\ QueuedAsleep'
  <2> DEFINE V == (W \cup {c, t}) \cap Threads
  <2>1. /\ V \subseteq Threads
        /\ \A x \in Threads \ V : pc'[x] = pc[x] /\ ep'[x] = ep[x] /\ state'[x] = state[x]
    BY <1>34
  <2>2. \A x \in V : state'[x] # "INTERRUPTIBLE"
    BY <1>34
  <2>3. ASSUME NEW x \in Endpoints
        PROVE  /\ NoRepeats(send_queue'[x])
               /\ NoRepeats(recv_queue'[x])
               /\ Members(send_queue'[x]) = Members(send_queue[x]) \ V
               /\ Members(recv_queue'[x]) = Members(recv_queue[x]) \ V
    <3>1. Members(send_queue[x]) \subseteq Threads /\ Members(recv_queue[x]) \subseteq Threads
      BY Located
    <3>2. c \notin Members(send_queue[x]) /\ c \notin Members(recv_queue[x])
      BY <1>32, <3>1
    <3>3. Members(send_queue[x]) \ V = Members(send_queue[x]) \ W
      BY <1>2, <3>1, <3>2
    <3>4. Members(recv_queue[x]) \ V = Members(recv_queue[x]) \ W
      BY <1>2, <3>1, <3>2
    <3>5. QED  BY <1>1, <3>3, <3>4
  <2>4. ASSUME NEW x \in Endpoints, ep_state[x] = "live", ep_state'[x] # "live"
        PROVE  Members(send_queue[x]) \cup Members(recv_queue[x]) \subseteq V
    <3>1. x \in S
      BY <1>1, <2>4
    <3>2. QED  BY <1>1, <1>3, <3>1
  <2> HIDE DEF V
  <2>5. Moves(V)
    BY <2>1, <2>2, <2>3, <2>4 DEF Moves
  <2>6. QED  BY <2>5, MovesInv
<1>6. ThreadShape'
  <2>1. ASSUME NEW x \in Threads, x # t
        PROVE  /\ ep'[x] # Null <=> pc'[x] \in Blocked
               /\ pc'[x] = "user" => state'[x] = "RUNNING"
               /\ pc'[x] \in {"zombie", "free"} =>
                     state'[x] = "ZOMBIE" /\ ipc_caller'[x] = Null
               /\ pc'[x] \in Blocked => state'[x] # "ZOMBIE"
               /\ ~AwaitsReply(x)' => ~ipc_reply_pending'[x] /\ ipc_reply_server'[x] = Null
    <3>1. pc'[x] = pc[x] /\ ep'[x] = ep[x] /\ ipc_caller'[x] = ipc_caller[x]
      BY <2>1, <1>34, <1>35
    <3>2. state'[x] = state[x] \/ (state'[x] = "RUNNING" /\ pc[x] \in Blocked)
      BY <2>1, <1>1, <1>32, <1>34 DEF Blocked, AwaitsReply, Senders
    <3>3. ~AwaitsReply(x)' => ~ipc_reply_pending'[x] /\ ipc_reply_server'[x] = Null
      BY <2>1, <1>35, <1>37 DEF ThreadShape
    <3>4. QED  BY <3>1, <3>2, <3>3 DEF ThreadShape, Blocked, Senders
  <2>2. /\ ep'[t] = Null /\ pc'[t] = "zombie" /\ state'[t] = "ZOMBIE"
        /\ ipc_caller'[t] = Null /\ ~ipc_reply_pending'[t] /\ ipc_reply_server'[t] = Null
    BY <1>2, <1>34, <1>35
  <2>3. QED  BY <2>1, <2>2 DEF ThreadShape, Blocked, Senders
<1>7. NoMissedRendezvous'
  BY <1>1
<1>8. ReplyOwedToWaiter'
  <2>1. ASSUME NEW x \in Threads, ipc_caller'[x] # Null
        PROVE  /\ ipc_reply_pending'[ipc_caller'[x]]
               /\ ipc_reply_server'[ipc_caller'[x]] = x
               /\ AwaitsReply(ipc_caller[x])'
    <3> DEFINE d == ipc_caller[x]
    <3>1. x # t /\ ipc_caller'[x] = d /\ d # Null /\ d \in Threads
      BY <2>1, <1>35
    <3>2. ipc_reply_pending[d] /\ ipc_reply_server[d] = x /\ AwaitsReply(d)
      BY <3>1 DEF ReplyOwedToWaiter
    <3>3. d # t /\ d # c
      BY <3>1, <3>2, <1>2, <1>32
    <3>4. AwaitsReply(d)'
      BY <3>1, <3>2, <3>3, <1>37
    <3>5. ipc_reply_pending'[d] /\ ipc_reply_server'[d] = x
      BY <3>1, <3>2, <3>3, <1>35
    <3>6. QED  BY <3>1, <3>4, <3>5
  <2>2. QED  BY <2>1 DEF ReplyOwedToWaiter
<1>9. OwnerAlive'
  BY <1>1, <1>31, <1>34 DEF OwnerAlive
<1>10. EndpointShape'
  BY <1>1
<1>11. RefcountExact'
  BY <1>1
<1>12. QED
  BY InvWhole, <1>4, <1>5, <1>6, <1>7, <1>8, <1>9, <1>10, <1>11

\* Every step of the kernel preserves the invariant.
LEMMA NextInv ==
    ASSUME Counting, IInv, ~ForkWhileServing, [Next]_vars
    PROVE  IInv'
<1>1. CASE UNCHANGED vars
  <2>1. UNCHANGED <<pc, state, ep, wait_result, ipc_caller, ipc_reply_server,
                    ipc_reply_pending, ipc_reply_result, slice, from, win,
                    ep_state, owner, refcount, send_queue, recv_queue>>
    BY <1>1 DEF vars, waitVars, linkVars, dataVars, epVars, queueVars
  <2>2. TypeOK' /\ EndpointShape' /\ NoMissedRendezvous' /\ OwnerAlive'
    BY <2>1, InvParts DEF TypeOK, ThreadTypes, LinkTypes, DataTypes, EndpointTypes,
                EndpointShape, NoMissedRendezvous, OwnerAlive
  <2>3. ThreadShape' /\ ReplyOwedToWaiter'
    BY <2>1, InvParts DEF ThreadShape, ReplyOwedToWaiter, AwaitsReply
  <2>4. NoStrandedWaiter' /\ QueuedAsleep'
    <3>1. NoStrandedWaiter /\ QueuedAsleep
      BY InvParts
    <3>2. NoStrandedWaiter'
      BY <2>1, <3>1 DEF NoStrandedWaiter
    <3>3. QueuedAsleep'
      BY <2>1, <3>1 DEF QueuedAsleep
    <3>4. QED  BY <3>2, <3>3
  <2>5. RefcountExact'
    BY <2>1, HoldersSame, InvParts
  <2>6. QED  BY InvWhole, <2>2, <2>3, <2>4, <2>5
<1>2. ASSUME NEW t \in Threads, NEW e \in Endpoints,
             EndpointCreate(t, e) \/ EndpointDestroy(t, e)
      PROVE  IInv'
  BY <1>2, EndpointCreateInv, EndpointDestroyInv
<1>3. ASSUME NEW t \in Threads, NEW e \in Endpoints, SendStep(t, e)
      PROVE  IInv'
  <2>1. PICK k \in SliceKinds : \/ SendDirect(t, e, k)
                               \/ CallDirect(t, e, k)
                               \/ SendBlock(t, e, k, "send")
                               \/ SendBlock(t, e, k, "callsend")
    BY <1>3 DEF SendStep
  <2>2. "send" \in Senders /\ "callsend" \in Senders
    BY DEF Senders
  <2>3. CASE SendDirect(t, e, k) \/ CallDirect(t, e, k)
    BY <2>3, SendDirectInv, CallDirectInv
  <2>4. CASE SendBlock(t, e, k, "send")
    BY <2>4, <2>2, SendBlockInv
  <2>5. CASE SendBlock(t, e, k, "callsend")
    BY <2>5, <2>2, SendBlockInv
  <2>6. QED  BY <2>1, <2>3, <2>4, <2>5
<1>4. ASSUME NEW t \in Threads, NEW e \in Endpoints, RecvStep(t, e)
      PROVE  IInv'
  BY <1>4, RecvDirectInv, RecvSliceErrorInv, RecvBlockInv DEF RecvStep
<1>5. ASSUME NEW t \in Threads, ReplyStep(t) \/ Resume(t) \/ Exit(t) \/ Reap(t)
      PROVE  IInv'
  BY <1>5, ReplyInv, SendRecvResumeInv, CallSendResumeInv, CallResumeInv, ExitInv, ReapInv
     DEF ReplyStep, Resume
<1>6. ASSUME NEW t \in Threads, NEW n \in Threads, Fork(t, n)
      PROVE  IInv'
  BY <1>6, ForkInv
<1>7. QED  BY <1>1, <1>2, <1>3, <1>4, <1>5, <1>6 DEF Next
=============================================================================
