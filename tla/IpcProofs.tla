------------------------------ MODULE IpcProofs -----------------------------
(***************************************************************************)
(* The theorems about every behaviour of Ipc.  The first ones hold whether *)
(* or not servers reply before they receive again; with servers that do,   *)
(* no caller is stranded, and the kernel's call and reply implement Rpc.   *)
(***************************************************************************)
EXTENDS IpcStepProofs, IpcMessageProofs, IpcRpc

\* The other direction of ReplyOwedToWaiter, and what keeps it: a thread asleep
\* in ipc_recv owes nobody, so link_call never overwrites an ipc_caller.
CallInv ==
    \A c \in Threads :
        /\ ipc_reply_pending[c] =>
              ipc_reply_server[c] \in Threads /\ ipc_caller[ipc_reply_server[c]] = c
        /\ pc[c] = "call" /\ state[c] = "INTERRUPTIBLE" => ipc_reply_pending[c]
        /\ pc[c] = "recv" /\ state[c] = "INTERRUPTIBLE" => ipc_caller[c] = Null

\* A step that leaves the links alone, puts nobody to sleep in the wait loop of
\* ipc_call and puts to sleep in ipc_recv only threads that owe nothing.
LinksKept ==
    /\ UNCHANGED linkVars
    /\ \A x \in Threads : state'[x] = "INTERRUPTIBLE" =>
        /\ pc'[x] = "call" => pc[x] = "call" /\ state[x] = "INTERRUPTIBLE"
        /\ pc'[x] = "recv" => \/ pc[x] = "recv" /\ state[x] = "INTERRUPTIBLE"
                              \/ ipc_caller[x] = Null

\* Such a step preserves the invariant.
LEMMA LinksKeptInv ==
    ASSUME CallInv, LinksKept
    PROVE  CallInv'
  BY DEF CallInv, LinksKept, linkVars

\* The steps of endpoints, plain messages and zombies keep the links.
LEMMA KeepLinks ==
    ASSUME IInv, ~NestedServe, NEW t \in Threads,
           \/ \E e \in Endpoints :
                \/ EndpointCreate(t, e)
                \/ EndpointDestroy(t, e)
                \/ \E k \in SliceKinds : \/ SendDirect(t, e, k)
                                         \/ SendBlock(t, e, k, "send")
                                         \/ SendBlock(t, e, k, "callsend")
                \/ RecvSliceError(t, e)
                \/ RecvBlock(t, e)
           \/ SendResume(t)
           \/ RecvResume(t)
           \/ Reap(t)
    PROVE  LinksKept
<1> USE IpcAssumption, InvParts DEF TypeOK, ThreadTypes
<1>1. ASSUME NEW e \in Endpoints, EndpointCreate(t, e) PROVE LinksKept
  BY <1>1 DEF EndpointCreate, LinksKept, waitVars
<1>2. ASSUME NEW e \in Endpoints, EndpointDestroy(t, e) PROVE LinksKept
  BY <1>2 DEF EndpointDestroy, WakeAll, LinksKept
<1>3. ASSUME NEW e \in Endpoints, NEW k \in SliceKinds, SendDirect(t, e, k)
      PROVE  LinksKept
  BY <1>3 DEF SendDirect, WakeAll, LinksKept
<1>4. ASSUME NEW e \in Endpoints, NEW k \in SliceKinds, NEW to \in Senders,
             SendBlock(t, e, k, to)
      PROVE  LinksKept
  BY <1>4 DEF SendBlock, Block, LinksKept, Senders
<1>5. ASSUME NEW e \in Endpoints, RecvSliceError(t, e) PROVE LinksKept
  BY <1>5 DEF RecvSliceError, FromSender, WakeAll, LinksKept
<1>6. ASSUME NEW e \in Endpoints, RecvBlock(t, e) PROVE LinksKept
  BY <1>6 DEF RecvBlock, Block, MayReceive, LinksKept
<1>7. ASSUME SendResume(t) \/ RecvResume(t) PROVE LinksKept
  BY <1>7 DEF SendResume, RecvResume, Return, LinksKept
<1>8. ASSUME Reap(t) PROVE LinksKept
  BY <1>8 DEF Reap, LinksKept
<1>9. "send" \in Senders /\ "callsend" \in Senders
  BY DEF Senders
<1>10. QED  BY <1>1, <1>2, <1>3, <1>4, <1>5, <1>6, <1>7, <1>8, <1>9

\* A call handed to a waiting server: the server owed nobody.
LEMMA CallDirectCall ==
    ASSUME IInv, CallInv, NEW t \in Threads, NEW e \in Endpoints, NEW k \in SliceKinds,
           CallDirect(t, e, k)
    PROVE  CallInv'
<1> USE IpcAssumption, InvParts
<1>1. PICK r \in Threads :
        /\ ToReceiver(t, e, k, r)
        /\ LinkCall(t, r)
        /\ state' = [WakeAll({r}) EXCEPT ![t] = "INTERRUPTIBLE"]
        /\ pc' = [pc EXCEPT ![t] = "call"]
  BY DEF CallDirect
<1>2. r \in Members(recv_queue[e]) /\ pc[t] = "user"
  BY <1>1, DequeueMembers DEF ToReceiver, NoWaiter, TypeOK, EndpointTypes
<1>3. pc[r] = "recv" /\ state[r] = "INTERRUPTIBLE" /\ r # t
  BY <1>2 DEF QueuedAsleep
<1>4. ipc_caller[r] = Null
  BY <1>3 DEF CallInv
<1>5. \A x \in Threads : /\ state'[x] = IF x = t THEN "INTERRUPTIBLE" ELSE
                                       IF x = r THEN "RUNNING" ELSE state[x]
                         /\ pc'[x] = IF x = t THEN "call" ELSE pc[x]
                         /\ ipc_reply_pending'[x] = IF x = t THEN TRUE
                                                    ELSE ipc_reply_pending[x]
                         /\ ipc_reply_server'[x] = IF x = t THEN r ELSE ipc_reply_server[x]
                         /\ ipc_caller'[x] = IF x = r THEN t ELSE ipc_caller[x]
  BY <1>1 DEF WakeAll, LinkCall, TypeOK, ThreadTypes, LinkTypes
<1>6. ASSUME NEW x \in Threads, x # t, ipc_reply_pending'[x]
      PROVE  ipc_reply_server'[x] \in Threads /\ ipc_caller'[ipc_reply_server'[x]] = x
  <2>1. ipc_reply_server[x] \in Threads /\ ipc_caller[ipc_reply_server[x]] = x
    BY <1>5, <1>6 DEF CallInv
  <2>2. ipc_reply_server[x] # r
    BY <2>1, <1>4
  <2>3. ipc_reply_server'[x] = ipc_reply_server[x]
    BY <1>5, <1>6
  <2>4. QED  BY <2>1, <2>2, <2>3, <1>5
<1>7. \A x \in Threads :
        /\ pc'[x] = "call" /\ state'[x] = "INTERRUPTIBLE" => ipc_reply_pending'[x]
        /\ pc'[x] = "recv" /\ state'[x] = "INTERRUPTIBLE" => ipc_caller'[x] = Null
  <2> SUFFICES ASSUME NEW x \in Threads, state'[x] = "INTERRUPTIBLE"
               PROVE  /\ pc'[x] = "call" => ipc_reply_pending'[x]
                      /\ pc'[x] = "recv" => ipc_caller'[x] = Null
    OBVIOUS
  <2>1. CASE x = t
    BY <1>5, <2>1
  <2>2. CASE x # t
    <3>1. x # r /\ state[x] = "INTERRUPTIBLE" /\ pc'[x] = pc[x]
      BY <1>5, <2>2
    <3>2. /\ pc[x] = "call" => ipc_reply_pending[x]
          /\ pc[x] = "recv" => ipc_caller[x] = Null
      BY <3>1 DEF CallInv
    <3>3. QED  BY <1>5, <2>2, <3>1, <3>2
  <2>3. QED  BY <2>1, <2>2
<1>8. ASSUME NEW x \in Threads, ipc_reply_pending'[x]
      PROVE  ipc_reply_server'[x] \in Threads /\ ipc_caller'[ipc_reply_server'[x]] = x
  <2>1. CASE x = t
    <3>1. ipc_reply_server'[t] = r /\ ipc_caller'[r] = t
      BY <1>5
    <3>2. QED  BY <2>1, <3>1
  <2>2. CASE x # t
    BY <1>6, <1>8, <2>2
  <2>3. QED  BY <2>1, <2>2
<1>9. QED  BY <1>7, <1>8 DEF CallInv

\* A call taken by a receiver: the receiver owed nobody (MayReceive).
LEMMA RecvDirectCall ==
    ASSUME IInv, CallInv, ~NestedServe, NEW t \in Threads, NEW e \in Endpoints,
           RecvDirect(t, e)
    PROVE  CallInv'
<1> USE IpcAssumption, InvParts
<1>1. PICK s \in Threads :
        /\ FromSender(t, e, s)
        /\ IF pc[s] = "callsend" THEN LinkCall(s, t) ELSE UNCHANGED linkVars
  BY DEF RecvDirect
<1>2. ipc_caller[t] = Null /\ pc[t] = "user"
  BY <1>1 DEF FromSender, MayReceive
<1>3. \A x \in Threads : /\ state'[x] = IF x = s THEN "RUNNING" ELSE state[x]
                         /\ pc'[x] = pc[x]
  BY <1>1 DEF FromSender, WakeAll, TypeOK, ThreadTypes
<1>4. CASE pc[s] = "callsend"
  <2>1. \A x \in Threads :
           /\ ipc_reply_pending'[x] = IF x = s THEN TRUE ELSE ipc_reply_pending[x]
           /\ ipc_reply_server'[x] = IF x = s THEN t ELSE ipc_reply_server[x]
           /\ ipc_caller'[x] = IF x = t THEN s ELSE ipc_caller[x]
    BY <1>1, <1>4 DEF LinkCall, TypeOK, LinkTypes
  <2>2. ASSUME NEW x \in Threads, x # s, ipc_reply_pending'[x]
        PROVE  ipc_reply_server'[x] \in Threads /\ ipc_caller'[ipc_reply_server'[x]] = x
    <3>1. ipc_reply_server[x] \in Threads /\ ipc_caller[ipc_reply_server[x]] = x
      BY <2>1, <2>2 DEF CallInv
    <3>2. ipc_reply_server'[x] = ipc_reply_server[x]
      <4>1. ipc_reply_server' = [ipc_reply_server EXCEPT ![s] = t]
        BY <1>1, <1>4 DEF LinkCall
      <4>2. QED  BY <2>2, <4>1 DEF TypeOK, LinkTypes
    <3>3. ipc_reply_server[x] # t
      BY <3>1, <1>2
    <3>4. ipc_caller'[ipc_reply_server[x]] = ipc_caller[ipc_reply_server[x]]
      BY <2>1, <3>1, <3>3
    <3>5. QED  BY <3>1, <3>2, <3>4
  <2>3. \A x \in Threads :
          pc'[x] = "call" /\ state'[x] = "INTERRUPTIBLE" => ipc_reply_pending'[x]
    BY <1>3, <2>1 DEF CallInv
  <2>4. ASSUME NEW x \in Threads, pc'[x] = "recv", state'[x] = "INTERRUPTIBLE"
        PROVE  ipc_caller'[x] = Null
    <3>1. pc[x] = "recv" /\ state[x] = "INTERRUPTIBLE" /\ x # t
      BY <2>4, <1>2, <1>3
    <3>2. ipc_caller[x] = Null
      BY <3>1 DEF CallInv
    <3>3. QED  BY <2>1, <3>1, <3>2
  <2>5. /\ ipc_reply_server'[s] \in Threads
        /\ ipc_caller'[ipc_reply_server'[s]] = s
    BY <2>1
  <2>6. QED  BY <2>2, <2>3, <2>4, <2>5 DEF CallInv
<1>5. CASE pc[s] # "callsend"
  <2>1. LinksKept
    BY <1>1, <1>3, <1>5 DEF LinksKept
  <2>2. QED  BY <2>1, LinksKeptInv
<1>6. QED  BY <1>4, <1>5

\* ipc_reply: the caller no longer waits, the others still have their servers.
LEMMA ReplyCall ==
    ASSUME IInv, CallInv, NEW t \in Threads, NEW k \in SliceKinds, Reply(t, k)
    PROVE  CallInv'
<1> USE IpcAssumption, InvParts
<1> DEFINE c == ipc_caller[t]
<1>1. c \in Threads
  BY DEF Reply, TypeOK, LinkTypes
<1>2. \A x \in Threads : /\ state'[x] = IF x = c THEN "RUNNING" ELSE state[x]
                         /\ pc'[x] = pc[x]
                         /\ ipc_reply_pending'[x] = IF x = c THEN FALSE
                                                    ELSE ipc_reply_pending[x]
                         /\ ipc_reply_server'[x] = ipc_reply_server[x]
                         /\ ipc_caller'[x] = IF x = t THEN Null ELSE ipc_caller[x]
  BY <1>1 DEF Reply, Detach, WakeAll, TypeOK, ThreadTypes, LinkTypes
<1>3. ASSUME NEW x \in Threads, ipc_reply_pending'[x]
      PROVE  ipc_reply_server'[x] \in Threads /\ ipc_caller'[ipc_reply_server'[x]] = x
  <2>1. /\ x # c
        /\ ipc_reply_server[x] \in Threads /\ ipc_caller[ipc_reply_server[x]] = x
    BY <1>2, <1>3 DEF CallInv
  <2>2. QED  BY <2>1, <1>2
<1>4. \A x \in Threads :
        /\ pc'[x] = "call" /\ state'[x] = "INTERRUPTIBLE" => ipc_reply_pending'[x]
        /\ pc'[x] = "recv" /\ state'[x] = "INTERRUPTIBLE" => ipc_caller'[x] = Null
  <2> SUFFICES ASSUME NEW x \in Threads, state'[x] = "INTERRUPTIBLE"
               PROVE  /\ pc'[x] = "call" => ipc_reply_pending'[x]
                      /\ pc'[x] = "recv" => ipc_caller'[x] = Null
    OBVIOUS
  <2>1. x # c /\ state[x] = "INTERRUPTIBLE" /\ pc'[x] = pc[x]
    BY <1>2
  <2>2. /\ pc[x] = "call" => ipc_reply_pending[x]
        /\ pc[x] = "recv" => ipc_caller[x] = Null
    BY <2>1 DEF CallInv
  <2>3. QED  BY <1>2, <2>1, <2>2
<1>5. QED  BY <1>3, <1>4 DEF CallInv

\* The wait loop of ipc_call sleeps only while its reply is pending.
LEMMA AwaitReplyCall ==
    ASSUME IInv, CallInv, NEW t \in Threads,
           CallResume(t) \/ CallSendResume(t)
    PROVE  CallInv'
<1> USE IpcAssumption, InvParts DEF TypeOK, ThreadTypes, LinkTypes
<1>1. CASE AwaitReply(t) /\ ipc_reply_pending[t]
  <2>1. /\ UNCHANGED <<ipc_caller, ipc_reply_server, ipc_reply_pending>>
        /\ \A x \in Threads : /\ pc'[x] = IF x = t THEN "call" ELSE pc[x]
                              /\ x # t => state'[x] = state[x]
    BY <1>1 DEF AwaitReply, linkVars
  <2>2. QED  BY <1>1, <2>1 DEF CallInv
<1>2. CASE /\ Return(t) /\ ~ipc_reply_pending'[t] /\ UNCHANGED ipc_caller
           /\ \A x \in Threads \ {t} :
                /\ ipc_reply_server'[x] = ipc_reply_server[x]
                /\ ipc_reply_pending'[x] = ipc_reply_pending[x]
  <2>1. \A x \in Threads : /\ pc'[x] = IF x = t THEN "user" ELSE pc[x]
                           /\ state'[x] = state[x]
    BY <1>2 DEF Return
  <2>2. QED  BY <1>2, <2>1 DEF CallInv
<1>3. \/ AwaitReply(t) /\ ipc_reply_pending[t]
      \/ /\ Return(t) /\ ~ipc_reply_pending'[t] /\ UNCHANGED ipc_caller
         /\ \A x \in Threads \ {t} :
              /\ ipc_reply_server'[x] = ipc_reply_server[x]
              /\ ipc_reply_pending'[x] = ipc_reply_pending[x]
  BY DEF CallResume, CallSendResume, AwaitReply
<1>4. QED  BY <1>1, <1>2, <1>3

\* process_exit releases the caller of the thread that exits, and no other.
LEMMA ExitCall ==
    ASSUME IInv, CallInv, NEW t \in Threads, Exit(t)
    PROVE  CallInv'
<1> USE IpcAssumption, InvParts
<1> DEFINE c == ipc_caller[t]
<1>1. pc[t] = "user" /\ ipc_reply_server[t] = Null
  BY InUserMode DEF Exit
<1>2. \A x \in Threads :
        /\ ipc_caller'[x] = IF x = t THEN Null ELSE ipc_caller[x]
        /\ ipc_reply_pending'[x] = IF x = t \/ x = c THEN FALSE ELSE ipc_reply_pending[x]
        /\ x # c => ipc_reply_server'[x] = IF x = t THEN Null ELSE ipc_reply_server[x]
  BY <1>1 DEF Exit
<1>3. \A x \in Threads :
        /\ pc'[x] = IF x = t THEN "zombie" ELSE pc[x]
        /\ state'[x] = "INTERRUPTIBLE" => state[x] = "INTERRUPTIBLE" /\ x # t /\ x # c
  BY DEF Exit, WakeAll, TypeOK, ThreadTypes
<1>4. ASSUME NEW x \in Threads, ipc_reply_pending'[x]
      PROVE  ipc_reply_server'[x] \in Threads /\ ipc_caller'[ipc_reply_server'[x]] = x
  <2>1. /\ x # c /\ x # t
        /\ ipc_reply_server[x] \in Threads /\ ipc_caller[ipc_reply_server[x]] = x
    BY <1>2, <1>4 DEF CallInv
  <2>2. QED  BY <2>1, <1>2
<1>5. \A x \in Threads :
        /\ pc'[x] = "call" /\ state'[x] = "INTERRUPTIBLE" => ipc_reply_pending'[x]
        /\ pc'[x] = "recv" /\ state'[x] = "INTERRUPTIBLE" => ipc_caller'[x] = Null
  BY <1>2, <1>3 DEF CallInv
<1>6. QED  BY <1>4, <1>5 DEF CallInv

\* The child of a fork neither calls nor serves.
LEMMA ForkCall ==
    ASSUME IInv, CallInv, ~ForkWhileServing, NEW t \in Threads, NEW n \in Threads,
           Fork(t, n)
    PROVE  CallInv'
<1> USE IpcAssumption, InvParts
<1>1. /\ pc[t] = "user" /\ pc[n] = "free" /\ ipc_caller[t] = Null /\ ipc_caller[n] = Null
      /\ ~ipc_reply_pending[t]
  BY InUserMode DEF Fork, ThreadShape
<1>2. \A x \in Threads :
        /\ pc'[x] = IF x = n THEN "user" ELSE pc[x]
        /\ ipc_caller'[x] = ipc_caller[x]
        /\ x = n => ~ipc_reply_pending'[x]
        /\ x # n => /\ ipc_reply_pending'[x] = ipc_reply_pending[x]
                    /\ ipc_reply_server'[x] = ipc_reply_server[x]
                    /\ state'[x] = state[x]
  BY <1>1 DEF Fork, TypeOK, ThreadTypes, LinkTypes
<1>3. QED  BY <1>2 DEF CallInv

\* With servers that reply before they receive and do not fork meanwhile, every
\* step keeps each waiting caller linked to the server that owes it the reply.
LEMMA NextCall ==
    ASSUME IInv, CallInv, ~NestedServe, ~ForkWhileServing, [Next]_vars
    PROVE  CallInv'
<1>1. CASE UNCHANGED vars
  <2>1. LinksKept
    BY <1>1 DEF vars, waitVars, LinksKept
  <2>2. QED  BY <2>1, LinksKeptInv
<1>2. ASSUME NEW t \in Threads, NEW e \in Endpoints,
             EndpointCreate(t, e) \/ EndpointDestroy(t, e)
      PROVE  CallInv'
  BY <1>2, KeepLinks, LinksKeptInv
<1>3. ASSUME NEW t \in Threads, NEW e \in Endpoints, SendStep(t, e)
      PROVE  CallInv'
  <2>1. PICK k \in SliceKinds : \/ SendDirect(t, e, k)
                               \/ CallDirect(t, e, k)
                               \/ SendBlock(t, e, k, "send")
                               \/ SendBlock(t, e, k, "callsend")
    BY <1>3 DEF SendStep
  <2>2. CASE CallDirect(t, e, k)
    BY <2>2, CallDirectCall
  <2>3. CASE ~CallDirect(t, e, k)
    BY <2>1, <2>3, KeepLinks, LinksKeptInv
  <2>4. QED  BY <2>2, <2>3
<1>4. ASSUME NEW t \in Threads, NEW e \in Endpoints, RecvStep(t, e)
      PROVE  CallInv'
  BY <1>4, RecvDirectCall, KeepLinks, LinksKeptInv DEF RecvStep
<1>5. ASSUME NEW t \in Threads, ReplyStep(t) \/ Exit(t) \/ Reap(t)
      PROVE  CallInv'
  BY <1>5, ReplyCall, ExitCall, KeepLinks, LinksKeptInv DEF ReplyStep
<1>6. ASSUME NEW t \in Threads, Resume(t)
      PROVE  CallInv'
  BY <1>6, AwaitReplyCall, KeepLinks, LinksKeptInv DEF Resume
<1>7. ASSUME NEW t \in Threads, NEW n \in Threads, Fork(t, n)
      PROVE  CallInv'
  BY <1>7, ForkCall
<1>8. QED  BY <1>1, <1>2, <1>3, <1>4, <1>5, <1>6, <1>7 DEF Next

-----------------------------------------------------------------------------
\* The step leaves alone what the progress of x's call is read from.
CallUntouched(x) ==
    /\ pc'[x] = pc[x] /\ state'[x] = state[x] /\ wait_result'[x] = wait_result[x]
    /\ ipc_reply_pending'[x] = ipc_reply_pending[x]
    /\ ipc_reply_result'[x] = ipc_reply_result[x]
    /\ ipc_reply_server'[x] = ipc_reply_server[x]

\* The call of x is where it was.
SameCall(x) == CallPhase(x)' = CallPhase(x) /\ CallServer(x)' = CallServer(x)

\* A call that a step does not touch is where it was.
LEMMA UntouchedCall ==
    ASSUME NEW x \in Threads, CallUntouched(x)
    PROVE  SameCall(x)
  BY DEF CallUntouched, SameCall, CallPhase, CallServer, AwaitsReply

\* A thread outside ipc_call has no call, before and after.
LEMMA NoCall ==
    ASSUME NEW x \in Threads, pc[x] \notin {"callsend", "call"}, pc'[x] \notin {"callsend", "call"}
    PROVE  SameCall(x) /\ CallPhase(x) = "idle"
  BY DEF SameCall, CallPhase, CallServer

\* A step that moves no call is no step of Rpc.
LEMMA RpcStutter ==
    ASSUME \A x \in Threads : SameCall(x)
    PROVE  UNCHANGED Abstract!vars
  BY DEF Abstract!vars, SameCall

\* A call begins and waits for a server.
LEMMA RpcRequest ==
    ASSUME NEW c \in Threads, CallPhase(c) = "idle", CallPhase(c)' = "requested",
           \A x \in Threads \ {c} : SameCall(x)
    PROVE  Abstract!Next
<1>1. CallServer(c)' = CallServer(c)
  BY DEF CallServer
<1>2. Abstract!Request(c)
  BY <1>1 DEF Abstract!Request, SameCall
<1> QED
  BY <1>2 DEF Abstract!Next

\* A server that has no call on its hands takes one.
LEMMA RpcAccept ==
    ASSUME NEW c \in Threads, NEW s \in Threads, CallPhase(c) \in {"idle", "requested"},
           s # c, CallPhase(c)' = "accepted", ipc_reply_server'[c] = s,
           \A x \in Threads : CallPhase(x) = "accepted" => ipc_reply_server[x] # s,
           \A x \in Threads \ {c} : SameCall(x)
    PROVE  Abstract!Next
<1>1. CallServer(c)' = s
  BY DEF CallServer
<1>2. ~Abstract!Busy(s)
  BY DEF Abstract!Busy, CallServer
<1>3. Abstract!Accept(c, s)
  BY <1>1, <1>2 DEF Abstract!Accept, SameCall
<1> QED
  BY <1>3 DEF Abstract!Next

\* The server answers.
LEMMA RpcAnswer ==
    ASSUME NEW c \in Threads, CallPhase(c) = "accepted", CallPhase(c)' = "answered",
           ipc_reply_server'[c] = ipc_reply_server[c],
           \A x \in Threads \ {c} : SameCall(x)
    PROVE  Abstract!Next
<1>1. CallServer(c)' = CallServer(c)
  BY DEF CallServer
<1>2. Abstract!Answer(c)
  BY <1>1 DEF Abstract!Answer, SameCall
<1> QED
  BY <1>2 DEF Abstract!Next

\* Any number of unanswered calls fail at once.
LEMMA RpcFail ==
    ASSUME NEW C \in SUBSET Threads,
           \A c \in C : CallPhase(c) \in {"requested", "accepted"} /\ CallPhase(c)' = "failed",
           \A x \in Threads \ C : SameCall(x)
    PROVE  Abstract!Next
<1>1. \A c \in C : CallServer(c)' = Null
  BY DEF CallServer
<1>2. Abstract!Fail(C)
  BY <1>1 DEF Abstract!Fail, SameCall
<1> QED
  BY <1>2 DEF Abstract!Next

\* One of them fails.
LEMMA RpcFailOne ==
    ASSUME NEW c \in Threads, CallPhase(c) \in {"requested", "accepted"},
           CallPhase(c)' = "failed", \A x \in Threads \ {c} : SameCall(x)
    PROVE  Abstract!Next
<1>1. {c} \in SUBSET Threads
      /\ \A d \in {c} : CallPhase(d) \in {"requested", "accepted"} /\ CallPhase(d)' = "failed"
  OBVIOUS
<1> QED
  BY <1>1, RpcFail

\* A call that is answered or has failed returns.
LEMMA RpcReturn ==
    ASSUME NEW c \in Threads, CallPhase(c) \in {"answered", "failed"}, CallPhase(c)' = "idle",
           \A x \in Threads \ {c} : SameCall(x)
    PROVE  Abstract!Next
<1>1. CallServer(c)' = Null
  BY DEF CallServer
<1>2. Abstract!Return(c)
  BY <1>1 DEF Abstract!Return, SameCall
<1> QED
  BY <1>2 DEF Abstract!Next

\* Destroying an endpoint fails the calls that wait in its queue.
LEMMA EndpointRpc ==
    ASSUME IInv, NEW t \in Threads, NEW e \in Endpoints,
           EndpointCreate(t, e) \/ EndpointDestroy(t, e)
    PROVE  [Abstract!Next]_(Abstract!vars)
<1>1. CASE EndpointCreate(t, e)
  <2>1. \A x \in Threads : CallUntouched(x)
    BY <1>1 DEF EndpointCreate, CallUntouched, waitVars, linkVars
  <2> QED
    BY <2>1, UntouchedCall, RpcStutter
<1>2. CASE EndpointDestroy(t, e)
  <2> DEFINE C == {w \in Waiters({e}) : pc[w] = "callsend"}
  <2>1. /\ UNCHANGED <<pc, linkVars>>
        /\ \A x \in Threads :
              state'[x] = IF x \in Waiters({e}) THEN "RUNNING" ELSE state[x]
    BY <1>2 DEF EndpointDestroy, WakeAll
  <2>2. /\ Waiters({e}) \subseteq Threads
        /\ \A w \in Waiters({e}) : /\ pc[w] \in Senders \cup {"recv"}
                                   /\ state[w] = "INTERRUPTIBLE"
                                   /\ wait_result'[w] = "ERR_DEAD"
        /\ \A x \in Threads \ Waiters({e}) : wait_result'[x] = wait_result[x]
    <3>1. /\ DestroyEndpoints({e}) /\ UNCHANGED ep
          /\ {e} \subseteq Endpoints /\ \A f \in {e} : ep_state[f] = "live"
      BY <1>2 DEF EndpointDestroy
    <3> QED
      BY <3>1, DestroyWaiters
  <2>3. C \in SUBSET Threads
    BY <2>2
  <2>4. ASSUME NEW c \in C PROVE CallPhase(c) = "requested" /\ CallPhase(c)' = "failed"
    BY <2>1, <2>2, <2>4 DEF CallPhase, AwaitsReply
  <2>5. ASSUME NEW x \in Threads \ C PROVE SameCall(x)
    <3>1. CASE x \in Waiters({e})
      BY <2>1, <2>2, <2>5, <3>1, NoCall DEF Senders
    <3>2. CASE x \notin Waiters({e})
      BY <2>1, <2>2, <3>2, UntouchedCall DEF CallUntouched, linkVars
    <3> QED
      BY <3>1, <3>2
  <2> HIDE DEF C
  <2> QED
    BY <2>3, <2>4, <2>5, RpcFail
<1> QED
  BY <1>1, <1>2

\* A plain message is no call.
LEMMA SendDirectRpc ==
    ASSUME IInv, MessageInv, NEW t \in Threads, NEW e \in Endpoints, NEW k \in SliceKinds,
           SendDirect(t, e, k)
    PROVE  [Abstract!Next]_(Abstract!vars)
<1>1. PICK r \in Threads : ToReceiver(t, e, k, r) /\ state' = WakeAll({r})
                           /\ UNCHANGED <<pc, linkVars>>
  BY DEF SendDirect
<1>2. /\ pc[r] = "recv"
      /\ \A x \in Threads : x # r => wait_result'[x] = wait_result[x]
  BY <1>1, ToReceiverMessage
<1>3. SameCall(r)
  BY <1>1, <1>2, NoCall
<1>4. ASSUME NEW x \in Threads \ {r} PROVE SameCall(x)
  BY <1>1, <1>2, UntouchedCall DEF CallUntouched, linkVars, WakeAll
<1> QED
  BY <1>3, <1>4, RpcStutter

\* ipc_call with a server waiting: accepted at once, and the server had no call.
LEMMA CallDirectRpc ==
    ASSUME IInv, MessageInv, CallInv, NEW t \in Threads, NEW e \in Endpoints,
           NEW k \in SliceKinds, CallDirect(t, e, k)
    PROVE  [Abstract!Next]_(Abstract!vars)
<1> USE IpcAssumption, InvParts
<1>1. PICK r \in Threads :
        /\ ToReceiver(t, e, k, r)
        /\ LinkCall(t, r)
        /\ state' = [WakeAll({r}) EXCEPT ![t] = "INTERRUPTIBLE"]
        /\ pc' = [pc EXCEPT ![t] = "call"]
  BY DEF CallDirect
<1>2. /\ r # t /\ pc[r] = "recv" /\ state[r] = "INTERRUPTIBLE" /\ pc[t] = "user"
      /\ \A x \in Threads : x # r => wait_result'[x] = wait_result[x]
  BY <1>1, ToReceiverMessage
<1>3. \A x \in Threads :
        /\ state'[x] = IF x = t THEN "INTERRUPTIBLE" ELSE
                       IF x = r THEN "RUNNING" ELSE state[x]
        /\ pc'[x] = IF x = t THEN "call" ELSE pc[x]
        /\ ipc_reply_pending'[x] = IF x = t THEN TRUE ELSE ipc_reply_pending[x]
        /\ ipc_reply_server'[x] = IF x = t THEN r ELSE ipc_reply_server[x]
        /\ x # t => ipc_reply_result'[x] = ipc_reply_result[x]
  BY <1>1 DEF WakeAll, LinkCall, TypeOK, ThreadTypes, LinkTypes
<1>4. CallPhase(t) = "idle" /\ CallPhase(t)' = "accepted" /\ ipc_reply_server'[t] = r
  BY <1>2, <1>3 DEF CallPhase, AwaitsReply
<1>5. ASSUME NEW x \in Threads, CallPhase(x) = "accepted" PROVE ipc_reply_server[x] # r
  <2>1. ipc_reply_pending[x]
    BY <1>5 DEF CallPhase
  <2> QED
    BY <1>2, <2>1 DEF CallInv
<1>6. ASSUME NEW x \in Threads \ {t} PROVE SameCall(x)
  <2>1. CASE x = r
    BY <1>2, <1>3, <2>1, NoCall
  <2>2. CASE x # r
    BY <1>2, <1>3, <2>2, UntouchedCall DEF CallUntouched
  <2> QED
    BY <2>1, <2>2
<1> QED
  BY <1>2, <1>4, <1>5, <1>6, RpcAccept

\* ipc_call with no server waiting is a request; ipc_send and ipc_recv are none.
LEMMA BlockRpc ==
    ASSUME IInv, NEW t \in Threads, NEW e \in Endpoints,
           \/ \E k \in SliceKinds : SendBlock(t, e, k, "send") \/ SendBlock(t, e, k, "callsend")
           \/ RecvBlock(t, e)
    PROVE  [Abstract!Next]_(Abstract!vars)
<1> USE IpcAssumption, InvParts
<1>1. PICK to \in {"send", "callsend", "recv"} :
         Block(t, e, to) /\ UNCHANGED linkVars /\ pc[t] = "user"
  BY DEF SendBlock, RecvBlock
<1>2. /\ pc'[t] = to /\ state'[t] = "INTERRUPTIBLE"
      /\ \A x \in Threads \ {t} : CallUntouched(x)
  BY <1>1 DEF Block, CallUntouched, linkVars, TypeOK, ThreadTypes
<1>3. \A x \in Threads \ {t} : SameCall(x)
  BY <1>2, UntouchedCall
<1>4. CASE to = "callsend"
  <2>1. CallPhase(t) = "idle" /\ CallPhase(t)' = "requested"
    BY <1>1, <1>2, <1>4 DEF CallPhase, AwaitsReply
  <2> QED
    BY <1>3, <2>1, RpcRequest
<1>5. CASE to # "callsend"
  BY <1>1, <1>2, <1>3, <1>5, NoCall, RpcStutter
<1> QED
  BY <1>4, <1>5

\* ipc_recv accepts the call it takes off the queue, or fails it with its slice.
LEMMA RecvRpc ==
    ASSUME IInv, CallInv, ~NestedServe, NEW t \in Threads, NEW e \in Endpoints,
           RecvDirect(t, e) \/ RecvSliceError(t, e)
    PROVE  [Abstract!Next]_(Abstract!vars)
<1> USE IpcAssumption, InvParts
<1>1. PICK s \in Threads :
        /\ FromSender(t, e, s)
        /\ IF CopySlice(slice[s], s, t) = "OK" /\ pc[s] = "callsend"
           THEN LinkCall(s, t) ELSE UNCHANGED linkVars
  BY DEF RecvDirect, RecvSliceError
<1>2. /\ s # t /\ pc[s] \in Senders /\ state[s] = "INTERRUPTIBLE" /\ pc[t] = "user"
      /\ UNCHANGED pc
      /\ \A x \in Threads :
            /\ state'[x] = IF x = s THEN "RUNNING" ELSE state[x]
            /\ wait_result'[x] = IF x = s THEN CopySlice(slice[s], s, t) ELSE wait_result[x]
  BY <1>1, FromSenderMessage
<1>3. ipc_caller[t] = Null
  BY <1>1 DEF FromSender, MayReceive
<1>4. ASSUME NEW x \in Threads \ {s} PROVE SameCall(x)
  <2>1. CallUntouched(x)
    BY <1>1, <1>2 DEF CallUntouched, LinkCall, linkVars, TypeOK, LinkTypes
  <2> QED
    BY <2>1, UntouchedCall
<1>5. CASE pc[s] # "callsend"
  <2>1. SameCall(s)
    BY <1>2, <1>5, NoCall DEF Senders
  <2> QED
    BY <1>4, <2>1, RpcStutter
<1>6. CASE pc[s] = "callsend"
  <2>1. CallPhase(s) = "requested"
    BY <1>2, <1>6 DEF CallPhase, AwaitsReply
  <2>2. CASE CopySlice(slice[s], s, t) = "OK"
    <3>1. ipc_reply_pending'[s] /\ ipc_reply_server'[s] = t
      <4>1. LinkCall(s, t)
        BY <1>1, <1>6, <2>2
      <4> QED
        BY <4>1 DEF LinkCall, TypeOK, LinkTypes
    <3>2. CallPhase(s)' = "accepted"
      BY <1>2, <1>6, <2>2, <3>1 DEF CallPhase, AwaitsReply
    <3>3. ASSUME NEW x \in Threads, CallPhase(x) = "accepted" PROVE ipc_reply_server[x] # t
      <4>1. ipc_reply_pending[x]
        BY <3>3 DEF CallPhase
      <4> QED
        BY <1>3, <4>1 DEF CallInv
    <3> QED
      BY <1>2, <1>4, <2>1, <3>1, <3>2, <3>3, RpcAccept
  <2>3. CASE CopySlice(slice[s], s, t) # "OK"
    <3>1. CallPhase(s)' = "failed"
      BY <1>2, <1>6, <2>3 DEF CallPhase, AwaitsReply
    <3> QED
      BY <1>4, <2>1, <3>1, RpcFailOne
  <2> QED
    BY <2>2, <2>3
<1> QED
  BY <1>5, <1>6

\* ipc_reply answers the call, or fails it with the slice of the reply.
LEMMA ReplyRpc ==
    ASSUME IInv, NEW t \in Threads, NEW k \in SliceKinds, Reply(t, k)
    PROVE  [Abstract!Next]_(Abstract!vars)
<1> USE IpcAssumption, InvParts
<1>0. PICK c \in Threads : c = ipc_caller[t] /\ pc[t] = "user"
  BY DEF Reply, TypeOK, LinkTypes
<1>1. ipc_reply_pending[c] /\ AwaitsReply(c)
  BY <1>0 DEF ReplyOwedToWaiter
<1>2. /\ UNCHANGED <<pc, wait_result, ipc_reply_server>>
      /\ \A x \in Threads :
            /\ state'[x] = IF x = c THEN "RUNNING" ELSE state[x]
            /\ ipc_reply_pending'[x] = IF x = c THEN FALSE ELSE ipc_reply_pending[x]
            /\ x # c => ipc_reply_result'[x] = ipc_reply_result[x]
  BY <1>0 DEF Reply, WakeAll, TypeOK, ThreadTypes, LinkTypes
<1>3. ASSUME NEW x \in Threads \ {c} PROVE SameCall(x)
  BY <1>2, UntouchedCall DEF CallUntouched
<1>4. CallPhase(c) = "accepted"
  BY <1>1 DEF CallPhase, AwaitsReply
<1>5. CallPhase(c)' \in {"answered", "failed"}
  BY <1>1, <1>2 DEF CallPhase, AwaitsReply
<1>6. CASE CallPhase(c)' = "answered"
  BY <1>2, <1>3, <1>4, <1>6, RpcAnswer
<1>7. CASE CallPhase(c)' = "failed"
  BY <1>3, <1>4, <1>7, RpcFailOne
<1> QED
  BY <1>5, <1>6, <1>7

\* A caller that wakes up returns, or goes on waiting.
LEMMA ResumeRpc ==
    ASSUME IInv, NEW t \in Threads, Resume(t)
    PROVE  [Abstract!Next]_(Abstract!vars)
<1> USE IpcAssumption, InvParts DEF TypeOK, ThreadTypes, LinkTypes
<1>1. CASE SendResume(t) \/ RecvResume(t)
  <2>1. pc[t] \in {"send", "recv"} /\ pc'[t] = "user"
    BY <1>1 DEF SendResume, RecvResume, Return
  <2>2. ASSUME NEW x \in Threads \ {t} PROVE CallUntouched(x)
    BY <1>1 DEF SendResume, RecvResume, Return, CallUntouched, linkVars
  <2> QED
    BY <2>1, <2>2, NoCall, UntouchedCall, RpcStutter
<1>2. CASE CallSendResume(t) \/ CallResume(t)
  <2>1. ASSUME NEW x \in Threads \ {t} PROVE SameCall(x)
    <3>1. CallUntouched(x)
      BY <1>2 DEF CallSendResume, CallResume, AwaitReply, Return, CallUntouched, linkVars
    <3> QED
      BY <3>1, UntouchedCall
  <2>2. \/ /\ AwaitsReply(t) /\ ipc_reply_pending[t] /\ pc'[t] = "call"
           /\ ipc_reply_pending'[t] /\ ipc_reply_server'[t] = ipc_reply_server[t]
        \/ AwaitsReply(t) /\ ~ipc_reply_pending[t] /\ pc'[t] = "user"
        \/ /\ pc[t] = "callsend" /\ wait_result[t] # "OK" /\ state[t] = "RUNNING"
           /\ pc'[t] = "user"
    BY <1>2 DEF CallSendResume, CallResume, AwaitReply, Return, AwaitsReply, linkVars
  <2>3. CASE /\ AwaitsReply(t) /\ ipc_reply_pending[t] /\ pc'[t] = "call"
             /\ ipc_reply_pending'[t] /\ ipc_reply_server'[t] = ipc_reply_server[t]
    <3>1. SameCall(t)
      BY <2>3 DEF SameCall, CallPhase, CallServer, AwaitsReply
    <3> QED
      BY <2>1, <3>1, RpcStutter
  <2>4. CASE /\ pc'[t] = "user"
             /\ \/ AwaitsReply(t) /\ ~ipc_reply_pending[t]
                \/ pc[t] = "callsend" /\ wait_result[t] # "OK" /\ state[t] = "RUNNING"
    <3>1. CallPhase(t) \in {"answered", "failed"} /\ CallPhase(t)' = "idle"
      BY <2>4 DEF CallPhase, AwaitsReply
    <3> QED
      BY <2>1, <3>1, RpcReturn
  <2> QED
    BY <2>2, <2>3, <2>4
<1> QED
  BY <1>1, <1>2 DEF Resume

\* Exit of a thread fails the call it serves and those queued on its endpoints.
LEMMA ExitRpc ==
    ASSUME IInv, NEW t \in Threads, Exit(t)
    PROVE  [Abstract!Next]_(Abstract!vars)
<1> USE IpcAssumption
<1> DEFINE W == {w \in Waiters(Owned(t)) : pc[w] = "callsend"}
           C == {x \in Threads : x \in W \/ x = ipc_caller[t]}
<1>0. pc[t] = "user" /\ \A x \in Threads : pc'[x] = IF x = t THEN "zombie" ELSE pc[x]
  <2>1. pc[t] = "user"
    BY DEF Exit
  <2> QED
    BY <2>1, ExitFacts
<1>1. ASSUME NEW x \in Threads, x \in W
      PROVE  CallPhase(x) = "requested" /\ CallPhase(x)' = "failed"
  <2>1. /\ x # t /\ ~AwaitsReply(x) /\ pc[x] = "callsend" /\ state[x] = "INTERRUPTIBLE"
        /\ wait_result'[x] = "ERR_DEAD" /\ state'[x] = "RUNNING" /\ pc'[x] = "callsend"
    BY <1>0, <1>1, ExitFacts
  <2> QED
    BY <2>1 DEF CallPhase, AwaitsReply
<1>2. ASSUME NEW x \in Threads, x = ipc_caller[t]
      PROVE  CallPhase(x) = "accepted" /\ CallPhase(x)' = "failed"
  <2>1. /\ AwaitsReply(x) /\ ipc_reply_pending[x] /\ pc'[x] = pc[x]
        /\ state'[x] = "RUNNING" /\ wait_result'[x] = wait_result[x]
        /\ ~ipc_reply_pending'[x] /\ ipc_reply_result'[x] = "ERR_DEAD"
    <3>1. AwaitsReply(x) /\ x # t
      BY <1>2, ExitFacts
    <3>2. /\ state'[x] = "RUNNING" /\ wait_result'[x] = wait_result[x]
          /\ ~ipc_reply_pending'[x] /\ ipc_reply_result'[x] = "ERR_DEAD"
      BY <1>2, ExitFacts
    <3>3. ipc_reply_pending[x]
      BY <1>2, InvParts DEF ReplyOwedToWaiter
    <3> QED
      BY <1>0, <3>1, <3>2, <3>3
  <2> QED
    BY <2>1 DEF CallPhase, AwaitsReply
<1>3. ASSUME NEW x \in Threads \ C PROVE SameCall(x)
  <2>1. CASE x = t
    BY <1>0, <2>1, NoCall
  <2>2. CASE x \in Waiters(Owned(t))
    <3>1. pc[x] \in {"send", "recv"} /\ x # t
      BY <2>2, ExitFacts DEF Senders
    <3> QED
      BY <1>0, <3>1, NoCall
  <2>3. CASE x \notin Waiters(Owned(t)) \cup {t, ipc_caller[t]}
    <3>1. CallUntouched(x)
      BY <1>0, <2>3, ExitFacts DEF CallUntouched
    <3> QED
      BY <3>1, UntouchedCall
  <2> QED
    BY <2>1, <2>2, <2>3
<1>4. C \in SUBSET Threads
      /\ \A c \in C : CallPhase(c) \in {"requested", "accepted"} /\ CallPhase(c)' = "failed"
  BY <1>1, <1>2
<1> HIDE DEF C
<1> QED
  BY <1>3, <1>4, RpcFail

\* Threads that come and go have no call.
LEMMA ForkReapRpc ==
    ASSUME IInv, NEW t \in Threads, NEW n \in Threads, Fork(t, n) \/ Reap(t)
    PROVE  [Abstract!Next]_(Abstract!vars)
<1> USE IpcAssumption, InvParts DEF TypeOK, ThreadTypes, LinkTypes
<1>1. PICK y \in Threads : /\ pc[y] \in {"free", "zombie"} /\ pc'[y] \in {"user", "free"}
                           /\ \A x \in Threads \ {y} : CallUntouched(x)
  <2>1. CASE Fork(t, n)
    BY <2>1 DEF Fork, CallUntouched
  <2>2. CASE Reap(t)
    BY <2>2 DEF Reap, CallUntouched, linkVars
  <2> QED
    BY <2>1, <2>2
<1> QED
  BY <1>1, NoCall, UntouchedCall, RpcStutter

\* Every step of the kernel is a step of Rpc or none.
LEMMA NextRpc ==
    ASSUME IInv, MessageInv, CallInv, ~NestedServe, [Next]_vars
    PROVE  [Abstract!Next]_(Abstract!vars)
<1>1. CASE UNCHANGED vars
  <2>1. \A x \in Threads : CallUntouched(x)
    BY <1>1 DEF vars, waitVars, linkVars, CallUntouched
  <2> QED
    BY <2>1, UntouchedCall, RpcStutter
<1>2. ASSUME NEW t \in Threads, NEW e \in Endpoints,
             EndpointCreate(t, e) \/ EndpointDestroy(t, e)
      PROVE  [Abstract!Next]_(Abstract!vars)
  BY <1>2, EndpointRpc
<1>3. ASSUME NEW t \in Threads, NEW e \in Endpoints, SendStep(t, e)
      PROVE  [Abstract!Next]_(Abstract!vars)
  BY <1>3, SendDirectRpc, CallDirectRpc, BlockRpc DEF SendStep
<1>4. ASSUME NEW t \in Threads, NEW e \in Endpoints, RecvStep(t, e)
      PROVE  [Abstract!Next]_(Abstract!vars)
  BY <1>4, RecvRpc, BlockRpc DEF RecvStep
<1>5. ASSUME NEW t \in Threads, ReplyStep(t) \/ Resume(t) \/ Exit(t)
      PROVE  [Abstract!Next]_(Abstract!vars)
  BY <1>5, ReplyRpc, ResumeRpc, ExitRpc DEF ReplyStep
<1>6. ASSUME NEW t \in Threads, NEW n \in Threads, Fork(t, n) \/ Reap(t)
      PROVE  [Abstract!Next]_(Abstract!vars)
  BY <1>6, ForkReapRpc
<1> QED
  BY <1>1, <1>2, <1>3, <1>4, <1>5, <1>6 DEF Next

\* At the start nobody calls.
LEMMA InitRpc ==
    ASSUME Init
    PROVE  Abstract!Init
  BY DEF Init, Abstract!Init, CallPhase, CallServer

-----------------------------------------------------------------------------
(* The theorems. *)

FiniteSetFacts == INSTANCE FiniteSetTheorems

\* The library's notions of finite set and cardinality are those of Ipc.
LEMMA SameCardinality ==
    ASSUME NEW S
    PROVE  /\ FiniteSetFacts!IsFiniteSet(S) <=> IsFiniteSet(S)
           /\ FiniteSetFacts!Cardinality(S) = Cardinality(S)
  BY DEF FiniteSetFacts!IsFiniteSet, IsFiniteSet, FiniteSetFacts!Cardinality, Cardinality

\* Threads are finitely many, so sets of them are counted as the proofs suppose.
LEMMA ThreadsCounted == Counting
<1> SUFFICES ASSUME NEW S \in SUBSET Threads
             PROVE  /\ Cardinality(S) \in Nat
                    /\ Cardinality(S) = 0 <=> S = {}
                    /\ \A t \in Threads \ S : Cardinality(S \cup {t}) = Cardinality(S) + 1
                    /\ \A t \in S : Cardinality(S \ {t}) = Cardinality(S) - 1
  BY DEF Counting
<1>1. IsFiniteSet(S)
  BY SameCardinality, IpcAssumption, FiniteSetFacts!FS_Subset
<1>2. Cardinality(S) \in Nat
  BY <1>1, SameCardinality, FiniteSetFacts!FS_CardinalityType
<1>3. Cardinality(S) = 0 <=> S = {}
  BY <1>1, SameCardinality, FiniteSetFacts!FS_EmptySet
<1>4. ASSUME NEW t \in Threads \ S PROVE Cardinality(S \cup {t}) = Cardinality(S) + 1
  BY <1>1, SameCardinality, FiniteSetFacts!FS_AddElement
<1>5. ASSUME NEW t \in S PROVE Cardinality(S \ {t}) = Cardinality(S) - 1
  BY <1>1, SameCardinality, FiniteSetFacts!FS_RemoveElement
<1>6. QED  BY <1>2, <1>3, <1>4, <1>5

\* As long as no server forks while it owes a reply, the invariant holds for any
\* number of threads and endpoints and in every interleaving of their system
\* calls, whether or not servers reply before they receive again.
THEOREM InductiveInvariant ==
    ASSUME ~ForkWhileServing
    PROVE  Spec => []IInv
<1>1. Init => IInv
  BY ThreadsCounted, InitInv
<1>2. IInv /\ [Next]_vars => IInv'
  BY ThreadsCounted, NextInv
<1>3. QED  BY <1>1, <1>2, PTL DEF Spec

\* Every variable keeps its type; in particular no reference count underflows.
THEOREM TypeCorrect ==
    ASSUME ~ForkWhileServing
    PROVE  Spec => []TypeOK
<1>1. IInv => TypeOK
  BY InvParts
<1>2. QED  BY <1>1, InductiveInvariant, PTL

\* Nobody sleeps in ipc_send or ipc_recv where no partner and no destruction of the
\* endpoint would find it.
THEOREM WaitersFound ==
    ASSUME ~ForkWhileServing
    PROVE  Spec => []NoStrandedWaiter
<1>1. IInv => NoStrandedWaiter
  BY InvParts
<1>2. QED  BY <1>1, InductiveInvariant, PTL

\* No sender and receiver sleep beside each other on one endpoint.
THEOREM RendezvousTakesPlace ==
    ASSUME ~ForkWhileServing
    PROVE  Spec => []NoMissedRendezvous
<1>1. IInv => NoMissedRendezvous
  BY InvParts
<1>2. QED  BY <1>1, InductiveInvariant, PTL

\* Queues name sleeping threads only: no ipc_wait is freed while it is linked.
THEOREM QueuesSound ==
    ASSUME ~ForkWhileServing
    PROVE  Spec => []QueuedAsleep
<1>1. IInv => QueuedAsleep
  BY InvParts
<1>2. QED  BY <1>1, InductiveInvariant, PTL

\* A server's ipc_caller is never dangling: ipc_reply writes to a thread that waits.
THEOREM RepliesSafe ==
    ASSUME ~ForkWhileServing
    PROVE  Spec => []ReplyOwedToWaiter
<1>1. IInv => ReplyOwedToWaiter
  BY InvParts
<1>2. QED  BY <1>1, InductiveInvariant, PTL

\* Endpoint references are counted exactly, so nothing refers to a freed endpoint.
THEOREM ReferencesSafe ==
    ASSUME ~ForkWhileServing
    PROVE  Spec => [](RefcountExact /\ NoUseAfterFree /\ OwnerAlive)
<1>1. IInv => RefcountExact /\ NoUseAfterFree /\ OwnerAlive
  <2> SUFFICES ASSUME IInv PROVE RefcountExact /\ NoUseAfterFree /\ OwnerAlive
    OBVIOUS
  <2>1. \A t \in Threads, e \in Endpoints : ep[t] = e => ep_state[e] # "free"
    BY HeldNotFree, ThreadsCounted, IpcAssumption, InvParts
  <2>2. QED  BY <2>1, InvParts DEF NoUseAfterFree, EndpointShape
<1>2. QED  BY <1>1, InductiveInvariant, PTL

\* What threads have in their buffers and windows, in every state.
THEOREM MessageInvariant ==
    ASSUME ~ForkWhileServing
    PROVE  Spec => []MessageInv
<1>1. Init => MessageInv
  BY IpcAssumption DEF Init, MessageInv, MessageOf, Answered, AwaitsReply, HasMessage, Senders
<1>2. IInv /\ MessageInv /\ [Next]_vars => MessageInv'
  BY NextMessage
<1>3. Spec => []IInv
  BY InductiveInvariant
<1> QED
  BY <1>1, <1>2, <1>3, PTL DEF Spec

\* A message and its slice come from the same thread, and a waiting sender keeps the
\* slice it has offered.
THEOREM SlicesArrive ==
    ASSUME ~ForkWhileServing
    PROVE  Spec => []SliceWithMessage
<1>1. MessageInv => SliceWithMessage
  BY DEF MessageInv, MessageOf, SliceWithMessage
<1> QED
  BY <1>1, MessageInvariant, PTL

\* A call that ends with OK ends with the reply of the server it was linked to, also
\* when servers receive again before they reply.
THEOREM RepliesArrive ==
    ASSUME ~ForkWhileServing
    PROVE  Spec => []ReplyFromServer
<1>1. MessageInv => ReplyFromServer
  BY DEF MessageInv, MessageOf, Answered, ReplyFromServer
<1> QED
  BY <1>1, MessageInvariant, PTL

\* No caller is stranded: whoever waits for a reply is owed it by a server that
\* still exists, so ipc_reply or ipc_thread_cleanup will wake it.
THEOREM CallersFound ==
    ASSUME ~NestedServe, ~ForkWhileServing
    PROVE  Spec => []NoStrandedCaller
<1>1. Init => CallInv
  BY DEF Init, CallInv
<1>2. IInv /\ CallInv /\ [Next]_vars => CallInv'
  BY NextCall
<1>3. IInv /\ CallInv => NoStrandedCaller
  <2> SUFFICES ASSUME IInv, CallInv PROVE NoStrandedCaller
    OBVIOUS
  <2>1. ASSUME NEW c \in Threads, ipc_reply_pending[c]
        PROVE  /\ ipc_reply_server[c] \in Threads
               /\ ipc_caller[ipc_reply_server[c]] = c
               /\ pc[ipc_reply_server[c]] \notin {"zombie", "free"}
    BY <2>1, IpcAssumption, InvParts DEF CallInv, ThreadShape
  <2>2. QED  BY <2>1 DEF NoStrandedCaller, CallInv
<1>4. Spec => []IInv
  BY InductiveInvariant
<1>5. QED  BY <1>1, <1>2, <1>3, <1>4, PTL DEF Spec

\* The kernel implements Rpc, for any number of threads and endpoints, as long as
\* servers reply before they receive again and do not fork meanwhile: every call is
\* accepted once, answered at most once and by the server that accepted it.
THEOREM RpcImplemented ==
    ASSUME ~NestedServe, ~ForkWhileServing
    PROVE  Spec => ImplementsRpc
<1>1. Init => Abstract!Init
  BY InitRpc
<1>2. Spec => []IInv
  BY InductiveInvariant
<1>3. Spec => []MessageInv
  BY MessageInvariant
<1>4. Init => CallInv
  BY DEF Init, CallInv
<1>5. IInv /\ CallInv /\ [Next]_vars => CallInv'
  BY NextCall
<1>6. IInv /\ MessageInv /\ CallInv /\ [Next]_vars => [Abstract!Next]_(Abstract!vars)
  BY NextRpc
<1> QED
  BY <1>1, <1>2, <1>3, <1>4, <1>5, <1>6, PTL DEF Spec, ImplementsRpc, Abstract!Spec
=============================================================================
