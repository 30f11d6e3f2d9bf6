-------------------------- MODULE IpcMessageProofs --------------------------
(***************************************************************************)
(* What a message of Ipc consists of when it arrives, as an invariant of   *)
(* its own that every step keeps.                                          *)
(***************************************************************************)
EXTENDS IpcInductive

\* The call of c is over but for its return.
Answered(c) == AwaitsReply(c) /\ ~ipc_reply_pending[c]

\* What a thread's message buffer and window hold.  Besides the two properties:
\* a buffer is empty while its thread waits for what will fill it.
MessageOf(t) ==
    /\ pc[t] \in Senders \cup {"call"} /\ ~Answered(t) => from[t] = Null
    /\ pc[t] = "recv" /\ state[t] = "INTERRUPTIBLE" => from[t] = Null
    /\ Answered(t) =>
        \/ ipc_reply_result[t] = "OK" /\ from[t] = ipc_reply_server[t] /\ from[t] # Null
        \/ ipc_reply_result[t] \in {"ERR_DEAD", "ERR_INVALID", "ERR_OVERFLOW"} /\ from[t] = Null
    /\ HasMessage(t) /\ slice[t] = "fits" => win[t] = from[t]
    /\ pc[t] \in Senders /\ state[t] = "INTERRUPTIBLE" /\ slice[t] = "fits" => win[t] = t

MessageInv == \A t \in Threads : MessageOf(t)

\* The step leaves x's part of the state alone.
Untouched(x) ==
    /\ pc'[x] = pc[x] /\ state'[x] = state[x] /\ wait_result'[x] = wait_result[x]
    /\ ipc_reply_pending'[x] = ipc_reply_pending[x]
    /\ ipc_reply_result'[x] = ipc_reply_result[x]
    /\ ipc_reply_server'[x] = ipc_reply_server[x]
    /\ from'[x] = from[x] /\ slice'[x] = slice[x] /\ win'[x] = win[x]

\* What is said of a thread survives a step that does not touch it.
LEMMA UntouchedMessage ==
    ASSUME NEW x \in Threads, MessageOf(x), Untouched(x)
    PROVE  MessageOf(x)'
  BY DEF MessageOf, Untouched, Answered, AwaitsReply, HasMessage, Senders

\* A thread in user mode, or one that is none, with no message has nothing to show.
LEMMA EmptyMessage ==
    ASSUME NEW x \in Threads, from'[x] = Null, pc'[x] \in {"user", "zombie", "free"}
    PROVE  MessageOf(x)'
  BY IpcAssumption DEF MessageOf, Answered, AwaitsReply, HasMessage, Senders

\* The copy of a message, thread by thread.
LEMMA DeliverPointwise ==
    ASSUME DataTypes, NEW t \in Threads, NEW src \in Threads, NEW r \in Threads,
           NEW k, NEW w \in [Threads -> Threads], Deliver(t, src, r, k, w)
    PROVE  \A x \in Threads :
              /\ from'[x] = IF x = r THEN src ELSE IF x = t THEN Null ELSE from[x]
              /\ slice'[x] = IF x = r THEN k ELSE slice[x]
              /\ win'[x] = IF x = r /\ k = "fits" THEN w[src] ELSE w[x]
  BY DEF DataTypes, Deliver, WindowAfter

\* Only the window of the program that fills it changes.
LEMMA FillPointwise ==
    ASSUME DataTypes, NEW t \in Threads, NEW k
    PROVE  /\ FillWindow(t, k) \in [Threads -> Threads]
           /\ \A x \in Threads : x # t => FillWindow(t, k)[x] = win[x]
           /\ k = "fits" => FillWindow(t, k)[t] = t
  BY DEF DataTypes, FillWindow

\* ipc_send and ipc_call with a receiver waiting: the receiver gets the message.
LEMMA ToReceiverMessage ==
    ASSUME IInv, MessageInv, NEW t \in Threads, NEW e \in Endpoints, NEW k \in SliceKinds,
           NEW r \in Threads, ToReceiver(t, e, k, r)
    PROVE  /\ r # t /\ pc[r] = "recv" /\ state[r] = "INTERRUPTIBLE" /\ pc[t] = "user"
           /\ \A x \in Threads :
                 /\ from'[x] = IF x = r THEN t ELSE IF x = t THEN Null ELSE from[x]
                 /\ x # r => slice'[x] = slice[x]
                 /\ x \notin {r, t} => win'[x] = win[x]
                 /\ x # r => wait_result'[x] = wait_result[x]
           /\ slice'[r] = "fits" => win'[r] = t
<1> USE IpcAssumption, InvParts
<1>1. r \in Members(recv_queue[e]) /\ pc[t] = "user"
  BY DequeueMembers DEF ToReceiver, NoWaiter, TypeOK, EndpointTypes
<1>2. pc[r] = "recv" /\ state[r] = "INTERRUPTIBLE" /\ r # t
  BY <1>1 DEF QueuedAsleep
<1>3. /\ FillWindow(t, k) \in [Threads -> Threads]
      /\ \A x \in Threads : x # t => FillWindow(t, k)[x] = win[x]
      /\ k = "fits" => FillWindow(t, k)[t] = t
  BY FillPointwise DEF TypeOK
<1>4. \A x \in Threads :
         /\ from'[x] = IF x = r THEN t ELSE IF x = t THEN Null ELSE from[x]
         /\ slice'[x] = IF x = r THEN k ELSE slice[x]
         /\ win'[x] = IF x = r /\ k = "fits" THEN FillWindow(t, k)[t] ELSE FillWindow(t, k)[x]
  BY <1>3, DeliverPointwise DEF ToReceiver, TypeOK
<1>5. \A x \in Threads : x # r => wait_result'[x] = wait_result[x]
  BY DEF ToReceiver, TypeOK, ThreadTypes
<1> QED
  BY <1>1, <1>2, <1>3, <1>4, <1>5

\* ipc_send with a receiver waiting.
LEMMA SendDirectMessage ==
    ASSUME IInv, MessageInv, NEW t \in Threads, NEW e \in Endpoints, NEW k \in SliceKinds,
           SendDirect(t, e, k)
    PROVE  MessageInv'
<1> USE IpcAssumption
<1>1. PICK r \in Threads :
        /\ ToReceiver(t, e, k, r)
        /\ state' = WakeAll({r})
        /\ UNCHANGED <<pc, linkVars>>
  BY DEF SendDirect
<1>2. /\ r # t /\ pc[r] = "recv" /\ pc[t] = "user"
      /\ \A x \in Threads :
            /\ from'[x] = IF x = r THEN t ELSE IF x = t THEN Null ELSE from[x]
            /\ x # r => slice'[x] = slice[x]
            /\ x \notin {r, t} => win'[x] = win[x]
            /\ x # r => wait_result'[x] = wait_result[x]
      /\ slice'[r] = "fits" => win'[r] = t
  BY <1>1, ToReceiverMessage
<1>3. \A x \in Threads : pc'[x] = pc[x] /\ state'[x] = IF x = r THEN "RUNNING" ELSE state[x]
  BY <1>1 DEF WakeAll
<1>4. ASSUME NEW x \in Threads \ {r, t} PROVE MessageOf(x)'
  BY <1>1, <1>2, <1>3, UntouchedMessage DEF Untouched, linkVars, MessageInv
<1>5. MessageOf(t)'
  BY <1>2, <1>3, EmptyMessage
<1>6. MessageOf(r)'
  BY <1>2, <1>3 DEF MessageOf, Answered, AwaitsReply, HasMessage, Senders
<1> QED
  BY <1>4, <1>5, <1>6 DEF MessageInv

\* ipc_call with a receiver waiting: the caller waits with an empty buffer.
LEMMA CallDirectMessage ==
    ASSUME IInv, MessageInv, NEW t \in Threads, NEW e \in Endpoints, NEW k \in SliceKinds,
           CallDirect(t, e, k)
    PROVE  MessageInv'
<1> USE IpcAssumption
<1>1. PICK r \in Threads :
        /\ ToReceiver(t, e, k, r)
        /\ LinkCall(t, r)
        /\ state' = [WakeAll({r}) EXCEPT ![t] = "INTERRUPTIBLE"]
        /\ pc' = [pc EXCEPT ![t] = "call"]
  BY DEF CallDirect
<1>2. /\ r # t /\ pc[r] = "recv" /\ pc[t] = "user"
      /\ \A x \in Threads :
            /\ from'[x] = IF x = r THEN t ELSE IF x = t THEN Null ELSE from[x]
            /\ x # r => slice'[x] = slice[x]
            /\ x \notin {r, t} => win'[x] = win[x]
            /\ x # r => wait_result'[x] = wait_result[x]
      /\ slice'[r] = "fits" => win'[r] = t
  BY <1>1, ToReceiverMessage
<1>3. \A x \in Threads :
         /\ pc'[x] = IF x = t THEN "call" ELSE pc[x]
         /\ state'[x] = IF x = t THEN "INTERRUPTIBLE" ELSE IF x = r THEN "RUNNING" ELSE state[x]
         /\ ipc_reply_pending'[x] = IF x = t THEN TRUE ELSE ipc_reply_pending[x]
         /\ x # t => /\ ipc_reply_result'[x] = ipc_reply_result[x]
                     /\ ipc_reply_server'[x] = ipc_reply_server[x]
  BY <1>1, InvParts DEF WakeAll, LinkCall, TypeOK, ThreadTypes, LinkTypes
<1>4. ASSUME NEW x \in Threads \ {r, t} PROVE MessageOf(x)'
  BY <1>2, <1>3, UntouchedMessage DEF Untouched, MessageInv
<1>5. MessageOf(t)'
  BY <1>2, <1>3 DEF MessageOf, Answered, AwaitsReply, HasMessage, Senders
<1>6. MessageOf(r)'
  BY <1>2, <1>3 DEF MessageOf, Answered, AwaitsReply, HasMessage, Senders
<1> QED
  BY <1>4, <1>5, <1>6 DEF MessageInv

\* A sender that blocks has its own data in its window.
LEMMA SendBlockMessage ==
    ASSUME IInv, MessageInv, NEW t \in Threads, NEW e \in Endpoints, NEW k \in SliceKinds,
           NEW to \in Senders, SendBlock(t, e, k, to)
    PROVE  MessageInv'
<1> USE IpcAssumption, InvParts
<1>1. \A x \in Threads :
         /\ pc'[x] = IF x = t THEN to ELSE pc[x]
         /\ state'[x] = IF x = t THEN "INTERRUPTIBLE" ELSE state[x]
         /\ x # t => wait_result'[x] = wait_result[x]
         /\ from'[x] = IF x = t THEN Null ELSE from[x]
         /\ x # t => slice'[x] = slice[x] /\ win'[x] = win[x]
  BY FillPointwise DEF SendBlock, Block, TypeOK, ThreadTypes, DataTypes
<1>2. slice'[t] = k /\ (k = "fits" => win'[t] = t) /\ UNCHANGED linkVars
  BY FillPointwise DEF SendBlock, TypeOK, DataTypes
<1>3. ASSUME NEW x \in Threads \ {t} PROVE MessageOf(x)'
  BY <1>1, <1>2, UntouchedMessage DEF Untouched, linkVars, MessageInv
<1>4. MessageOf(t)'
  BY <1>1, <1>2 DEF MessageOf, Answered, AwaitsReply, HasMessage, Senders
<1> QED
  BY <1>3, <1>4 DEF MessageInv

\* A receiver that blocks has an empty buffer.
LEMMA RecvBlockMessage ==
    ASSUME IInv, MessageInv, NEW t \in Threads, NEW e \in Endpoints, RecvBlock(t, e)
    PROVE  MessageInv'
<1> USE IpcAssumption, InvParts
<1>1. \A x \in Threads :
         /\ pc'[x] = IF x = t THEN "recv" ELSE pc[x]
         /\ state'[x] = IF x = t THEN "INTERRUPTIBLE" ELSE state[x]
         /\ x # t => wait_result'[x] = wait_result[x]
         /\ from'[x] = IF x = t THEN Null ELSE from[x]
         /\ x # t => slice'[x] = slice[x]
  BY DEF RecvBlock, Block, TypeOK, ThreadTypes, DataTypes
<1>2. UNCHANGED <<win, linkVars>>
  BY DEF RecvBlock
<1>3. ASSUME NEW x \in Threads \ {t} PROVE MessageOf(x)'
  BY <1>1, <1>2, UntouchedMessage DEF Untouched, linkVars, MessageInv
<1>4. MessageOf(t)'
  BY <1>1, <1>2 DEF MessageOf, Answered, AwaitsReply, HasMessage, Senders
<1> QED
  BY <1>3, <1>4 DEF MessageInv

\* ipc_recv with a sender waiting.
LEMMA FromSenderMessage ==
    ASSUME IInv, NEW t \in Threads, NEW e \in Endpoints, NEW s \in Threads,
           FromSender(t, e, s)
    PROVE  /\ s # t /\ pc[s] \in Senders /\ state[s] = "INTERRUPTIBLE" /\ pc[t] = "user"
           /\ UNCHANGED pc
           /\ \A x \in Threads :
                 /\ state'[x] = IF x = s THEN "RUNNING" ELSE state[x]
                 /\ wait_result'[x] = IF x = s THEN CopySlice(slice[s], s, t)
                                      ELSE wait_result[x]
<1> USE IpcAssumption, InvParts
<1>1. s \in Members(send_queue[e]) /\ pc[t] = "user"
  BY DequeueMembers DEF FromSender, NoWaiter, TypeOK, EndpointTypes
<1>2. pc[s] \in Senders /\ state[s] = "INTERRUPTIBLE" /\ s # t
  BY <1>1 DEF QueuedAsleep, Senders
<1>3. \A x \in Threads :
         /\ state'[x] = IF x = s THEN "RUNNING" ELSE state[x]
         /\ wait_result'[x] = IF x = s THEN CopySlice(slice[s], s, t) ELSE wait_result[x]
  BY DEF FromSender, WakeAll, TypeOK, ThreadTypes
<1> QED
  BY <1>1, <1>2, <1>3 DEF FromSender

\* ipc_recv with a sender waiting: registers and slice are of that sender.
LEMMA RecvDirectMessage ==
    ASSUME IInv, MessageInv, NEW t \in Threads, NEW e \in Endpoints, RecvDirect(t, e)
    PROVE  MessageInv'
<1> USE IpcAssumption, InvParts
<1>1. PICK s \in Threads :
        /\ FromSender(t, e, s)
        /\ CopySlice(slice[s], s, t) = "OK"
        /\ IF pc[s] = "callsend" THEN LinkCall(s, t) ELSE UNCHANGED linkVars
        /\ Deliver(t, s, t, slice[s], win)
  BY DEF RecvDirect
<1>2. /\ s # t /\ pc[s] \in Senders /\ state[s] = "INTERRUPTIBLE" /\ pc[t] = "user"
      /\ UNCHANGED pc
      /\ \A x \in Threads :
            /\ state'[x] = IF x = s THEN "RUNNING" ELSE state[x]
            /\ wait_result'[x] = IF x = s THEN "OK" ELSE wait_result[x]
  BY <1>1, FromSenderMessage
<1>3. \A x \in Threads :
         /\ from'[x] = IF x = t THEN s ELSE from[x]
         /\ slice'[x] = IF x = t THEN slice[s] ELSE slice[x]
         /\ win'[x] = IF x = t /\ slice[s] = "fits" THEN win[s] ELSE win[x]
  BY <1>1, DeliverPointwise DEF TypeOK, DataTypes
<1>4. \A x \in Threads :
         /\ x # s => /\ ipc_reply_pending'[x] = ipc_reply_pending[x]
                     /\ ipc_reply_result'[x] = ipc_reply_result[x]
                     /\ ipc_reply_server'[x] = ipc_reply_server[x]
         /\ x = s /\ pc[s] = "callsend" => ipc_reply_pending'[x] = TRUE
  BY <1>1 DEF LinkCall, linkVars, TypeOK, LinkTypes
<1>5. ASSUME NEW x \in Threads \ {s, t} PROVE MessageOf(x)'
  BY <1>2, <1>3, <1>4, UntouchedMessage DEF Untouched, MessageInv
<1>6. MessageOf(s) /\ from[s] = Null /\ (slice[s] = "fits" => win[s] = s)
  BY <1>2 DEF MessageInv, MessageOf, Answered, AwaitsReply, Senders
<1>7. MessageOf(t)'
  BY <1>2, <1>3, <1>6 DEF MessageOf, Answered, AwaitsReply, HasMessage, Senders
<1>8. MessageOf(s)'
  BY <1>2, <1>3, <1>4, <1>6 DEF MessageOf, Answered, AwaitsReply, HasMessage, Senders
<1> QED
  BY <1>5, <1>7, <1>8 DEF MessageInv

\* A slice that cannot be copied leaves both sides without a message.
LEMMA RecvSliceErrorMessage ==
    ASSUME IInv, MessageInv, NEW t \in Threads, NEW e \in Endpoints, RecvSliceError(t, e)
    PROVE  MessageInv'
<1> USE IpcAssumption, InvParts
<1>1. PICK s \in Threads :
        /\ FromSender(t, e, s)
        /\ CopySlice(slice[s], s, t) # "OK"
        /\ from' = [from EXCEPT ![t] = Null]
        /\ UNCHANGED <<linkVars, slice, win>>
  BY DEF RecvSliceError
<1>2. /\ s # t /\ pc[s] \in Senders /\ state[s] = "INTERRUPTIBLE" /\ pc[t] = "user"
      /\ UNCHANGED pc
      /\ \A x \in Threads :
            /\ state'[x] = IF x = s THEN "RUNNING" ELSE state[x]
            /\ wait_result'[x] = IF x = s THEN CopySlice(slice[s], s, t) ELSE wait_result[x]
  BY <1>1, FromSenderMessage
<1>3. \A x \in Threads : from'[x] = IF x = t THEN Null ELSE from[x]
  BY <1>1 DEF TypeOK, DataTypes
<1>4. ASSUME NEW x \in Threads \ {s, t} PROVE MessageOf(x)'
  BY <1>1, <1>2, <1>3, UntouchedMessage DEF Untouched, MessageInv, linkVars
<1>5. MessageOf(t)'
  BY <1>2, <1>3, EmptyMessage
<1>6. MessageOf(s) /\ from[s] = Null
  BY <1>2 DEF MessageInv, MessageOf, Answered, AwaitsReply, Senders
<1>7. MessageOf(s)'
  BY <1>1, <1>2, <1>3, <1>6 DEF MessageOf, Answered, AwaitsReply, HasMessage, Senders
<1> QED
  BY <1>4, <1>5, <1>7 DEF MessageInv

\* ipc_reply: the caller gets the reply of the server it is linked to, or an error.
LEMMA ReplyMessage ==
    ASSUME IInv, MessageInv, NEW t \in Threads, NEW k \in SliceKinds, Reply(t, k)
    PROVE  MessageInv'
<1> USE IpcAssumption, InvParts
<1>0. PICK c \in Threads : c = ipc_caller[t] /\ pc[t] = "user"
  BY DEF Reply, TypeOK, LinkTypes
<1> DEFINE r == CopySlice(k, t, c)
<1>1. /\ c \in Threads /\ pc[t] = "user"
      /\ ipc_reply_pending[c] /\ ipc_reply_server[c] = t /\ AwaitsReply(c) /\ c # t
  BY <1>0 DEF TypeOK, LinkTypes, ReplyOwedToWaiter, AwaitsReply
<1>2. r \in {"OK", "ERR_INVALID", "ERR_OVERFLOW"}
  BY DEF CopySlice, Slices
<1>3. /\ UNCHANGED <<pc, wait_result, ipc_reply_server>>
      /\ \A x \in Threads :
            /\ state'[x] = IF x = c THEN "RUNNING" ELSE state[x]
            /\ ipc_reply_pending'[x] = IF x = c THEN FALSE ELSE ipc_reply_pending[x]
            /\ ipc_reply_result'[x] = IF x = c THEN r ELSE ipc_reply_result[x]
  BY <1>0, <1>1 DEF Reply, WakeAll, TypeOK, ThreadTypes, LinkTypes
<1>4. pc[c] \in {"call", "callsend"} /\ (pc[c] = "callsend" => wait_result[c] = "OK")
      /\ from[c] = Null
  BY <1>1 DEF AwaitsReply, MessageInv, MessageOf, Answered, Senders
<1>5. CASE r = "OK"
  <2>1. /\ FillWindow(t, k) \in [Threads -> Threads]
        /\ \A x \in Threads : x # t => FillWindow(t, k)[x] = win[x]
        /\ k = "fits" => FillWindow(t, k)[t] = t
    BY FillPointwise DEF TypeOK
  <2>2. \A x \in Threads :
           /\ from'[x] = IF x = c THEN t ELSE IF x = t THEN Null ELSE from[x]
           /\ slice'[x] = IF x = c THEN k ELSE slice[x]
           /\ win'[x] = IF x = c /\ k = "fits" THEN FillWindow(t, k)[t] ELSE FillWindow(t, k)[x]
    BY <1>0, <1>1, <1>5, <2>1, DeliverPointwise DEF Reply, TypeOK
  <2>3. ASSUME NEW x \in Threads \ {c, t} PROVE MessageOf(x)'
    BY <1>3, <2>1, <2>2, UntouchedMessage DEF Untouched, MessageInv
  <2>4. MessageOf(t)'
    BY <1>1, <1>3, <2>2, EmptyMessage
  <2>5. MessageOf(c)'
    <3>1. /\ from'[c] = t /\ slice'[c] = k /\ (k = "fits" => win'[c] = t)
          /\ state'[c] = "RUNNING" /\ pc'[c] = pc[c] /\ ~ipc_reply_pending'[c]
          /\ ipc_reply_result'[c] = "OK" /\ ipc_reply_server'[c] = t
          /\ wait_result'[c] = wait_result[c]
      BY <1>1, <1>3, <1>5, <2>1, <2>2
    <3> QED
      BY <1>1, <1>4, <3>1 DEF MessageOf, Answered, AwaitsReply, HasMessage, Senders
  <2> QED
    BY <2>3, <2>4, <2>5 DEF MessageInv
<1>6. CASE r # "OK"
  <2>1. UNCHANGED <<slice, win>> /\ \A x \in Threads : from'[x] = IF x = t THEN Null ELSE from[x]
    BY <1>0, <1>6 DEF Reply, TypeOK, DataTypes
  <2>2. ASSUME NEW x \in Threads \ {c, t} PROVE MessageOf(x)'
    BY <1>3, <2>1, UntouchedMessage DEF Untouched, MessageInv
  <2>3. MessageOf(t)'
    BY <1>1, <1>3, <2>1, EmptyMessage
  <2>4. MessageOf(c)'
    <3>1. /\ from'[c] = Null /\ state'[c] = "RUNNING" /\ pc'[c] = pc[c]
          /\ ipc_reply_result'[c] \in {"ERR_INVALID", "ERR_OVERFLOW"}
          /\ ~ipc_reply_pending'[c]
      BY <1>1, <1>2, <1>3, <1>4, <1>6, <2>1
    <3> QED
      BY <1>4, <3>1 DEF MessageOf, Answered, AwaitsReply, HasMessage, Senders
  <2> QED
    BY <2>2, <2>3, <2>4 DEF MessageInv
<1> QED
  BY <1>5, <1>6

\* A system call that returns leaves its thread with the message it had been given.
LEMMA ResumeMessage ==
    ASSUME IInv, MessageInv, NEW t \in Threads, Resume(t)
    PROVE  MessageInv'
<1> USE IpcAssumption, InvParts DEF TypeOK, ThreadTypes, LinkTypes, DataTypes
<1>0. MessageOf(t)
  BY DEF MessageInv
<1>1. CASE SendResume(t)
  <2>1. /\ pc[t] = "send" /\ pc'[t] = "user" /\ from[t] = Null
        /\ UNCHANGED <<linkVars, from, win>>
    BY <1>0, <1>1 DEF SendResume, Return, MessageOf, Answered, AwaitsReply, Senders
  <2>2. ASSUME NEW x \in Threads \ {t} PROVE Untouched(x)
    BY <1>1 DEF SendResume, Return, Untouched, linkVars
  <2>3. MessageOf(t)'
    BY <2>1, EmptyMessage
  <2> QED
    BY <2>2, <2>3, UntouchedMessage DEF MessageInv
<1>2. CASE RecvResume(t)
  <2>1. /\ pc[t] = "recv" /\ state[t] = "RUNNING" /\ pc'[t] = "user"
        /\ UNCHANGED dataVars
    BY <1>2 DEF RecvResume, Return
  <2>2. ASSUME NEW x \in Threads \ {t} PROVE Untouched(x)
    BY <1>2 DEF RecvResume, Return, Untouched, linkVars, dataVars
  <2>3. MessageOf(t)'
    BY <1>0, <2>1 DEF MessageOf, Answered, AwaitsReply, HasMessage, Senders, dataVars
  <2> QED
    BY <2>2, <2>3, UntouchedMessage DEF MessageInv
<1>3. CASE CallSendResume(t) \/ CallResume(t)
  <2>1. UNCHANGED dataVars
    BY <1>3 DEF CallSendResume, CallResume
  <2>2. ASSUME NEW x \in Threads \ {t} PROVE Untouched(x)
    BY <1>3, <2>1 DEF CallSendResume, CallResume, AwaitReply, Return, Untouched, linkVars, dataVars
  <2>3. \/ AwaitsReply(t) /\ ipc_reply_pending[t] /\ pc'[t] = "call" /\ ipc_reply_pending'[t]
        \/ AwaitsReply(t) /\ ~ipc_reply_pending[t] /\ pc'[t] = "user"
        \/ pc[t] = "callsend" /\ wait_result[t] # "OK" /\ pc'[t] = "user"
    BY <1>3 DEF CallSendResume, CallResume, AwaitReply, Return, AwaitsReply, linkVars
  <2>4. pc[t] \in {"callsend", "call"}
    BY <1>3 DEF CallSendResume, CallResume
  <2>5. MessageOf(t)'
    BY <1>0, <2>1, <2>3, <2>4
       DEF MessageOf, Answered, AwaitsReply, HasMessage, Senders, dataVars
  <2> QED
    BY <2>2, <2>5, UntouchedMessage DEF MessageInv
<1> QED
  BY <1>1, <1>2, <1>3 DEF Resume

\* A waiter that is told ERR_DEAD has no message.
LEMMA DeadMessage ==
    ASSUME NEW x \in Threads, MessageOf(x), pc[x] \in Senders \cup {"recv"},
           state[x] = "INTERRUPTIBLE", pc'[x] = pc[x], state'[x] = "RUNNING",
           wait_result'[x] = "ERR_DEAD", from'[x] = from[x]
    PROVE  MessageOf(x)'
  BY DEF MessageOf, Answered, AwaitsReply, HasMessage, Senders

\* The destruction of an endpoint delivers nothing.
LEMMA EndpointMessage ==
    ASSUME IInv, MessageInv, NEW t \in Threads, NEW e \in Endpoints,
           EndpointCreate(t, e) \/ EndpointDestroy(t, e)
    PROVE  MessageInv'
<1> USE IpcAssumption, InvParts
<1>1. CASE EndpointCreate(t, e)
  <2>1. \A x \in Threads : Untouched(x)
    BY <1>1 DEF EndpointCreate, Untouched, waitVars, linkVars, dataVars
  <2> QED
    BY <2>1, UntouchedMessage DEF MessageInv
<1>2. CASE EndpointDestroy(t, e)
  <2>1. /\ UNCHANGED <<pc, linkVars, dataVars>>
        /\ \A x \in Threads :
              state'[x] = IF x \in Waiters({e}) THEN "RUNNING" ELSE state[x]
    BY <1>2 DEF EndpointDestroy, WakeAll
  <2>2. /\ \A w \in Waiters({e}) : /\ pc[w] \in Senders \cup {"recv"}
                                   /\ state[w] = "INTERRUPTIBLE"
                                   /\ wait_result'[w] = "ERR_DEAD"
        /\ \A x \in Threads \ Waiters({e}) : wait_result'[x] = wait_result[x]
    <3>1. /\ DestroyEndpoints({e}) /\ UNCHANGED ep
          /\ {e} \subseteq Endpoints /\ \A f \in {e} : ep_state[f] = "live"
      BY <1>2 DEF EndpointDestroy
    <3> QED
      BY <3>1, DestroyWaiters
  <2>3. ASSUME NEW x \in Threads, x \in Waiters({e}) PROVE MessageOf(x)'
    BY <2>1, <2>2, <2>3, DeadMessage DEF MessageInv, dataVars
  <2>4. ASSUME NEW x \in Threads, x \notin Waiters({e}) PROVE MessageOf(x)'
    BY <2>1, <2>2, <2>4, UntouchedMessage DEF MessageInv, Untouched, dataVars, linkVars
  <2> QED
    BY <2>3, <2>4 DEF MessageInv
<1> QED
  BY <1>1, <1>2

\* What process_exit does to the other threads: the waiters of its endpoints
\* and the caller it served are woken with ERR_DEAD, nobody else notices.
LEMMA ExitFacts ==
    ASSUME IInv, NEW t \in Threads, Exit(t)
    PROVE  /\ UNCHANGED dataVars
           /\ \A x \in Threads : pc'[x] = IF x = t THEN "zombie" ELSE pc[x]
           /\ \A w \in Waiters(Owned(t)) :
                 /\ w \in Threads \ {t} /\ ~AwaitsReply(w)
                 /\ pc[w] \in Senders \cup {"recv"} /\ state[w] = "INTERRUPTIBLE"
                 /\ wait_result'[w] = "ERR_DEAD" /\ state'[w] = "RUNNING"
           /\ ipc_caller[t] # Null => AwaitsReply(ipc_caller[t]) /\ ipc_caller[t] # t
           /\ \A x \in Threads : x = ipc_caller[t] =>
                 /\ state'[x] = "RUNNING" /\ wait_result'[x] = wait_result[x]
                 /\ ~ipc_reply_pending'[x] /\ ipc_reply_result'[x] = "ERR_DEAD"
           /\ \A x \in Threads : x \notin Waiters(Owned(t)) \cup {t, ipc_caller[t]} =>
                 /\ state'[x] = state[x] /\ wait_result'[x] = wait_result[x]
           /\ \A x \in Threads : x \notin {t, ipc_caller[t]} =>
                 /\ ipc_reply_pending'[x] = ipc_reply_pending[x]
                 /\ ipc_reply_result'[x] = ipc_reply_result[x]
                 /\ ipc_reply_server'[x] = ipc_reply_server[x]
<1> USE IpcAssumption, InvParts
<1>1. Owned(t) \subseteq Endpoints /\ \A e \in Owned(t) : ep_state[e] = "live"
  BY DEF Owned, EndpointShape, OwnerAlive, TypeOK, EndpointTypes
<1>2. DestroyEndpoints(Owned(t)) /\ UNCHANGED <<ep, dataVars>> /\ pc[t] = "user"
  BY DEF Exit
<1>3. /\ Waiters(Owned(t)) \subseteq Threads
      /\ \A w \in Waiters(Owned(t)) : /\ pc[w] \in Senders \cup {"recv"}
                                      /\ state[w] = "INTERRUPTIBLE"
                                      /\ wait_result'[w] = "ERR_DEAD"
      /\ \A x \in Threads \ Waiters(Owned(t)) : wait_result'[x] = wait_result[x]
  BY <1>1, <1>2, DestroyWaiters
<1>4. ipc_caller[t] # Null =>
         AwaitsReply(ipc_caller[t]) /\ ipc_caller[t] # t /\ ipc_caller[t] \notin Waiters(Owned(t))
  BY <1>2, <1>3 DEF ReplyOwedToWaiter, AwaitsReply, Senders
<1>5. \A x \in Threads :
        /\ pc'[x] = IF x = t THEN "zombie" ELSE pc[x]
        /\ state'[x] = IF x = t THEN "ZOMBIE" ELSE
                       IF x \in Waiters(Owned(t)) \/ x = ipc_caller[t] THEN "RUNNING"
                       ELSE state[x]
  BY DEF Exit, WakeAll, TypeOK, ThreadTypes
<1>6. \A x \in Threads :
        /\ x = ipc_caller[t] => ~ipc_reply_pending'[x] /\ ipc_reply_result'[x] = "ERR_DEAD"
        /\ x \notin {t, ipc_caller[t]} =>
                 /\ ipc_reply_pending'[x] = ipc_reply_pending[x]
                 /\ ipc_reply_result'[x] = ipc_reply_result[x]
                 /\ ipc_reply_server'[x] = ipc_reply_server[x]
  BY DEF Exit
<1>7. \A w \in Waiters(Owned(t)) : w \in Threads \ {t} /\ ~AwaitsReply(w) /\ state'[w] = "RUNNING"
  BY <1>2, <1>3, <1>5 DEF AwaitsReply, Senders
<1>8. ASSUME NEW x \in Threads, x = ipc_caller[t]
      PROVE  state'[x] = "RUNNING" /\ wait_result'[x] = wait_result[x]
  BY <1>3, <1>4, <1>5, <1>8
<1>9. ASSUME NEW x \in Threads, x \notin Waiters(Owned(t)) \cup {t, ipc_caller[t]}
      PROVE  state'[x] = state[x] /\ wait_result'[x] = wait_result[x]
  BY <1>3, <1>5, <1>9
<1> QED
  BY <1>2, <1>3, <1>4, <1>5, <1>6, <1>7, <1>8, <1>9

\* Exit of a server ends the call of its caller with an error and no message.
LEMMA ExitMessage ==
    ASSUME IInv, MessageInv, NEW t \in Threads, Exit(t)
    PROVE  MessageInv'
<1> USE IpcAssumption
<1>0. pc[t] = "user" /\ \A x \in Threads : MessageOf(x)
  BY DEF Exit, MessageInv
<1>1. UNCHANGED dataVars /\ \A x \in Threads : pc'[x] = IF x = t THEN "zombie" ELSE pc[x]
  BY ExitFacts
<1>2. MessageOf(t)'
  BY <1>1 DEF MessageOf, Answered, AwaitsReply, HasMessage, Senders
<1>3. ASSUME NEW x \in Waiters(Owned(t)) PROVE x \in Threads /\ MessageOf(x)'
  BY <1>0, <1>1, <1>3, ExitFacts, DeadMessage DEF dataVars
<1>4. ASSUME NEW x \in Threads, x = ipc_caller[t] PROVE MessageOf(x)'
  <2>1. /\ AwaitsReply(x) /\ x # t /\ pc'[x] = pc[x] /\ ipc_reply_pending[x]
        /\ state'[x] = "RUNNING" /\ wait_result'[x] = wait_result[x]
        /\ ~ipc_reply_pending'[x] /\ ipc_reply_result'[x] = "ERR_DEAD"
    <3>1. ipc_reply_pending[x]
      BY <1>4, InvParts, IpcAssumption DEF ReplyOwedToWaiter
    <3> QED
      BY <1>1, <1>4, <3>1, ExitFacts, IpcAssumption
  <2> QED
    BY <1>0, <1>1, <2>1 DEF MessageOf, Answered, AwaitsReply, HasMessage, Senders, dataVars
<1>5. \A x \in Threads : x \notin Waiters(Owned(t)) \cup {t, ipc_caller[t]} =>
        state'[x] = state[x] /\ wait_result'[x] = wait_result[x]
  BY ExitFacts
<1>6. ASSUME NEW x \in Threads, x \notin Waiters(Owned(t)) \cup {t, ipc_caller[t]}
      PROVE  MessageOf(x)'
  <2>1. x \notin {t, ipc_caller[t]} /\ pc'[x] = pc[x]
    BY <1>1, <1>6
  <2>2. state'[x] = state[x] /\ wait_result'[x] = wait_result[x]
    BY <1>5, <1>6
  <2>3. /\ ipc_reply_pending'[x] = ipc_reply_pending[x]
        /\ ipc_reply_result'[x] = ipc_reply_result[x]
        /\ ipc_reply_server'[x] = ipc_reply_server[x]
    BY <2>1, ExitFacts
  <2>4. from' = from /\ slice' = slice /\ win' = win
    BY <1>1 DEF dataVars
  <2>5. Untouched(x)
    BY <2>1, <2>2, <2>3, <2>4 DEF Untouched
  <2> QED
    BY <1>0, <2>5, UntouchedMessage
<1> QED
  BY <1>2, <1>3, <1>4, <1>6 DEF MessageInv

\* A child starts with no message; a thread that is freed has none to show.
LEMMA ForkReapMessage ==
    ASSUME IInv, MessageInv, NEW t \in Threads, NEW n \in Threads, Fork(t, n) \/ Reap(t)
    PROVE  MessageInv'
<1> USE IpcAssumption, InvParts DEF TypeOK, ThreadTypes, LinkTypes, DataTypes
<1>1. CASE Fork(t, n)
  <2>1. pc'[n] = "user" /\ from'[n] = Null
    BY <1>1 DEF Fork
  <2>2. ASSUME NEW x \in Threads \ {n} PROVE Untouched(x)
    BY <1>1 DEF Fork, Untouched
  <2>3. MessageOf(n)'
    BY <2>1, EmptyMessage
  <2> QED
    BY <2>2, <2>3, UntouchedMessage DEF MessageInv
<1>2. CASE Reap(t)
  <2>1. ASSUME NEW x \in Threads \ {t} PROVE Untouched(x)
    BY <1>2 DEF Reap, Untouched, linkVars, dataVars
  <2>2. MessageOf(t)'
    <3>1. pc'[t] = "free"
      BY <1>2 DEF Reap
    <3> QED
      BY <3>1 DEF MessageOf, Answered, AwaitsReply, HasMessage, Senders
  <2> QED
    BY <2>1, <2>2, UntouchedMessage DEF MessageInv
<1> QED
  BY <1>1, <1>2

\* Every step keeps messages, windows and replies together.
LEMMA NextMessage ==
    ASSUME IInv, MessageInv, [Next]_vars
    PROVE  MessageInv'
<1>1. CASE UNCHANGED vars
  <2>1. \A x \in Threads : Untouched(x)
    BY <1>1 DEF vars, waitVars, linkVars, dataVars, Untouched
  <2> QED
    BY <2>1, UntouchedMessage DEF MessageInv
<1>2. ASSUME NEW t \in Threads, NEW e \in Endpoints,
             EndpointCreate(t, e) \/ EndpointDestroy(t, e)
      PROVE  MessageInv'
  BY <1>2, EndpointMessage
<1>3. ASSUME NEW t \in Threads, NEW e \in Endpoints, SendStep(t, e)
      PROVE  MessageInv'
  <2>1. PICK k \in SliceKinds : \/ SendDirect(t, e, k)
                               \/ CallDirect(t, e, k)
                               \/ SendBlock(t, e, k, "send")
                               \/ SendBlock(t, e, k, "callsend")
    BY <1>3 DEF SendStep
  <2>2. "send" \in Senders /\ "callsend" \in Senders
    BY DEF Senders
  <2>3. CASE SendDirect(t, e, k) \/ CallDirect(t, e, k)
    BY <2>3, SendDirectMessage, CallDirectMessage
  <2>4. CASE SendBlock(t, e, k, "send") \/ SendBlock(t, e, k, "callsend")
    BY <2>4, <2>2, SendBlockMessage
  <2> QED
    BY <2>1, <2>3, <2>4
<1>4. ASSUME NEW t \in Threads, NEW e \in Endpoints, RecvStep(t, e)
      PROVE  MessageInv'
  BY <1>4, RecvDirectMessage, RecvSliceErrorMessage, RecvBlockMessage DEF RecvStep
<1>5. ASSUME NEW t \in Threads, ReplyStep(t) \/ Resume(t) \/ Exit(t)
      PROVE  MessageInv'
  BY <1>5, ReplyMessage, ResumeMessage, ExitMessage DEF ReplyStep
<1>6. ASSUME NEW t \in Threads, NEW n \in Threads, Fork(t, n) \/ Reap(t)
      PROVE  MessageInv'
  BY <1>6, ForkReapMessage
<1> QED
  BY <1>1, <1>2, <1>3, <1>4, <1>5, <1>6 DEF Next
=============================================================================
