------------------------------- MODULE IpcRpc -------------------------------
(* The kernel's call/reply implements Rpc. *)
EXTENDS Ipc

\* How far the call of c has come, read off the kernel's state.
CallPhase(c) ==
    IF pc[c] \notin {"callsend", "call"} THEN "idle"
    ELSE IF AwaitsReply(c)
         THEN IF ipc_reply_pending[c] THEN "accepted"
              ELSE IF ipc_reply_result[c] = "OK" THEN "answered" ELSE "failed"
         ELSE IF state[c] = "RUNNING" THEN "failed" ELSE "requested"

\* The server that has accepted it.
CallServer(c) ==
    IF CallPhase(c) \in {"accepted", "answered"} THEN ipc_reply_server[c] ELSE Null

Abstract == INSTANCE Rpc WITH
    phase <- [c \in Threads |-> CallPhase(c)],
    server <- [c \in Threads |-> CallServer(c)]

\* Every behaviour of the kernel's IPC is one of Rpc: each call is accepted by
\* at most one server, answered at most once and by that server only, and a
\* server works on one call at a time, whatever exits, endpoint destruction and
\* slice failures happen in between.
ImplementsRpc == Abstract!Spec
=============================================================================
