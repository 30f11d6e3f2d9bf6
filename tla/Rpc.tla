-------------------------------- MODULE Rpc --------------------------------
(***************************************************************************)
(* What ipc_call, ipc_recv and ipc_reply promise together, without         *)
(* endpoints, queues or sleeping: a call is accepted by one server, gets   *)
(* at most one answer and gets it from that server, and a server works on  *)
(* one call at a time.  Anything that has not been answered may fail, and  *)
(* one event (an endpoint destroyed, a server gone) may fail many calls.   *)
(***************************************************************************)
CONSTANTS Threads, Null

VARIABLES
    phase,   \* how far the call of each thread has come
    server   \* the server that accepted it

vars == <<phase, server>>

Phases == {"idle", "requested", "accepted", "answered", "failed"}

Init ==
    /\ phase = [c \in Threads |-> "idle"]
    /\ server = [c \in Threads |-> Null]

\* A server with a call on its hands.
Busy(s) == \E c \in Threads : phase[c] = "accepted" /\ server[c] = s

Request(c) ==
    /\ phase[c] = "idle"
    /\ phase' = [phase EXCEPT ![c] = "requested"]
    /\ UNCHANGED server

\* A server that was waiting takes the request as soon as it is made.
Accept(c, s) ==
    /\ phase[c] \in {"idle", "requested"}
    /\ s # c
    /\ ~Busy(s)
    /\ phase' = [phase EXCEPT ![c] = "accepted"]
    /\ server' = [server EXCEPT ![c] = s]

Answer(c) ==
    /\ phase[c] = "accepted"
    /\ phase' = [phase EXCEPT ![c] = "answered"]
    /\ UNCHANGED server

Fail(C) ==
    /\ \A c \in C : phase[c] \in {"requested", "accepted"}
    /\ phase' = [c \in Threads |-> IF c \in C THEN "failed" ELSE phase[c]]
    /\ server' = [c \in Threads |-> IF c \in C THEN Null ELSE server[c]]

Return(c) ==
    /\ phase[c] \in {"answered", "failed"}
    /\ phase' = [phase EXCEPT ![c] = "idle"]
    /\ server' = [server EXCEPT ![c] = Null]

Next ==
    \/ \E c \in Threads :
        \/ Request(c)
        \/ \E s \in Threads : Accept(c, s)
        \/ Answer(c)
        \/ Return(c)
    \/ \E C \in SUBSET Threads : Fail(C)

Spec == Init /\ [][Next]_vars
=============================================================================
