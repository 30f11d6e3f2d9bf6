------------------------------- MODULE MCIpc -------------------------------
(* Instances of Ipc for TLC. *)
EXTENDS IpcRpc, TLC

\* Threads that play the same role are interchangeable, and so are endpoints.
Symmetry ==
    Permutations(Threads \ KThreads) \cup Permutations(Endpoints)
=============================================================================
