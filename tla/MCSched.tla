------------------------------ MODULE MCSched ------------------------------
(* Instances of Sched for TLC. *)
EXTENDS Sched, TLC

\* Threads differ only in what they do.
Symmetry == Permutations(Threads)
=============================================================================
