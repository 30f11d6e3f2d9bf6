------------------------------- MODULE MCProc -------------------------------
(* Proc for TLC. *)
EXTENDS Proc, TLC

\* No action tells the objects of a kind apart.
Symmetry == Permutations(Procs) \cup Permutations(Spaces)

=============================================================================
