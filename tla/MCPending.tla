------------------------------ MODULE MCPending ------------------------------
(* Model-checking instance of Pending. *)
EXTENDS Pending, TLC

(* The threads that make changes are interchangeable. *)
Symmetry == Permutations(Threads)
==============================================================================
