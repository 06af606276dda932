---------------------------- MODULE MCMutexOwners ----------------------------
(* Model-checking instance of MutexOwners. *)
EXTENDS MutexOwners, TLC

(* Addresses and threads are interchangeable: every hash is tried. *)
Symmetry == Permutations(Addrs) \cup Permutations(Threads)
==============================================================================
