---------------------------- MODULE MCFileLocks ----------------------------
(* Small instances of FileLocks. *)
EXTENDS FileLocks, TLC

(* The whole file, waited for or not, and a byte in the middle of it. *)
MCRequests ==
  ({<<0, Top>>} \X {"read", "write"} \X BOOLEAN) \cup ({<<1, 2>>} \X Kinds \X {FALSE})
MCAccesses == {{"read", "write"}}
MCSetups == {[mac |-> FALSE, calls |-> {"process", "ofd"}],
             [mac |-> FALSE, calls |-> {"flock"}],
             [mac |-> TRUE, calls |-> {"process", "flock"}]}
OfdSetups == {[mac |-> FALSE, calls |-> {"ofd"}]}
Symmetry == Permutations(Threads) \cup Permutations(Fds)
=============================================================================
