---------------------------- MODULE MCScheduler ----------------------------
(* Small instances of Scheduler. *)
EXTENDS Scheduler

OnReadiness(after) ==
  [key |-> Readiness, after |-> after, timed |-> after > 0, word |-> FALSE, shared |-> FALSE]
OnWord(a, after) ==
  [key |-> Addr(a), after |-> after, timed |-> FALSE, word |-> TRUE, shared |-> FALSE]
OnLock(a, shared) ==
  [key |-> Addr(a), after |-> 0, timed |-> FALSE, word |-> FALSE, shared |-> shared]
OnExit(t) ==
  [key |-> Exit(t), after |-> 0, timed |-> FALSE, word |-> FALSE, shared |-> FALSE]

BesideWaits == {OnReadiness(1), OnWord(1, 0)}
WordWaits == {OnWord(1, 0)}
IdleWaits == {OnReadiness(0), OnReadiness(1), OnWord(1, 0)}
CoreWaits == IdleWaits \cup {OnExit(t) : t \in Threads}
MixedWaits == CoreWaits \cup {OnLock(1, TRUE)}
LiveWaits == IdleWaits \cup {OnWord(1, 1)}
TimeWaits == IdleWaits \cup {OnWord(1, 1), OnWord(1, 2)}
============================================================================
