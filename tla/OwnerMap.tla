------------------------------ MODULE OwnerMap -------------------------------
(***************************************************************************)
(* What the schedule counts on from its table of mutex owners: a map from  *)
(* mutexes to the threads holding them, of a fixed capacity.  A mutex      *)
(* taken while the map is full goes unrecorded.                            *)
(***************************************************************************)
EXTENDS FiniteSets, Naturals

CONSTANTS Addrs, Threads, Capacity, None
VARIABLE owner

Held == {a \in Addrs : owner[a] # None}

Init == owner = [a \in Addrs |-> None]

Taken(a, t) ==
  /\ a \in Held \/ Cardinality(Held) < Capacity
  /\ owner' = [owner EXCEPT ![a] = t]

Let(a) == owner' = [owner EXCEPT ![a] = None]

Disown(t) == owner' = [a \in Addrs |-> IF owner[a] = t THEN None ELSE owner[a]]

Next ==
  \/ \E a \in Addrs : Let(a) \/ \E t \in Threads : Taken(a, t)
  \/ \E t \in Threads : Disown(t)

Spec == Init /\ [][Next]_owner
==============================================================================
