---------------------------- MODULE MCReadiness ----------------------------
(* Instances of Readiness: the keys a program uses and the waits it makes,  *)
(* as <<timeout, broad>>.                                                   *)
EXTENDS Readiness, TLC

CONSTANTS k, l

(* Every wait hears of every clock move: it has a deadline. *)
Timed == [keys |-> {k}, kinds |-> {<<1, FALSE>>, <<2, TRUE>>},
          events |-> {"charge", "exit", "spurious"}]

(* Also waits that only their key wakes. *)
Keyed == [keys |-> {k}, kinds |-> {<<0, FALSE>>, <<2, FALSE>>}, events |-> {"spurious"}]

(* A lease comes and goes. *)
Leased == [keys |-> {k}, kinds |-> {<<0, FALSE>>}, events |-> {"lease", "spurious"}]

(* Two keys: one thread may wait through what the other waits for. *)
Paired == [keys |-> {k, l}, kinds |-> {<<1, FALSE>>}, events |-> {}]

MCSetups == {Timed, Keyed, Leased, Paired}
FairSetups == {[Keyed EXCEPT !.events = {"exit"}]}

(* Nothing tells two threads apart. *)
Alike == Permutations(Threads)
=============================================================================
