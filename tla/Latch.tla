-------------------------------- MODULE Latch --------------------------------
(***************************************************************************)
(* What the schedule counts on from a Parker (crates/snare-interpose/src/  *)
(* sched.rs): a one-slot latch where one thread waits to be handed the     *)
(* baton ("run") or the duty of dispatching ("dispatch").                  *)
(***************************************************************************)
VARIABLES
  latch,   \* the pending grant
  parked   \* the thread waits for one

Init == latch = "none" /\ parked = FALSE

Park == ~parked /\ parked' = TRUE /\ UNCHANGED latch

(* The baton supersedes a pending duty; the duty never a pending baton. *)
Grant == latch' = "run" /\ UNCHANGED parked
Delegate == latch = "none" /\ latch' = "dispatch" /\ UNCHANGED parked

Take == parked /\ latch # "none" /\ latch' = "none" /\ parked' = FALSE
Forget == ~parked /\ latch' = "none" /\ UNCHANGED parked

Next == Park \/ Grant \/ Delegate \/ Take \/ Forget

(* A grant made before the thread parks is kept, and one is always taken. *)
Spec == Init /\ [][Next]_<<latch, parked>> /\ WF_<<latch, parked>>(Take)
==============================================================================
