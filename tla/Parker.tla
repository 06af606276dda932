------------------------------- MODULE Parker --------------------------------
(***************************************************************************)
(* crates/snare-interpose/src/sched.rs, Parker: where one thread of the    *)
(* schedule waits to be handed the baton.  A critical section of the latch *)
(* is one action, since what is read without the lock (`pending`, `asleep`,*)
(* `nudge_skip`) is read by actions of its own.                            *)
(*                                                                         *)
(* The callers are the other threads of the schedule: delegate and nudge   *)
(* run under the schedule's state lock (`lock`), grant after it is let go, *)
(* and one baton at most is on its way to the thread.                      *)
(***************************************************************************)
EXTENDS Naturals

CONSTANTS
  Callers,      \* threads that grant, delegate and nudge
  MAX_MISSES,
  U32,          \* the counters are unsigned: they count modulo U32 (2^32 in the code)
  None

ASSUME ParkerAssumption ==
  /\ MAX_MISSES \in Nat \ {0} /\ U32 \in Nat /\ U32 > 2 ^ MAX_MISSES
  /\ None \notin Callers

VARIABLES
  grant, sleeping,             \* Latch
  pending, handback, nudged, asleep,
  skip, misses, nudgeSkip, nudgeMisses,
  pc,                          \* where the parked thread is
  job,                         \* what each caller is in the middle of
  lock                         \* the caller with the state lock

latchVars == <<grant, sleeping, pending, nudged, asleep>>
counters == <<skip, misses, nudgeSkip, nudgeMisses>>
vars == <<latchVars, counters, handback, pc, job, lock>>

Init ==
  /\ grant = "none" /\ sleeping = FALSE
  /\ pending = FALSE /\ handback = FALSE /\ nudged = FALSE /\ asleep = FALSE
  /\ skip = 0 /\ misses = 0 /\ nudgeSkip = 0 /\ nudgeMisses = 0
  /\ pc = "away" /\ job = [c \in Callers |-> "none"] /\ lock = None

Less(a, b) == IF a < b THEN a ELSE b

Missed(n) == Less(n + 1, MAX_MISSES)

-----------------------------------------------------------------------------
(* The parked thread. *)

(* wait, up to its spin. *)
Park ==
  /\ pc = "away"
  /\ pc' = IF handback THEN "spin" ELSE "wait"
  /\ handback' = FALSE
  /\ UNCHANGED <<latchVars, counters, job, lock>>

(* spin: the grant may be seen at any check, and the last check may come    *)
(* just before it.                                                          *)
Spin ==
  /\ pc = "spin" /\ pc' = "wait"
  /\ \/ skip > 0 /\ skip' = skip - 1 /\ UNCHANGED misses
     \/ skip = 0 /\ pending /\ misses' = 0 /\ UNCHANGED skip
     \/ skip = 0 /\ misses' = Missed(misses) /\ skip' = 2 ^ misses' - 1
  /\ UNCHANGED <<latchVars, nudgeSkip, nudgeMisses, handback, job, lock>>

(* Mutant: a thread that goes to sleep does not say so. *)
LookQuietly ==
  /\ pc \in {"wait", "woken"}
  /\ nudged' = FALSE /\ asleep' = (grant = "none" /\ ~nudged)
  /\ sleeping' = FALSE
  /\ \/ grant # "none" /\ grant' = "none" /\ pending' = FALSE /\ pc' = "away"
     \/ grant = "none" /\ UNCHANGED <<grant, pending>> /\ pc' = IF nudged THEN "nudged" ELSE "asleep"
  /\ UNCHANGED <<counters, handback, job, lock>>

(* One turn of wait's loop, from taking the latch to letting it go: with a  *)
(* grant, for a nudged spin, or to sleep.                                   *)
Look ==
  /\ pc \in {"wait", "woken"}
  /\ nudged' = FALSE
  /\ \/ /\ grant # "none" /\ grant' = "none" /\ pending' = FALSE
        /\ sleeping' = FALSE /\ asleep' = FALSE /\ pc' = "away"
     \/ /\ grant = "none" /\ nudged
        /\ sleeping' = FALSE /\ asleep' = FALSE /\ pc' = "nudged"
        /\ UNCHANGED <<grant, pending>>
     \/ /\ grant = "none" /\ ~nudged
        /\ sleeping' = TRUE /\ asleep' = TRUE /\ pc' = "asleep"
        /\ UNCHANGED <<grant, pending>>
  /\ UNCHANGED <<counters, handback, job, lock>>

SpinNudged ==
  /\ pc = "nudged" /\ pc' = "wait"
  /\ \/ pending /\ nudgeMisses' = 0 /\ UNCHANGED nudgeSkip
     \/ nudgeMisses' = Missed(nudgeMisses) /\ nudgeSkip' = 2 ^ nudgeMisses' - 1
  /\ UNCHANGED <<latchVars, skip, misses, handback, job, lock>>

(* A condition variable may wake for nothing. *)
SpuriousWake ==
  /\ pc = "asleep" /\ pc' = "woken"
  /\ UNCHANGED <<latchVars, counters, handback, job, lock>>

(* forget, by the thread itself as it leaves the schedule (detach_thread). *)
Forget ==
  /\ pc = "away" /\ lock = None
  /\ grant' = "none" /\ pending' = FALSE
  /\ UNCHANGED <<sleeping, nudged, asleep, counters, handback, pc, job, lock>>

-----------------------------------------------------------------------------
(* The callers. *)

Become(c, what) == job' = [job EXCEPT ![c] = what]

(* fill, up to the signal: what is filled in wakes a sleeper. *)
Fill(c, g) ==
  /\ grant' = g /\ pending' = TRUE
  /\ Become(c, IF sleeping THEN "signal" ELSE "none")
  /\ UNCHANGED <<sleeping, nudged, asleep, counters, handback, pc>>

(* grant_next picks the thread, and later, the state lock let go, grants.   *)
(* Whoever had the baton last and gets it back may expect it soon.          *)
GrantNext(c) ==
  /\ job[c] = "none" /\ lock = None
  /\ grant # "run" /\ \A d \in Callers : job[d] # "grant"
  /\ Become(c, "grant")
  /\ UNCHANGED <<latchVars, counters, handback, pc, lock>>

ExpectHandback ==
  /\ lock = None /\ ~handback /\ handback' = TRUE
  /\ UNCHANGED <<latchVars, counters, pc, job, lock>>

Grant(c) == job[c] = "grant" /\ Fill(c, "run") /\ UNCHANGED lock

(* Mutant: the duty replaces what is pending. *)
DelegateAnyway(c) ==
  /\ job[c] = "none" /\ lock = None
  /\ Fill(c, "dispatch") /\ lock' = IF sleeping THEN c ELSE None

Delegate(c) ==
  /\ job[c] = "none" /\ lock = None
  /\ Fill(c, IF grant = "none" THEN "dispatch" ELSE grant)
  /\ lock' = IF sleeping THEN c ELSE None

(* Mutant: nudges cross, without the state lock. *)
NudgeUnlocked(c) ==
  /\ job[c] = "none" /\ asleep /\ Become(c, "nudge")
  /\ UNCHANGED <<latchVars, counters, handback, pc, lock>>

(* nudge: two loads, then a decrement or the latch. *)
Nudge(c) ==
  /\ job[c] = "none" /\ lock = None /\ asleep
  /\ Become(c, "nudge") /\ lock' = c
  /\ UNCHANGED <<latchVars, counters, handback, pc>>

NudgeLoad(c) ==
  /\ job[c] = "nudge"
  /\ Become(c, IF nudgeSkip > 0 THEN "passup" ELSE "latch")
  /\ UNCHANGED <<latchVars, counters, handback, pc, lock>>

NudgePass(c) ==
  /\ job[c] = "passup" /\ Become(c, "none") /\ lock' = None
  /\ nudgeSkip' = (nudgeSkip + U32 - 1) % U32
  /\ UNCHANGED <<latchVars, skip, misses, nudgeMisses, handback, pc>>

NudgeLatch(c) ==
  /\ job[c] = "latch"
  /\ IF ~sleeping \/ grant # "none"
       THEN Become(c, "none") /\ lock' = None /\ UNCHANGED nudged
       ELSE Become(c, "signal") /\ nudged' = TRUE /\ UNCHANGED lock
  /\ UNCHANGED <<grant, sleeping, pending, asleep, counters, handback, pc>>

(* notify_one: it wakes the thread if it is there to be woken. *)
Notify(c) ==
  /\ job[c] = "signal" /\ Become(c, "none")
  /\ lock' = IF lock = c THEN None ELSE lock
  /\ pc' = IF pc = "asleep" THEN "woken" ELSE pc
  /\ UNCHANGED <<latchVars, counters, handback>>

-----------------------------------------------------------------------------
Waits == Spin \/ Look \/ SpinNudged
Ends(c) == Grant(c) \/ NudgeLoad(c) \/ NudgePass(c) \/ NudgeLatch(c) \/ Notify(c)

Next ==
  \/ Park \/ Waits \/ SpuriousWake \/ Forget \/ ExpectHandback
  \/ \E c \in Callers : GrantNext(c) \/ Delegate(c) \/ Nudge(c) \/ Ends(c)

(* The OS runs every thread that can run; nobody has to call, or to park. *)
Fairness == WF_vars(Waits) /\ \A c \in Callers : WF_vars(Ends(c))

Spec == Init /\ [][Next]_vars /\ Fairness

-----------------------------------------------------------------------------
(* fill signals with the latch let go: a thread asleep over a grant has a   *)
(* caller about to wake it, whatever grants, duties and nudges crossed.     *)
SleeperSignalled == pc = "asleep" /\ grant # "none" => \E c \in Callers : job[c] = "signal"

(* The counts of spins and nudges to pass up, unsigned and written from     *)
(* both sides without a lock, stay within 2^MAX_MISSES - 1: none wraps      *)
(* below zero, which would end spinning or nudging for good.                *)
SkipsBounded == skip < 2 ^ MAX_MISSES /\ nudgeSkip < 2 ^ MAX_MISSES

(* The parker is the latch the schedule counts on: none of its spins, naps  *)
(* and nudges loses or invents a grant or has a duty replace the baton, and *)
(* a thread that waits takes its grant in the end.                          *)
Abstract == INSTANCE Latch WITH latch <- grant, parked <- pc # "away"
ImplementsLatch == Abstract!Spec
==============================================================================
