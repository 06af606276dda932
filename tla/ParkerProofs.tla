---------------------------- MODULE ParkerProofs ----------------------------
(***************************************************************************)
(* Theorems about Parker, for any callers and any bound on misses: no      *)
(* grant is slept over, and every step of the parker is one of the latch.  *)
(***************************************************************************)
EXTENDS Parker, TLAPS

Jobs == {"none", "grant", "nudge", "passup", "latch", "signal"}

(* A thread asleep says so in the latch, so that whoever fills the latch    *)
(* sees that there is somebody to signal.                                   *)
IInv ==
  /\ job \in [Callers -> Jobs]
  /\ pc = "asleep" => sleeping
  /\ SleeperSignalled

(* What a caller fills in while the thread sleeps, it signals. *)
LEMMA FillSignals ==
  ASSUME IInv, NEW c \in Callers, NEW g, Fill(c, g)
  PROVE  IInv'
<1>1. job' \in [Callers -> Jobs] /\ (pc' = "asleep" => sleeping')
  BY DEF IInv, Fill, Become, Jobs
<1>2. ASSUME pc' = "asleep"
      PROVE  \E d \in Callers : job'[d] = "signal"
  <2>1. job'[c] = "signal"
    BY <1>2 DEF IInv, Fill, Become
  <2> QED
    BY <2>1
<1> QED
  BY <1>1, <1>2 DEF IInv, SleeperSignalled

(* A caller that had nothing to signal takes no signal away. *)
LEMMA JobKeeps ==
  ASSUME IInv, NEW c \in Callers, NEW what \in Jobs, Become(c, what), job[c] # "signal",
         UNCHANGED <<grant, sleeping, pc>>
  PROVE  IInv'
<1>1. job' \in [Callers -> Jobs] /\ (pc' = "asleep" => sleeping')
  BY DEF IInv, Become
<1>2. \A d \in Callers : job[d] = "signal" => job'[d] = "signal"
  BY DEF IInv, Become
<1> QED
  BY <1>1, <1>2 DEF IInv, SleeperSignalled

(* The parked thread goes to sleep only over an empty latch. *)
LEMMA ThreadKeeps ==
  ASSUME IInv, Park \/ Waits \/ SpuriousWake \/ Forget \/ ExpectHandback
  PROVE  IInv'
<1>1. CASE Park
  BY <1>1 DEF IInv, SleeperSignalled, Park, latchVars
<1>2. CASE Spin
  BY <1>2 DEF IInv, SleeperSignalled, Spin, latchVars
<1>3. CASE Look
  BY <1>3 DEF IInv, SleeperSignalled, Look
<1>4. CASE SpinNudged
  BY <1>4 DEF IInv, SleeperSignalled, SpinNudged, latchVars
<1>5. CASE SpuriousWake
  BY <1>5 DEF IInv, SleeperSignalled, SpuriousWake, latchVars
<1>6. CASE Forget
  BY <1>6 DEF IInv, SleeperSignalled, Forget
<1>7. CASE ExpectHandback
  BY <1>7 DEF IInv, SleeperSignalled, ExpectHandback, latchVars
<1> QED
  BY <1>1, <1>2, <1>3, <1>4, <1>5, <1>6, <1>7 DEF Waits

(* A signal is given up only as it wakes the sleeper. *)
LEMMA CallerKeeps ==
  ASSUME IInv, NEW c \in Callers, GrantNext(c) \/ Delegate(c) \/ Nudge(c) \/ Ends(c)
  PROVE  IInv'
<1>1. CASE GrantNext(c)
  BY <1>1, JobKeeps DEF GrantNext, Jobs, latchVars
<1>2. CASE Delegate(c)
  BY <1>2, FillSignals DEF Delegate
<1>3. CASE Nudge(c)
  BY <1>3, JobKeeps DEF Nudge, Jobs, latchVars
<1>4. CASE Grant(c)
  BY <1>4, FillSignals DEF Grant
<1>5. CASE NudgeLoad(c)
  <2>1. \E what \in Jobs : Become(c, what)
    BY <1>5 DEF NudgeLoad, Jobs
  <2> QED
    BY <1>5, <2>1, JobKeeps DEF NudgeLoad, latchVars
<1>6. CASE NudgePass(c)
  BY <1>6, JobKeeps DEF NudgePass, Jobs, latchVars
<1>7. CASE NudgeLatch(c)
  <2>1. \E what \in Jobs : Become(c, what)
    BY <1>7 DEF NudgeLatch, Jobs
  <2> QED
    BY <1>7, <2>1, JobKeeps DEF NudgeLatch
<1>8. CASE Notify(c)
  BY <1>8 DEF IInv, SleeperSignalled, Notify, Become, Jobs, latchVars
<1> QED
  BY <1>1, <1>2, <1>3, <1>4, <1>5, <1>6, <1>7, <1>8 DEF Ends

(* The parker's fill signals with the latch let go, and wait sleeps with    *)
(* the latch looked at: whatever grants, duties and nudges cross, a thread  *)
(* asleep over a grant has a caller about to wake it.                       *)
THEOREM NoGrantSleptOver == Spec => []SleeperSignalled
<1>1. Init => IInv
  BY DEF Init, IInv, SleeperSignalled, Jobs
<1>2. IInv /\ [Next]_vars => IInv'
  <2> SUFFICES ASSUME IInv, [Next]_vars
               PROVE  IInv'
    OBVIOUS
  <2>1. CASE UNCHANGED vars
    BY <2>1 DEF IInv, SleeperSignalled, vars, latchVars
  <2> QED
    BY <2>1, ThreadKeeps, CallerKeeps DEF Next
<1>3. IInv => SleeperSignalled
  BY DEF IInv
<1> QED
  BY <1>1, <1>2, <1>3, PTL DEF Spec

(* The latch as an observer sees it. *)
seen == <<grant, pc # "away">>

(* What the parked thread does is a step of the latch, or none. *)
LEMMA ThreadRefines ==
  ASSUME Park \/ Waits \/ SpuriousWake \/ Forget \/ ExpectHandback
  PROVE  [Abstract!Next]_seen
<1>1. CASE Park
  <2>1. Abstract!Park
    BY <1>1 DEF Park, latchVars, Abstract!Park
  <2> QED
    BY <2>1 DEF Abstract!Next
<1>2. CASE Look
  <2>1. CASE grant # "none"
    <3>1. Abstract!Take
      BY <1>2, <2>1 DEF Look, Abstract!Take
    <3> QED
      BY <3>1 DEF Abstract!Next
  <2>2. CASE grant = "none"
    BY <1>2, <2>2 DEF Look, seen
  <2> QED
    BY <2>1, <2>2
<1>3. CASE Forget
  <2>1. Abstract!Forget
    BY <1>3 DEF Forget, Abstract!Forget
  <2> QED
    BY <2>1 DEF Abstract!Next
<1>4. CASE Spin \/ SpinNudged \/ SpuriousWake \/ ExpectHandback
  BY <1>4 DEF Spin, SpinNudged, SpuriousWake, ExpectHandback, latchVars, seen
<1> QED
  BY <1>1, <1>2, <1>3, <1>4 DEF Waits

(* So is what a caller does: a duty fills only an empty latch, and nothing  *)
(* but the thread itself empties it.                                        *)
LEMMA CallerRefines ==
  ASSUME NEW c \in Callers, GrantNext(c) \/ Delegate(c) \/ Nudge(c) \/ Ends(c)
  PROVE  [Abstract!Next]_seen
<1>1. CASE Grant(c)
  <2>1. Abstract!Grant
    BY <1>1 DEF Grant, Fill, Abstract!Grant
  <2> QED
    BY <2>1 DEF Abstract!Next
<1>2. CASE Delegate(c)
  <2>1. CASE grant = "none"
    <3>1. Abstract!Delegate
      BY <1>2, <2>1 DEF Delegate, Fill, Abstract!Delegate
    <3> QED
      BY <3>1 DEF Abstract!Next
  <2>2. CASE grant # "none"
    BY <1>2, <2>2 DEF Delegate, Fill, seen
  <2> QED
    BY <2>1, <2>2
<1>3. CASE GrantNext(c) \/ Nudge(c) \/ NudgeLoad(c) \/ NudgePass(c) \/ NudgeLatch(c) \/ Notify(c)
  BY <1>3 DEF GrantNext, Nudge, NudgeLoad, NudgePass, NudgeLatch, Notify, latchVars, seen
<1> QED
  BY <1>1, <1>2, <1>3 DEF Ends

(* The safety half of ImplementsLatch: no spin, nap or nudge of the parker  *)
(* loses or invents a grant, or has a duty replace the baton.               *)
THEOREM StepsOfTheLatch == Spec => Abstract!Init /\ [][Abstract!Next]_seen
<1>1. Init => Abstract!Init
  BY DEF Init, Abstract!Init
<1>2. [Next]_vars => [Abstract!Next]_seen
  <2> SUFFICES ASSUME [Next]_vars
               PROVE  [Abstract!Next]_seen
    OBVIOUS
  <2>1. CASE UNCHANGED vars
    BY <2>1 DEF vars, latchVars, seen
  <2> QED
    BY <2>1, ThreadRefines, CallerRefines DEF Next
<1> QED
  BY <1>1, <1>2, PTL DEF Spec
=============================================================================
