--------------------------- MODULE SchedulerTime ---------------------------
(***************************************************************************)
(* Every step of Scheduler, by SchedulerWaits: waits that go on keep their *)
(* terms and their timers, those that begin have their deadline to come,   *)
(* and those that end do so in turn and for the reason they are told.      *)
(* Time passes no deadline, and a deadlock is one.                         *)
(***************************************************************************)
EXTENDS SchedulerWaits
-----------------------------------------------------------------------------
(* Every step. *)

(* Waits that go on are as they were but for the older ones that ended, and *)
(* keep their timers; one may begin, youngest of all and with a timer to    *)
(* come; those on an address end in turn; and nobody is told a lie.         *)
Marches ==
  /\ \A t \in st.waiting \cap st'.waiting :
       /\ st'.wait[t] = st.wait[t] /\ timers'[t] = timers[t]
       /\ st'.older[t] = st.older[t] \ (st.waiting \ st'.waiting)
  /\ \A t \in st'.waiting \ st.waiting :
       /\ st'.waiting \subseteq st.waiting \cup {t} /\ st'.older[t] = st'.waiting \ {t}
       /\ timers'[t] = st'.wait[t].deadline /\ st'.wait[t].deadline > now /\ now' = now
  /\ "signal" \notin Events => InTurn(st, st', now')
  /\ \A t \in Threads :
       /\ Told(t, "TimedOut") => t \in st.waiting /\ st.wait[t].deadline <= now'
       /\ Told(t, "Deadlock") => \E d \in Threads : GiveUp(d)

(* A step that begins no wait, if timers stay. *)
LEMMA PassesMarches ==
  ASSUME Passes, \A t \in st'.waiting : timers'[t] = timers[t]
  PROVE  Marches
  BY Zenon DEF Passes, Ends, TellsTrue, Marches

(* A wait begins. *)
LEMMA BeginsMarches ==
  ASSUME NEW s \in State, Tells(st, s, now'), NEW t \in Threads, t \notin st.waiting,
         NEW w \in Wait, w.deadline > now, now' = now, flight' = flight,
         Alike(SetBlocked(s, t, w), st'),
         timers \in [Threads -> Times], timers' = [timers EXCEPT ![t] = w.deadline]
  PROVE  Marches
<1>1. /\ st'.waiting = s.waiting \cup {t} /\ st'.ready = s.ready /\ st'.why = s.why
      /\ st'.wait = [s.wait EXCEPT ![t] = w]
      /\ st'.older = [s.older EXCEPT ![t] = s.waiting \ {t}]
  BY Zenon DEF Alike, SetBlocked, State
<1>2. /\ s.wait \in [Threads -> Wait] /\ s.older \in [Threads -> SUBSET Threads]
      /\ s.waiting \subseteq Threads
  BY StateFields, Zenon
<1>3. s.waiting \subseteq st.waiting /\ st.waiting \ st'.waiting = st.waiting \ s.waiting
  BY <1>1, Zenon DEF Tells, Ends
<1>4. ASSUME NEW u \in st.waiting \cap st'.waiting
      PROVE  /\ st'.wait[u] = st.wait[u] /\ timers'[u] = timers[u]
             /\ st'.older[u] = st.older[u] \ (st.waiting \ st'.waiting)
  <2>1. u \in s.waiting /\ u # t /\ u \in Threads
    BY <1>1, <1>2, Zenon
  <2>2. st'.wait[u] = s.wait[u] /\ st'.older[u] = s.older[u] /\ timers'[u] = timers[u]
    BY <1>1, <1>2, <2>1, Zenon
  <2>3. s.wait[u] = st.wait[u] /\ s.older[u] = st.older[u] \ (st.waiting \ s.waiting)
    BY <2>1, Zenon DEF Tells, Ends
  <2> QED
    BY <1>3, <2>2, <2>3, Zenon
<1>5. ASSUME NEW u \in st'.waiting \ st.waiting
      PROVE  /\ st'.waiting \subseteq st.waiting \cup {u} /\ st'.older[u] = st'.waiting \ {u}
             /\ timers'[u] = st'.wait[u].deadline /\ st'.wait[u].deadline > now
  <2>1. u = t
    BY <1>1, <1>3, Zenon
  <2>2. st'.waiting \ {u} = s.waiting \ {t}
    BY <1>1, <2>1, Zenon
  <2>3. st'.older[t] = s.waiting \ {t} /\ st'.wait[t] = w /\ timers'[t] = w.deadline
    BY <1>1, <1>2, Zenon
  <2> QED
    BY <1>1, <1>3, <2>1, <2>2, <2>3, Zenon
<1>6. InTurn(st, s, now') => InTurn(st, st', now')
  BY <1>1, Zenon DEF InTurn
<1>7. \A u \in Threads :
        /\ Told(u, "TimedOut") => u \in st.waiting /\ st.wait[u].deadline <= now'
        /\ ~Told(u, "Deadlock")
  BY <1>1, Zenon DEF Told, Tells, Honest
<1> QED
  BY <1>4, <1>5, <1>6, <1>7, Zenon DEF Marches, Tells, Ends

(* A wait that begins has its deadline to come. *)
LEMMA DeadlineAhead ==
  ASSUME Rest, NEW w \in Waits, now + w.after <= MaxTime
  PROVE  Blocked(w) \in Wait /\ Blocked(w).deadline = Deadline(w) /\ Deadline(w) > now
<1>1. w.after \in Nat /\ now \in 0 .. MaxTime
  BY WaitsAssumption, Zenon DEF Rest
<1>2. Deadline(w) > now
  BY <1>1, SchedulerAssumption DEF Deadline, Never
<1> QED
  BY <1>2, TimeTypes, Zenon DEF Blocked

(* block. *)
LEMMA BlockMarches ==
  ASSUME IInv, Senior(st), NEW t \in Threads, NEW w \in Waits,
         BlockLetGo(t, w) \/ \E raced \in BOOLEAN : Block(t, w, raced)
  PROVE  Marches
<1>1. Core /\ Rest /\ Books(st) /\ st \in State /\ timers \in [Threads -> Times]
  BY Zenon DEF IInv, Core, Books, Rest
<1>2. /\ now + w.after <= MaxTime /\ pc[t] \in {"user", "block"} /\ now' = now /\ flight' = flight
  BY Zenon DEF Block, BlockLetGo
<1>3. Blocked(w) \in Wait /\ Blocked(w).deadline = Deadline(w) /\ Deadline(w) > now
  BY <1>1, <1>2, DeadlineAhead, Zenon
<1>4. t \notin st.waiting
  BY <1>1, <1>2, Zenon DEF Core, AllFit, Fits, InWait, Locked, Asleep
<1> DEFINE b == Blocked(w)
<1>5. b \in Wait /\ b.deadline > now /\ b.deadline = Deadline(w)
  BY <1>3, Zenon
<1>6. ASSUME NEW raced \in BOOLEAN, Block(t, w, raced)
      PROVE  Marches
  <2> DEFINE s0 == [st EXCEPT !.spinner[t] = "no"]
             s == WakeForeign(s0, queued)
             r == SetBlocked(s, t, b)
  <2>1. \/ st' = [s EXCEPT !.foreign = @ \ {w.key}] /\ timers' = timers
        \/ st' = [r EXCEPT !.holder = None] /\ timers' = [timers EXCEPT ![t] = b.deadline]
    BY <1>5, <1>6, Zenon DEF Block
  <2>2. Same(st, s0) /\ Alike(st, s0)
    BY <1>1, SpinnerSame, OtherFields, Zenon
  <2> HIDE DEF s0
  <2>3. Books(s0) /\ Senior(s0)
    BY <1>1, <2>2, SameBooks, Zenon DEF Senior, Alike
  <2>4. Wakes(st, s) /\ Books(s) /\ s \in State /\ Tells(s0, s, now')
    BY <2>2, <2>3, QueuedWakes, WakeForeignTells, Zenon DEF Wakes, Books
  <2> HIDE DEF s
  <2>5. Tells(st, s, now')
    BY <2>2, <2>4, AlikeJoins, TellsAround, Zenon DEF Alike
  <2>6. CASE st' = [s EXCEPT !.foreign = @ \ {w.key}] /\ timers' = timers
    <3>1. Same(s, st') /\ Alike(s, st')
      BY <2>4, <2>6, Zenon DEF Alike, State, Same
    <3>2. Books(st')
      BY <2>4, <3>1, SameBooks, Zenon
    <3>3. Tells(st, st', now')
      BY <2>5, <3>1, AlikeJoins, TellsAround, Zenon DEF Alike
    <3> QED
      BY <1>1, <1>2, <2>6, <3>2, <3>3, GrantPasses, PassesMarches, Zenon DEF Core
  <2>7. CASE st' = [r EXCEPT !.holder = None] /\ timers' = [timers EXCEPT ![t] = b.deadline]
    <3>1. t \in s.threads /\ t \notin s.ready
      BY <1>1, <1>6, <2>4, InUser, Zenon DEF Wakes, Block
    <3> HIDE DEF b
    <3>2. r \in State
      BY <1>5, <2>4, <3>1, SetBlockedBooks, Zenon DEF Books
    <3>3. Alike(r, st')
      <4> HIDE DEF r
      <4> QED
        BY <2>7, <3>2, Zenon DEF Alike, State
    <3> QED
      BY <1>1, <1>2, <1>4, <1>5, <2>4, <2>5, <2>7, <3>3, BeginsMarches, Zenon
  <2> QED
    BY <2>1, <2>6, <2>7, Zenon
<1>7. CASE BlockLetGo(t, w)
  <2> DEFINE s == [st EXCEPT !.letGo = @ \ {t}, !.spinner[t] = "no"]
             r == SetBlocked(s, t, b)
  <2>1. \/ st' = s /\ timers' = timers
        \/ st' = r /\ timers' = [timers EXCEPT ![t] = b.deadline]
    BY <1>5, <1>7, Zenon DEF BlockLetGo
  <2>2. s \in State /\ Alike(st, s)
    BY <1>1, Zenon DEF State, Alike
  <2> HIDE DEF s
  <2>3. CASE st' = s /\ timers' = timers
    BY <1>2, <2>2, <2>3, AlikePasses, PassesMarches, Zenon
  <2>4. CASE st' = r /\ timers' = [timers EXCEPT ![t] = b.deadline]
    <3>1. Tells(st, s, now')
      BY <2>2, AlikeJoins, JoinsTells, Zenon
    <3>2. Alike(r, st')
      BY <2>4, Zenon DEF Alike
    <3> HIDE DEF b
    <3> QED
      BY <1>1, <1>2, <1>4, <1>5, <2>2, <2>4, <3>1, <3>2, BeginsMarches, Zenon
  <2> QED
    BY <2>1, <2>3, <2>4, Zenon
<1> QED
  BY <1>6, <1>7, Zenon

(* dispatch_inner gives up on its readiness waits. *)
LEMMA GiveUpMarches ==
  ASSUME IInv, NEW d \in Threads, GiveUp(d)
  PROVE  Marches
<1> DEFINE S == Waiters(st, Readiness)
           told == Tell(S, "Deadlock")
<1>1. /\ Books(st) /\ S \in SUBSET Threads /\ S \in SUBSET S
  BY StateFields, Zenon DEF IInv, Core, Books, Waiters
<1>2. st' = Unblock(st, told) /\ flight' = flight /\ timers' = timers
  BY Zenon DEF GiveUp, Again, WakeKeyAll
<1>3. "Deadlock" \in Why
  BY Zenon DEF Why
<1>4. Ends(st, st', now')
  BY <1>1, <1>2, <1>3, ReadinessTells, Zenon
<1>5. told \in [S -> Why] /\ \A t \in S : told[t] = "Deadlock"
  BY <1>3, Zenon DEF Tell
<1> HIDE DEF S, told
<1>6. Unblocks(st, S, told, st')
  BY <1>1, <1>2, <1>5, UnblockFields, Zenon
<1>7. \A t \in Threads : ~Told(t, "TimedOut")
  <2> SUFFICES ASSUME NEW t \in Threads, Told(t, "TimedOut")
               PROVE  FALSE
    OBVIOUS
  <2>1. t \in S \cap st.waiting /\ st'.why[t] = "TimedOut"
    BY <1>2, <1>6, Zenon DEF Told, Unblocks
  <2> QED
    BY <1>5, <1>6, <2>1, Zenon DEF Unblocks
<1> QED
  BY <1>2, <1>4, <1>7, Zenon DEF Marches, Ends

(* Timers change as waits begin, and when a thread is back from one. *)
LEMMA TimersMove ==
  ASSUME Next
  PROVE  \/ timers' = timers
         \/ \E t \in Threads : Run(t)
         \/ \E t \in Threads, w \in Waits :
              BlockLetGo(t, w) \/ \E raced \in BOOLEAN : Block(t, w, raced)
<1> USE DEF env
<1>1. ASSUME NEW t \in Threads, Coming(t) \/ Waking(t) \/ Rejoining(t)
      PROVE  timers' = timers
  BY <1>1, Zenon DEF Coming, EnterRoot, Created, CreateFails, Started, ExitThread, LeaveClass,
     JoinClass, Spawned, Queue, Waking, Wake, WakeReadiness, WakeThread, Took, Released,
     Rejoining, NativeWait, NativeReturns, DetActive, Rejoin, DetBlock
<1>2. ASSUME NEW t \in Threads, YieldNow(t) \/ SpinAdvance(t) \/ \E clock \in BOOLEAN : Spin(t, clock)
      PROVE  timers' = timers
  BY <1>2, Zenon DEF YieldNow, SpinAdvance, Spin
<1>3. ASSUME NEW t \in Threads, Deliver(t) \/ TakeDuty(t) \/ DoDuty(t)
      PROVE  timers' = timers
  BY <1>3, Zenon DEF Deliver, TakeDuty, DoDuty
<1>4. ASSUME NEW d \in Threads, Dispatching(d)
      PROVE  timers' = timers
  BY <1>4, Zenon DEF Dispatching, TakeForeign, DispatchGrants, NothingBlocked, Detach, StaysOn, IdleLeased,
     NoLease, RepollTimerWakes, WakeRealReady, AskHolders, TimeSkip, NoSkip, LeasedSince, NoTimeLeft,
     IdleHeld, GiveUp, ForeignTimeSkip, PollOutside, IdleOver, HoldersAsked, HeldOff, SkippedOver, PollOver,
     GoOn, GoIdle, Again, Unlock, Relock
<1>5. CASE Outside
  BY <1>5, Zenon DEF Outside, MoveClock, SwitchClock, TakeLease, ReturnLease, Kick, ChargeLatency, Injected,
     Queue, AcquireExternal, ReleaseExternal, ForeignWake, OutsideChange
<1> QED
  BY <1>1, <1>2, <1>3, <1>4, <1>5, Zenon DEF Next, Waiting, Parked

(* Who moves the clock. *)
LEMMA ClockMoves ==
  ASSUME Next
  PROVE  \/ now' = now
         \/ MoveClock
         \/ \E t \in Threads : \/ ChargeLatency(t) \/ TimeSkip(t) \/ ForeignTimeSkip(t)
                               \/ SpinAdvance(t)
<1> USE DEF env
<1>1. ASSUME NEW t \in Threads, Coming(t) \/ Waking(t) \/ Rejoining(t)
      PROVE  now' = now
  BY <1>1, Zenon DEF Coming, EnterRoot, Created, CreateFails, Started, ExitThread, LeaveClass,
     JoinClass, Spawned, Queue, Waking, Wake, WakeReadiness, WakeThread, Took, Released,
     Rejoining, NativeWait, NativeReturns, DetActive, Rejoin, DetBlock
<1>2. ASSUME NEW t \in Threads, YieldNow(t) \/ \E clock \in BOOLEAN : Spin(t, clock)
      PROVE  now' = now
  BY <1>2, Zenon DEF YieldNow, Spin
<1>3. ASSUME NEW t \in Threads, NEW w \in Waits,
             BlockLetGo(t, w) \/ \E raced \in BOOLEAN : Block(t, w, raced)
      PROVE  now' = now
  BY <1>3, Zenon DEF BlockLetGo, Block
<1>4. ASSUME NEW t \in Threads, Parked(t)
      PROVE  now' = now
  BY <1>4, Zenon DEF Parked, Deliver, Run, TakeDuty, DoDuty
<1>5. ASSUME NEW d \in Threads, Dispatching(d)
      PROVE  now' = now \/ TimeSkip(d) \/ ForeignTimeSkip(d)
  BY <1>5, Zenon DEF Dispatching, TakeForeign, DispatchGrants, NothingBlocked, Detach, StaysOn, IdleLeased,
     NoLease, RepollTimerWakes, WakeRealReady, AskHolders, NoSkip, LeasedSince, NoTimeLeft,
     IdleHeld, GiveUp, PollOutside, IdleOver, HoldersAsked, HeldOff, SkippedOver, PollOver,
     GoOn, GoIdle, Relock
<1>6. ASSUME Outside
      PROVE  now' = now \/ MoveClock \/ \E t \in Threads : ChargeLatency(t)
  BY <1>6, Zenon DEF Outside, SwitchClock, TakeLease, ReturnLease, Kick, Injected,
     Queue, AcquireExternal, ReleaseExternal, ForeignWake, OutsideChange
<1> QED
  BY <1>1, <1>2, <1>3, <1>4, <1>5, <1>6, Zenon DEF Next, Waiting

(* The timer of a thread that waits, which the clock can skip to, is the    *)
(* deadline of its wait.                                                    *)
Clocked == \A t \in st.waiting : timers[t] = st.wait[t].deadline
Orderly == IInv /\ Senior(st) /\ Clocked

(* Every step marches. *)
LEMMA NextMarches ==
  ASSUME IInv, Senior(st), Next
  PROVE  Marches
<1>1. ASSUME NEW t \in Threads, NEW w \in Waits,
             BlockLetGo(t, w) \/ \E raced \in BOOLEAN : Block(t, w, raced)
      PROVE  Marches
  BY <1>1, BlockMarches, Zenon
<1>2. ASSUME NEW d \in Threads, GiveUp(d)
      PROVE  Marches
  BY <1>2, GiveUpMarches, Zenon
<1>3. \/ Passes
      \/ \E t \in Threads, w \in Waits :
           BlockLetGo(t, w) \/ \E raced \in BOOLEAN : Block(t, w, raced)
      \/ \E d \in Threads : GiveUp(d)
  <2>1. ASSUME NEW t \in Threads, YieldNow(t) \/ SpinAdvance(t) \/ \E clock \in BOOLEAN : Spin(t, clock)
        PROVE  Passes
    BY <2>1, YieldPasses, SpinPasses, Zenon
  <2> QED
    BY <2>1, ComingPasses, WakingPasses, RejoiningPasses, ParkedPasses, DispatchPasses, OutsidePasses,
       Zenon DEF Next, Waiting
<1>4. ASSUME Passes, NEW t \in Threads, Run(t)
      PROVE  Marches
  <2>1. t \notin st.waiting /\ timers' = [timers EXCEPT ![t] = Never] /\ timers \in [Threads -> Times]
    BY <1>4, Zenon DEF Run, IInv, Core, AllFit, Fits, Rest
  <2>2. st'.waiting \subseteq st.waiting /\ st.waiting \in SUBSET Threads
    BY <1>4, StateFields, Zenon DEF Passes, Ends, IInv, Core, Books
  <2>3. \A u \in st'.waiting : timers'[u] = timers[u]
    BY <2>1, <2>2, Zenon
  <2> QED
    BY <1>4, <2>3, PassesMarches, Zenon
<1>5. CASE Passes /\ timers' = timers
  BY <1>5, PassesMarches, Zenon
<1> QED
  BY <1>1, <1>2, <1>3, <1>4, <1>5, TimersMove, Zenon

(* Seniority and timers stay as they should be. *)
LEMMA MarchesOrderly ==
  ASSUME Senior(st), Clocked, Marches
  PROVE  Senior(st)' /\ Clocked'
<1> DEFINE gone == st.waiting \ st'.waiting
<1>1. ASSUME NEW t \in st.waiting \cap st'.waiting
      PROVE  /\ st'.older[t] = st.older[t] \ gone /\ st'.older[t] \subseteq st.waiting \cap st'.waiting
             /\ \A u \in st'.older[t] : st'.older[u] \subseteq st'.older[t]
  <2>1. st'.older[t] = st.older[t] \ gone /\ st.older[t] \subseteq st.waiting
    BY <1>1, Zenon DEF Marches, Senior
  <2>2. st'.older[t] \subseteq st.waiting \cap st'.waiting
    BY <2>1, Zenon
  <2>3. ASSUME NEW u \in st'.older[t]
        PROVE  st'.older[u] \subseteq st'.older[t]
    <3>1. u \in st.older[t] /\ u \in st.waiting \cap st'.waiting
      BY <2>1, <2>2, Zenon
    <3>2. st'.older[u] = st.older[u] \ gone /\ st.older[u] \subseteq st.older[t]
      BY <1>1, <3>1, Zenon DEF Marches, Senior
    <3> QED
      BY <2>1, <3>2, Zenon
  <2> QED
    BY <2>1, <2>2, <2>3, Zenon
<1>2. ASSUME NEW t \in st'.waiting \ st.waiting
      PROVE  /\ st'.older[t] \subseteq st'.waiting
             /\ \A u \in st'.older[t] : st'.older[u] \subseteq st'.older[t]
  <2>1. st'.older[t] = st'.waiting \ {t} /\ st'.waiting \subseteq st.waiting \cup {t}
    BY <1>2, Zenon DEF Marches
  <2>2. \A u \in st'.older[t] : u \in st.waiting \cap st'.waiting
    BY <2>1, Zenon
  <2> HIDE DEF gone
  <2> QED
    BY <1>1, <1>2, <2>1, <2>2, Zenon
<1>3. Senior(st)'
  BY <1>1, <1>2, Zenon DEF Senior
<1>4. Clocked'
  BY Zenon DEF Clocked, Marches
<1> QED
  BY <1>3, <1>4, Zenon

(* Orderly is an invariant. *)
LEMMA AlwaysOrderly ==
  ASSUME "latejoin" \notin Events
  PROVE  Spec => []Orderly
<1>1. Init => Orderly
  <2>1. ASSUME Init PROVE st.waiting = {}
    BY <2>1, Zenon DEF Init
  <2> QED
    BY <2>1, InitIInv, Zenon DEF Orderly, Senior, Clocked
<1>2. ASSUME Orderly, [Next]_vars
      PROVE  Orderly'
  <2>1. IInv'
    BY <1>2, NextIInv, Zenon DEF Orderly
  <2>2. CASE Next
    BY <1>2, <2>1, <2>2, NextMarches, MarchesOrderly, Zenon DEF Orderly
  <2>3. CASE UNCHANGED vars
    BY <1>2, <2>1, <2>3, Zenon DEF Orderly, Senior, Clocked, vars, env
  <2> QED
    BY <1>2, <2>2, <2>3
<1> QED
  BY <1>1, <1>2, PTL DEF Spec

-----------------------------------------------------------------------------
(* Waiters of one address wake in the order they came, whoever wakes them,  *)
(* but for those whose time is up or whose word has changed, and for those  *)
(* a signal takes out of their wait.                                        *)
THEOREM WakesInOrder ==
  ASSUME "latejoin" \notin Events, "signal" \notin Events
  PROVE  Spec => Fifo
<1> DEFINE A == \A t, u \in st.waiting :
                  /\ st.wait[t].key = st.wait[u].key /\ st.wait[t].key \in AddrKeys
                  /\ t \in st.older[u] /\ u \notin st'.waiting /\ t \in st'.waiting
                  => st.wait[u].deadline <= now' \/ ShouldRepoll(st, u)
<1>1. ASSUME Orderly, Next
      PROVE  A
  BY <1>1, NextMarches, Zenon DEF Orderly, Marches, InTurn
<1> HIDE DEF A
<1>2. Orderly /\ [Next]_vars => [A]_vars
  BY <1>1
<1> QED
  BY <1>2, AlwaysOrderly, PTL DEF Spec, Fifo, A

(* No wait is told that its time is up before its deadline, whoever moves   *)
(* the clock and whoever ends the wait.                                     *)
THEOREM TimeoutsAreHonest ==
  ASSUME "latejoin" \notin Events
  PROVE  Spec => HonestTimeout
<1> DEFINE A == \A t \in Threads :
                  Told(t, "TimedOut") => t \in st.waiting /\ st.wait[t].deadline <= now'
<1>1. ASSUME Orderly, Next
      PROVE  A
  BY <1>1, NextMarches, Zenon DEF Orderly, Marches
<1> HIDE DEF A
<1>2. Orderly /\ [Next]_vars => [A]_vars
  BY <1>1
<1> QED
  BY <1>2, AlwaysOrderly, PTL DEF Spec, HonestTimeout, A

(* A skip of the clock goes to the first timer ahead, so no wait is passed  *)
(* over, whoever moves the clock.                                           *)
LEMMA TimeMoves ==
  ASSUME Rest, Next
  PROVE  /\ now' = now \/ now' = now + 1 \/ (Ahead # {} /\ now' = NextTimer)
         /\ now' \in 0 .. MaxTime
<1>1. now' = now \/ (now < MaxTime /\ now' = now + 1) \/ (Ahead # {} /\ now' = NextTimer)
  <2>1. ASSUME MoveClock
        PROVE  now < MaxTime /\ now' = now + 1
    BY <2>1, Zenon DEF MoveClock
  <2>2. ASSUME NEW t \in Threads, ChargeLatency(t) \/ ForeignTimeSkip(t)
        PROVE  now < MaxTime /\ now' = now + 1
    BY <2>2, Zenon DEF ChargeLatency, ForeignTimeSkip
  <2>3. ASSUME NEW t \in Threads, TimeSkip(t)
        PROVE  Ahead # {} /\ now' = NextTimer
    BY <2>3, Zenon DEF TimeSkip, CanSkip
  <2>4. ASSUME NEW t \in Threads, SpinAdvance(t)
        PROVE  now' = now \/ (now < MaxTime /\ now' = now + 1) \/ (Ahead # {} /\ now' = NextTimer)
    BY <2>4, Zenon DEF SpinAdvance, CanSkip
  <2> QED
    BY <2>1, <2>2, <2>3, <2>4, ClockMoves, Zenon
<1>2. /\ now \in 0 .. MaxTime
      /\ now < MaxTime => now + 1 \in 0 .. MaxTime
      /\ Ahead # {} => NextTimer \in 0 .. MaxTime
  BY TimeTypes, Zenon DEF Rest
<1> QED
  BY <1>1, <1>2, Zenon

(* The clock is never taken past the deadline of a wait: a skip stops at    *)
(* the first timer, and every other move is one step of time.               *)
THEOREM NoDeadlineIsSkipped ==
  ASSUME "latejoin" \notin Events
  PROVE  Spec => NoSkipPast
<1> DEFINE A == \A t \in st.waiting : st.wait[t].deadline \notin (now + 1) .. (now' - 1)
<1>1. ASSUME Orderly, Next
      PROVE  A
  <2> SUFFICES ASSUME NEW t \in st.waiting, st.wait[t].deadline \in (now + 1) .. (now' - 1)
               PROVE  FALSE
    BY Zenon
  <2>1. Rest /\ now \in 0 .. MaxTime /\ st.waiting \in SUBSET Threads
    BY <1>1, StateFields, Zenon DEF Orderly, IInv, Core, Rest, Books
  <2>2. now' = now \/ now' = now + 1 \/ (Ahead # {} /\ now' = NextTimer)
    BY <1>1, <2>1, TimeMoves, Zenon
  <2>3. now' \in 0 .. MaxTime
    BY <1>1, <2>1, TimeMoves, Zenon
  <2>4. Ahead # {} /\ now' = NextTimer
    BY <2>1, <2>2, SchedulerAssumption
  <2>5. timers[t] \in (now + 1) .. (now' - 1)
    BY <1>1, Zenon DEF Orderly, Clocked
  <2>6. (now + 1) .. (now' - 1) \subseteq (now + 1) .. MaxTime
    BY <2>1, <2>3, SchedulerAssumption
  <2>7. timers[t] \in Ahead
    BY <2>1, <2>5, <2>6, Zenon DEF Ahead
  <2>8. now' <= timers[t]
    BY <2>1, <2>4, <2>7, TimeTypes, Zenon
  <2> QED
    BY <2>1, <2>3, <2>5, <2>8, SchedulerAssumption
<1> HIDE DEF A
<1>2. Orderly /\ [Next]_vars => [A]_vars
  BY <1>1
<1> QED
  BY <1>2, AlwaysOrderly, PTL DEF Spec, NoSkipPast, A

-----------------------------------------------------------------------------
(* Where nothing outside holds the clock, leases the schedule or moves time *)
(* on its own, every wait's deadline is ahead, and a dispatch that found no *)
(* skip to make has no timer ahead.                                         *)
Undisturbed == Events \cap {"hold", "lease", "clock", "latency"} = {}
Skipless == {"noskip", "timeless"}
Patient == \A t \in st.waiting : st.wait[t].deadline > now
Dry == \A d \in Threads : pc[d] \in Skipless => "executive" \in Events \/ Ahead = {}
Awaited == Orderly /\ ~held /\ ~leased /\ Patient /\ Dry

(* Nothing holds the clock or leases the schedule, ever. *)
LEMMA NobodyHolds ==
  ASSUME Undisturbed, Next, ~held, ~leased
  PROVE  ~held' /\ ~leased'
<1> USE DEF env, outer
<1>0. ASSUME held' = held, leased' = leased
      PROVE  ~held' /\ ~leased'
  BY <1>0
<1>1. ASSUME NEW t \in Threads, Coming(t) \/ Waking(t) \/ Rejoining(t)
      PROVE  held' = held /\ leased' = leased
  BY <1>1, Zenon DEF Coming, EnterRoot, Created, CreateFails, Started, ExitThread, LeaveClass,
     JoinClass, Spawned, Queue, Waking, Wake, WakeReadiness, WakeThread, Took, Released,
     Rejoining, NativeWait, NativeReturns, DetActive, Rejoin, DetBlock
<1>2. ASSUME NEW t \in Threads, YieldNow(t) \/ SpinAdvance(t) \/ \E clock \in BOOLEAN : Spin(t, clock)
      PROVE  held' = held /\ leased' = leased
  BY <1>2, Zenon DEF YieldNow, SpinAdvance, Spin
<1>3. ASSUME NEW t \in Threads, NEW w \in Waits,
             BlockLetGo(t, w) \/ \E raced \in BOOLEAN : Block(t, w, raced)
      PROVE  held' = held /\ leased' = leased
  BY <1>3, Zenon DEF BlockLetGo, Block
<1>4. ASSUME NEW t \in Threads, Parked(t)
      PROVE  held' = held /\ leased' = leased
  BY <1>4, Zenon DEF Parked, Deliver, Run, TakeDuty, DoDuty
<1>5. ASSUME NEW d \in Threads, Dispatching(d)
      PROVE  held' = held /\ leased' = leased
  BY <1>5, Zenon DEF Dispatching, TakeForeign, DispatchGrants, NothingBlocked, Detach, StaysOn, IdleLeased,
     NoLease, RepollTimerWakes, WakeRealReady, AskHolders, TimeSkip, NoSkip, LeasedSince, NoTimeLeft,
     IdleHeld, GiveUp, ForeignTimeSkip, PollOutside, IdleOver, HoldersAsked, HeldOff, SkippedOver, PollOver,
     GoOn, GoIdle, Again, Unlock, Relock
<1>6. ASSUME Outside
      PROVE  ~held' /\ ~leased'
  <2>1. ~SwitchClock /\ ~TakeLease
    BY Zenon DEF Undisturbed, SwitchClock, TakeLease
  <2>2. ASSUME ReturnLease
        PROVE  ~held' /\ ~leased'
    BY <2>2, Zenon DEF ReturnLease
  <2>3. ASSUME NEW t \in Threads, ChargeLatency(t) \/ Injected(t)
        PROVE  held' = held /\ leased' = leased
    BY <2>3, Zenon DEF ChargeLatency, Injected, Queue
  <2>4. ASSUME MoveClock \/ Kick \/ AcquireExternal \/ ReleaseExternal
        PROVE  held' = held /\ leased' = leased
    BY <2>4, Zenon DEF MoveClock, Kick, AcquireExternal, ReleaseExternal
  <2>5. ASSUME NEW a \in Addrs, ForeignWake(a) \/ OutsideChange(a)
        PROVE  held' = held /\ leased' = leased
    BY <2>5, Zenon DEF ForeignWake, OutsideChange
  <2> QED
    BY <1>0, <1>6, <2>1, <2>2, <2>3, <2>4, <2>5, Zenon DEF Outside
<1> QED
  BY <1>0, <1>1, <1>2, <1>3, <1>4, <1>5, <1>6, Zenon DEF Next, Waiting

(* A move of the clock by dispatch or by a spinner ends what is due then. *)
LEMMA ReleaseEnds ==
  ASSUME NEW s, Books(s), NEW due \in SUBSET s.waiting, NEW more \in SUBSET s.waiting
  PROVE  Release(s, due, more).waiting \cap due = {}
<1> DEFINE told == [t \in due \cup more |-> IF t \in due THEN "TimedOut" ELSE "Woken"]
<1>1. due \cup more \in SUBSET Threads /\ told \in [due \cup more -> Why]
  BY StateFields, Zenon DEF Why, Books
<1>2. Release(s, due, more) = Unblock(s, told)
  BY Zenon DEF Release
<1> HIDE DEF told
<1>3. Unblocks(s, due \cup more, told, Unblock(s, told))
  BY <1>1, UnblockFields, Zenon
<1>4. Release(s, due, more).waiting = s.waiting \ (due \cup more)
  BY <1>2, <1>3, Zenon DEF Unblocks
<1> QED
  BY <1>4, Zenon

(* The clock moved to `time` leaves no wait due by then. *)
LEMMA MovedPast ==
  ASSUME NEW s, Books(s), NEW time, NEW fired
  PROVE  Moved(s, time, fired).waiting \cap DueBy(s, time) = {}
<1>1. DueBy(s, time) \in SUBSET s.waiting /\ Timed(s) \in SUBSET s.waiting /\ Repolled(s) \in SUBSET s.waiting
  BY Zenon DEF DueBy, Timed, Repolled
<1>2. Timed(s) \cup (IF fired THEN Repolled(s) ELSE {}) \in SUBSET s.waiting
  BY <1>1, Zenon
<1> QED
  BY <1>1, <1>2, ReleaseEnds, Zenon DEF Moved

(* With no timer ahead, a wait whose deadline is to come has none. *)
LEMMA NeverDue ==
  ASSUME Orderly, Patient, Ahead = {}, NEW t \in st.waiting
  PROVE  st.wait[t].deadline = Never
<1>1. t \in Threads /\ timers[t] \in Times /\ now \in 0 .. MaxTime /\ timers[t] = st.wait[t].deadline
  BY StateFields, Zenon DEF Orderly, Clocked, IInv, Core, Rest, Books
<1>2. timers[t] > now
  BY <1>1, Zenon DEF Patient
<1>3. timers[t] \notin (now + 1) .. MaxTime
  BY <1>1, Zenon DEF Ahead
<1> QED
  BY <1>1, <1>2, <1>3, SchedulerAssumption DEF Times, Never

(* No step leaves a wait past its deadline. *)
LEMMA StaysPatient ==
  ASSUME Undisturbed, Awaited, Next, Marches
  PROVE  Patient'
<1> SUFFICES ASSUME NEW t \in st'.waiting
             PROVE  st'.wait[t].deadline > now'
  BY Zenon DEF Patient
<1>1. IInv /\ Rest /\ Books(st) /\ st.waiting \in SUBSET Threads /\ st.wait \in [Threads -> Wait]
  BY StateFields, Zenon DEF Awaited, Orderly, IInv, Core, Books
<1>2. CASE t \notin st.waiting
  BY <1>2, Zenon DEF Marches
<1>3. ASSUME t \in st.waiting
      PROVE  st'.wait[t] = st.wait[t] /\ st.wait[t].deadline > now
  BY <1>3, Zenon DEF Marches, Awaited, Patient
<1>4. CASE t \in st.waiting /\ now' = now
  BY <1>3, <1>4, Zenon
<1>5. ASSUME t \in st.waiting, t \notin DueBy(st, now')
      PROVE  st'.wait[t].deadline > now'
  <2>1. st.wait[t] \in Wait /\ ~(st.wait[t].deadline <= now')
    BY <1>1, <1>5, Zenon DEF DueBy
  <2>2. st.wait[t].deadline \in Times /\ now' \in 0 .. MaxTime
    BY <1>1, <2>1, TimeMoves, Zenon DEF Wait
  <2> QED
    BY <1>3, <1>5, <2>1, <2>2, SchedulerAssumption DEF Times, Never
<1>6. ASSUME NEW d \in Threads, TimeSkip(d), t \in st.waiting
      PROVE  st'.wait[t].deadline > now'
  <2>1. st' = Moved(st, now', FALSE)
    BY <1>6, Zenon DEF TimeSkip, Again
  <2> QED
    BY <1>1, <1>5, <1>6, <2>1, MovedPast, Zenon
<1>7. ASSUME NEW u \in Threads, SpinAdvance(u), t \in st.waiting
      PROVE  st'.wait[t].deadline > now'
  <2>1. now' = now \/ \E fired \in Fires : st' = Moved(st, now', timerWakes \/ fired)
    BY <1>7, Zenon DEF SpinAdvance
  <2>2. CASE \E fired \in Fires : st' = Moved(st, now', timerWakes \/ fired)
    BY <1>1, <1>5, <1>7, <2>2, MovedPast, Zenon
  <2> QED
    BY <1>4, <1>7, <2>1, <2>2, Zenon
<1>8. ASSUME NEW d \in Threads, ForeignTimeSkip(d), t \in st.waiting
      PROVE  st'.wait[t].deadline > now'
  <2>1. pc[d] = "timeless" /\ "executive" \notin Events /\ now < MaxTime /\ now' = now + 1
    BY <1>8, Zenon DEF ForeignTimeSkip, NotHeld, ClockHeld
  <2>2. Ahead = {}
    BY <2>1, Zenon DEF Awaited, Dry, Skipless
  <2>3. st.wait[t].deadline = Never /\ now \in 0 .. MaxTime
    BY <1>1, <1>8, <2>2, NeverDue, Zenon DEF Awaited, Rest
  <2> QED
    BY <1>3, <1>8, <2>1, <2>3, SchedulerAssumption DEF Never
<1>9. ~MoveClock /\ \A u \in Threads : ~ChargeLatency(u)
  BY Zenon DEF Undisturbed, MoveClock, ChargeLatency
<1> QED
  BY <1>2, <1>4, <1>6, <1>7, <1>8, <1>9, ClockMoves, Zenon

(* The way to `noskip` and beyond is through NoSkip. *)
SkipsHence == \A d \in Threads : pc'[d] \in Skipless => pc[d] \in Skipless \/ NoSkip(d)

(* A thread that goes somewhere else. *)
LEMMA GotoHence ==
  ASSUME Rest, NEW t \in Threads, NEW where, where \notin Skipless, Goto(t, where)
  PROVE  SkipsHence
  BY Zenon DEF Rest, Goto, SkipsHence

(* Every step. *)
LEMMA OnlyNoSkip ==
  ASSUME Rest, Next
  PROVE  SkipsHence
<1>0. /\ Skipless \cap {"born", "create", "user", "gone", "parked", "duty", "dispatch", "drained", "yield",
                        "advance", "native", "rejoin", "active", "hook", "block"} = {}
      /\ Skipless \cap {"stuck", "unleased", "idle", "unlocked", "skipped", "polling"} = {}
  BY Zenon DEF Skipless
<1>1. ASSUME pc' = pc
      PROVE  SkipsHence
  BY <1>1, Zenon DEF SkipsHence
<1>2. ASSUME NEW t \in Threads, Coming(t)
      PROVE  SkipsHence
  <2>1. ASSUME NEW c \in Threads, Spawned(t, c)
        PROVE  SkipsHence
    <3>1. pc' = [pc EXCEPT ![t] = "create", ![c] = "born"]
      BY <2>1, Zenon DEF Spawned
    <3> QED
      BY <1>0, <3>1, Zenon DEF SkipsHence, Rest
  <2>2. ASSUME CreateFails(t)
        PROVE  SkipsHence
    <3>1. pc' = [pc EXCEPT ![t] = "user", ![kid[t]] = "gone"]
      BY <2>2, Zenon DEF CreateFails
    <3> QED
      BY <1>0, <3>1, Zenon DEF SkipsHence, Rest
  <2>3. ASSUME EnterRoot(t) \/ Created(t) \/ Started(t) \/ ExitThread(t) \/ LeaveClass(t) \/ JoinClass(t)
        PROVE  pc' = pc \/ Goto(t, "user") \/ Goto(t, "parked") \/ Goto(t, "gone") \/ Goto(t, "yield")
    BY <2>3, Zenon DEF EnterRoot, Created, Started, ExitThread, LeaveClass, JoinClass, threadVars
  <2> QED
    BY <1>0, <1>1, <1>2, <2>1, <2>2, <2>3, GotoHence, Zenon DEF Coming
<1>3. ASSUME NEW t \in Threads, Waiting(t)
      PROVE  SkipsHence
  <2>1. ASSUME NEW w \in Waits, NEW raced \in BOOLEAN, BlockLetGo(t, w) \/ Block(t, w, raced)
        PROVE  pc' = pc \/ Goto(t, "user") \/ Goto(t, "parked") \/ Goto(t, "dispatch")
    BY <2>1, Zenon DEF BlockLetGo, Block
  <2>2. ASSUME YieldNow(t) \/ SpinAdvance(t)
        PROVE  Goto(t, "user") \/ Goto(t, "parked") \/ Goto(t, "yield")
    BY <2>2, Zenon DEF YieldNow, SpinAdvance
  <2>3. ASSUME NEW clock \in BOOLEAN, Spin(t, clock)
        PROVE  pc' = pc \/ Goto(t, "yield") \/ Goto(t, "advance")
    BY <2>3, Zenon DEF Spin
  <2>4. TRUE \in BOOLEAN
    BY Zenon
  <2> QED
    BY <1>0, <1>1, <1>3, <2>1, <2>2, <2>3, <2>4, GotoHence, Zenon DEF Waiting
<1>4. ASSUME NEW t \in Threads, Waking(t)
      PROVE  SkipsHence
  <2>1. pc' = pc
    BY <1>4, Zenon DEF Waking, Wake, WakeReadiness, WakeThread, Took, Released, threadVars
  <2> QED
    BY <1>1, <2>1, Zenon
<1>5. ASSUME NEW t \in Threads, Rejoining(t)
      PROVE  SkipsHence
  <2>1. \/ pc' = pc \/ Goto(t, "native") \/ Goto(t, "rejoin") \/ Goto(t, "active") \/ Goto(t, "user")
        \/ Goto(t, "hook") \/ Goto(t, "parked") \/ Goto(t, "block")
    BY <1>5, Zenon DEF Rejoining, NativeWait, NativeReturns, DetActive, Rejoin, DetBlock
  <2> QED
    BY <1>0, <1>1, <2>1, GotoHence, Zenon
<1>6. ASSUME NEW t \in Threads, Parked(t)
      PROVE  SkipsHence
  <2>1. \/ pc' = pc \/ Goto(t, "user") \/ Goto(t, "duty") \/ Goto(t, "dispatch") \/ Goto(t, "parked")
    BY <1>6, Zenon DEF Parked, Deliver, Run, TakeDuty, DoDuty, threadVars
  <2> QED
    BY <1>0, <1>1, <2>1, GotoHence, Zenon
<1>7. ASSUME NEW d \in Threads, Dispatching(d)
      PROVE  SkipsHence
  <2>1. ASSUME NoSkip(d) \/ NoTimeLeft(d)
        PROVE  SkipsHence
    <3>1. Goto(d, "noskip") \/ Goto(d, "timeless")
      BY <2>1, Zenon DEF NoSkip, NoTimeLeft, GoOn
    <3>2. pc[d] \in Skipless \/ NoSkip(d)
      BY <2>1, Zenon DEF NoTimeLeft, Skipless
    <3> QED
      BY <3>1, <3>2, Zenon DEF SkipsHence, Rest, Goto
  <2>2. ASSUME ~NoSkip(d), ~NoTimeLeft(d)
        PROVE  \/ Goto(d, "dispatch") \/ Goto(d, "drained") \/ Goto(d, "parked") \/ Goto(d, "stuck")
               \/ Goto(d, "unleased") \/ Goto(d, "idle") \/ Goto(d, "unlocked") \/ Goto(d, "skipped")
               \/ Goto(d, "polling")
    BY <1>7, <2>2, Zenon DEF Dispatching, TakeForeign, DispatchGrants, NothingBlocked, Detach, StaysOn,
       IdleLeased, NoLease, RepollTimerWakes, WakeRealReady, AskHolders, TimeSkip, LeasedSince,
       IdleHeld, GiveUp, ForeignTimeSkip, PollOutside, IdleOver, HoldersAsked, HeldOff, SkippedOver, PollOver,
       GoOn, GoIdle, Again, Unlock, Relock, Leave
  <2> QED
    BY <1>0, <2>1, <2>2, GotoHence, Zenon
<1>8. ASSUME Outside
      PROVE  SkipsHence
  <2>1. pc' = pc \/ \E t \in Threads : Goto(t, "yield") \/ Goto(t, "born")
    BY <1>8, Zenon DEF Outside, MoveClock, SwitchClock, TakeLease, ReturnLease, Kick, ChargeLatency, Injected,
       AcquireExternal, ReleaseExternal, ForeignWake, OutsideChange, threadVars
  <2> QED
    BY <1>0, <1>1, <2>1, GotoHence, Zenon
<1> QED
  BY <1>2, <1>3, <1>4, <1>5, <1>6, <1>7, <1>8, Zenon DEF Next

(* The timers ahead stay none while dispatch keeps the state lock. *)
LEMMA StaysDry ==
  ASSUME Undisturbed, Awaited, Next
  PROVE  Dry'
<1> SUFFICES ASSUME NEW d \in Threads, pc'[d] \in Skipless, "executive" \notin Events
             PROVE  Ahead' = {}
  BY Zenon DEF Dry
<1>1. Rest /\ ~held /\ ~leased /\ Dry
  BY Zenon DEF Awaited, Orderly, IInv
<1>2. pc[d] \in Skipless \/ NoSkip(d)
  BY <1>1, OnlyNoSkip, Zenon DEF SkipsHence
<1>3. CASE NoSkip(d)
  <2>1. Ahead = {} /\ now' = now /\ timers' = timers
    BY <1>1, <1>3, Zenon DEF NoSkip, CanSkip, ClockHeld, GoOn
  <2> QED
    BY <2>1, Zenon DEF Ahead
<1>4. CASE pc[d] \in Skipless
  <2>1. Ahead = {} /\ locker = d /\ ~Free
    BY <1>1, <1>4, SchedulerAssumption, Zenon DEF Dry, Rest, Skipless, Locked, Free
  <2>2. ASSUME NEW e \in Threads, TimeSkip(e) \/ ForeignTimeSkip(e)
        PROVE  FALSE
    <3>1. pc[e] \in Locked /\ (Goto(e, "dispatch") \/ Goto(e, "skipped"))
      BY <2>2, Zenon DEF TimeSkip, ForeignTimeSkip, MaySkip, Unready, NotHeld, Again, Unlock, Leave, Locked
    <3>2. e = d
      BY <1>1, <2>1, <3>1, Zenon DEF Rest
    <3> QED
      BY <1>1, <3>1, <3>2, Zenon DEF Goto, Rest, Skipless
  <2>3. ~MoveClock /\ \A u \in Threads : ~ChargeLatency(u) /\ ~SpinAdvance(u)
    BY <2>1, Zenon DEF Undisturbed, MoveClock, ChargeLatency, SpinAdvance
  <2>4. now' = now
    BY <2>2, <2>3, ClockMoves, Zenon
  <2>5. \A t \in Threads, w \in Waits :
          ~BlockLetGo(t, w) /\ \A raced \in BOOLEAN : ~Block(t, w, raced)
    BY <2>1, ZenonT(40) DEF BlockLetGo, Block
  <2>6. CASE timers' = timers
    BY <2>1, <2>4, <2>6, Zenon DEF Ahead
  <2>7. ASSUME NEW t \in Threads, Run(t)
        PROVE  Ahead' = {}
    <3>1. timers' = [timers EXCEPT ![t] = Never] /\ timers \in [Threads -> Times]
      BY <1>1, <2>7, Zenon DEF Run, Rest
    <3>2. Never \notin (now + 1) .. MaxTime
      BY SchedulerAssumption DEF Never
    <3>3. \A u \in Threads : timers'[u] \notin (now + 1) .. MaxTime
      BY <2>1, <3>1, <3>2, Zenon DEF Ahead
    <3> QED
      BY <2>4, <3>3, Zenon DEF Ahead
  <2> QED
    BY <2>5, <2>6, <2>7, TimersMove, Zenon
<1> QED
  BY <1>2, <1>3, <1>4, Zenon

(* Awaited is an invariant. *)
LEMMA AlwaysAwaited ==
  ASSUME "latejoin" \notin Events, Undisturbed
  PROVE  Spec => []Awaited
<1>1. Init => Patient /\ Dry /\ ~held /\ ~leased
  <2> SUFFICES ASSUME Init
               PROVE  Patient /\ Dry /\ ~held /\ ~leased
    OBVIOUS
  <2>1. st.waiting = {} /\ ~held /\ ~leased /\ \A d \in Threads : pc[d] = "out"
    BY Zenon DEF Init
  <2> QED
    BY <2>1, Zenon DEF Patient, Dry, Skipless
<1>2. ASSUME Awaited, Orderly', [Next]_vars
      PROVE  Awaited'
  <2>1. CASE Next
    <3>1. Marches
      BY <1>2, <2>1, NextMarches, Zenon DEF Awaited, Orderly
    <3>2. Patient' /\ Dry'
      BY <1>2, <2>1, <3>1, StaysPatient, StaysDry, Zenon
    <3>3. ~held' /\ ~leased'
      BY <1>2, <2>1, NobodyHolds, Zenon DEF Awaited
    <3> QED
      BY <1>2, <3>2, <3>3, Zenon DEF Awaited
  <2>2. CASE UNCHANGED vars
    <3>1. st' = st /\ now' = now /\ timers' = timers /\ pc' = pc /\ held' = held /\ leased' = leased
      BY <2>2, Zenon DEF vars, env, outer, threadVars
    <3>2. Patient' /\ Dry'
      BY <1>2, <3>1, Zenon DEF Awaited, Patient, Dry, Ahead
    <3>3. ~held' /\ ~leased'
      BY <1>2, <3>1 DEF Awaited
    <3> QED
      BY <1>2, <3>2, <3>3, Zenon DEF Awaited
  <2> QED
    BY <1>2, <2>1, <2>2
<1>3. Orderly /\ Patient /\ Dry /\ ~held /\ ~leased => Awaited
  BY Zenon DEF Awaited
<1> QED
  BY <1>1, <1>2, <1>3, AlwaysOrderly, PTL DEF Spec

(* Sim waits are told of a deadlock only when no thread of the schedule     *)
(* waits for a time to come, in a sim whose clock and schedule nothing      *)
(* outside holds or moves.                                                  *)
THEOREM DeadlocksAreReal ==
  ASSUME "latejoin" \notin Events, Undisturbed
  PROVE  Spec => DeadlockIsReal
<1> DEFINE A == \A t \in Threads :
                  Told(t, "Deadlock") => \A u \in st.waiting : st.wait[u].deadline = Never
<1>1. ASSUME Awaited, Next
      PROVE  A
  <2> SUFFICES ASSUME NEW t \in Threads, Told(t, "Deadlock"), NEW u \in st.waiting
               PROVE  st.wait[u].deadline = Never
    BY Zenon
  <2>1. PICK d \in Threads : GiveUp(d)
    BY <1>1, NextMarches, Zenon DEF Awaited, Orderly, Marches
  <2>2. pc[d] \in Skipless /\ "executive" \notin Events
    BY <2>1, Zenon DEF GiveUp, NotHeld, ClockHeld, Skipless
  <2> QED
    BY <1>1, <2>2, NeverDue, Zenon DEF Awaited, Dry
<1> HIDE DEF A
<1>2. Awaited /\ [Next]_vars => [A]_vars
  BY <1>1
<1> QED
  BY <1>2, AlwaysAwaited, PTL DEF Spec, DeadlockIsReal, A
=============================================================================
